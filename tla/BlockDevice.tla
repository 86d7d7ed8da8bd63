----------------------------- MODULE BlockDevice -----------------------------
(***************************************************************************)
(* The disks of a storage pool: which units of a disk are taken, who may   *)
(* take the next one, and the UNMAPs of released units (core/bdev.c).      *)
(*                                                                         *)
(* A caller is a thread working for one partition.  bdev_get_block and     *)
(* bdev_release_block are sequences of steps, one per stretch of code      *)
(* under a lock; pc says where a caller is.  bdev_get_block begins at      *)
(* "get" and ends at "got", with the unit in unit[v], or at "none".        *)
(* bdev_release_block begins at "drop" and ends at "dropped".              *)
(*                                                                         *)
(* Units are counted from the first one that is not reserved.  A bit of    *)
(* the bitmap is <<disk, number>>; the last byte of the bitmap may have    *)
(* bits beyond the end of the disk.  A changed page is written before the  *)
(* disk's lock is given up, and changed back if the write fails, so there  *)
(* is one bitmap, in memory and on disk.                                   *)
(***************************************************************************)
EXTENDS Integers, FiniteSets, Lists

CONSTANTS
    Parts,              \* partitions of the cartridges
    usize,              \* units of each disk
    UNITS_PER_INDEX,    \* bits of a bitmap page
    Failing,            \* writes that may fail, of Writes
    NONE

Writes == {"alloc", "release", "zero", "tmap", "metadata"}

Disks == DOMAIN usize
bint_nindexes(d) == (usize[d] + UNITS_PER_INDEX - 1) \div UNITS_PER_INDEX
Index(d, p) == {d} \X ((p * UNITS_PER_INDEX + 1)..((p + 1) * UNITS_PER_INDEX))
Units == UNION {{d} \X (1..usize[d]) : d \in Disks}

ASSUME DisksAssumption == usize \in Seq(Nat \ {0}) /\ UNITS_PER_INDEX \in Nat \ {0}
ASSUME FailingAssumption == Failing \subseteq Writes
ASSUME NoneAssumption ==
    NONE \notin Parts /\ NONE \notin Units /\ NONE \notin Disks /\ NONE \notin Disks \X Nat

VARIABLES
    bmap,           \* bits set in the bitmaps
    free,           \* free units of a disk, as counted
    alloc_list,     \* disks that may have room
    eligible,       \* the disk to try next
    alloc_lock,     \* caller that holds the pool's lock
    bint_lock,      \* caller that holds a disk's lock
    unmap_list,     \* units with an UNMAP on its way
    pc, disk, page, unit    \* of each caller

poolvars == <<alloc_list, eligible, alloc_lock>>
diskvars == <<bmap, free, unmap_list>>
bdevvars == <<poolvars, diskvars, bint_lock, pc, disk, page, unit>>

Goto(v, l) == pc' = [pc EXCEPT ![v] = l]

(* The end of a call, with its result; its local variables are gone.       *)
Return(v, l, u) ==
    /\ Goto(v, l)
    /\ disk' = [disk EXCEPT ![v] = NONE]
    /\ page' = [page EXCEPT ![v] = 0]
    /\ unit' = [unit EXCEPT ![v] = u]

ClearUnits(d) == {u \in Units \ bmap : u[1] = d}

-----------------------------------------------------------------------------
(***************************************************************************)
(* bint_get_eligible: under alloc_lock, disks that count no free unit are  *)
(* taken off alloc_list until one is found.  The count is read without the *)
(* disk's lock.                                                            *)
(***************************************************************************)
Position(d) == CHOOSE i \in DOMAIN alloc_list : alloc_list[i] = d

bdev_alloc_list_next_rotate(d) ==
    IF Position(d) < Len(alloc_list) THEN alloc_list[Position(d) + 1] ELSE alloc_list[1]

EligibleIs(v, d) ==
    \/ /\ d = NONE
       /\ eligible' = NONE
       /\ alloc_lock' = NONE
       /\ Return(v, "none", NONE)
    \/ /\ d \in Disks /\ free[d] # 0
       /\ eligible' = bdev_alloc_list_next_rotate(d)
       /\ alloc_lock' = NONE
       /\ disk' = [disk EXCEPT ![v] = d]
       /\ Goto(v, "lock")
       /\ UNCHANGED <<page, unit>>
    \/ /\ d \in Disks /\ free[d] = 0
       /\ alloc_lock' = v
       /\ disk' = [disk EXCEPT ![v] = d]
       /\ Goto(v, "unlist")
       /\ UNCHANGED <<eligible, page, unit>>

bint_get_eligible(v) ==
    /\ \/ /\ pc[v] = "get" /\ alloc_lock = NONE
          /\ EligibleIs(v, IF eligible # NONE THEN eligible
                           ELSE IF alloc_list # <<>> THEN Head(alloc_list) ELSE NONE)
       \/ /\ pc[v] = "eligible"
          /\ EligibleIs(v, disk[v])
    /\ UNCHANGED <<alloc_list, diskvars, bint_lock>>

bdev_remove_from_alloc_list(v) ==
    LET next == bdev_alloc_list_next_rotate(disk[v])
    IN /\ pc[v] = "unlist"
       /\ bint_lock[disk[v]] = NONE
       /\ alloc_list' = RemoveAt(alloc_list, Position(disk[v]))
       /\ eligible' = IF eligible = disk[v] THEN NONE ELSE eligible
       /\ disk' = [disk EXCEPT ![v] = IF next = disk[v] THEN NONE ELSE next]
       /\ Goto(v, "eligible")
       /\ UNCHANGED <<alloc_lock, diskvars, bint_lock, page, unit>>

-----------------------------------------------------------------------------
(***************************************************************************)
(* __bint_get_block: under bint_lock, page after page, the first clear bit *)
(* whose UNMAP is done; if a page has only clear bits with an UNMAP, the   *)
(* first of them, once its UNMAP is done.                                  *)
(***************************************************************************)
bint_get_block_lock(v) ==
    /\ pc[v] = "lock"
    /\ bint_lock[disk[v]] = NONE
    /\ bint_lock' = [bint_lock EXCEPT ![disk[v]] = v]
    /\ page' = [page EXCEPT ![v] = 0]
    /\ Goto(v, "scan")
    /\ UNCHANGED <<poolvars, diskvars, disk, unit>>

Clear(v) == Index(disk[v], page[v]) \ bmap
First(us, u) == u \in us /\ \A w \in us : u[2] <= w[2]

NextIndex(v) ==
    /\ page' = [page EXCEPT ![v] = @ + 1]
    /\ Goto(v, "scan")
    /\ UNCHANGED <<poolvars, diskvars, bint_lock, disk, unit>>

(* Faulty: the end of the disk is not looked at.                           *)
Take_BeyondEnd(v, u) ==
    \/ /\ bmap' = bmap \cup {u}
       /\ free' = [free EXCEPT ![disk[v]] = @ - 1]
       /\ bint_lock' = [bint_lock EXCEPT ![disk[v]] = NONE]
       /\ Return(v, "got", u)
       /\ UNCHANGED <<poolvars, unmap_list>>
    \/ "alloc" \in Failing /\ NextIndex(v)

(* A bit beyond the end, or a failed write of the page, sends the search   *)
(* on to the next page.                                                    *)
Take(v, u) ==
    \/ /\ u \in Units
       /\ bmap' = bmap \cup {u}
       /\ free' = [free EXCEPT ![disk[v]] = @ - 1]
       /\ bint_lock' = [bint_lock EXCEPT ![disk[v]] = NONE]
       /\ Return(v, "got", u)
       /\ UNCHANGED <<poolvars, unmap_list>>
    \/ /\ u \notin Units \/ "alloc" \in Failing
       /\ NextIndex(v)

(* Faulty: UNMAPs are not waited for.                                      *)
bint_get_block_IgnoresUnmap(v) ==
    /\ pc[v] = "scan"
    /\ page[v] < bint_nindexes(disk[v])
    /\ \/ \E u \in Clear(v) : First(Clear(v), u) /\ Take(v, u)
       \/ Clear(v) = {} /\ NextIndex(v)

bint_get_block(v) ==
    /\ pc[v] = "scan"
    /\ page[v] < bint_nindexes(disk[v])
    /\ \/ \E u \in Clear(v) \ unmap_list :
              First(Clear(v) \ unmap_list, u) /\ Take(v, u)
       \/ /\ Clear(v) # {} /\ Clear(v) \subseteq unmap_list
          /\ Goto(v, "wait")
          /\ UNCHANGED <<poolvars, diskvars, bint_lock, disk, page, unit>>
       \/ Clear(v) = {} /\ NextIndex(v)

bint_index_unmap_done(v) ==
    /\ pc[v] = "wait"
    /\ \E u \in Clear(v) : First(Clear(v), u) /\ u \notin unmap_list /\ Take(v, u)

(* Faulty: the disk stays locked.                                          *)
bint_get_block_fails_Locked(v) ==
    /\ pc[v] = "scan"
    /\ page[v] = bint_nindexes(disk[v])
    /\ Return(v, "none", NONE)
    /\ UNCHANGED <<poolvars, diskvars, bint_lock>>

bint_get_block_fails(v) ==
    /\ pc[v] = "scan"
    /\ page[v] = bint_nindexes(disk[v])
    /\ bint_lock' = [bint_lock EXCEPT ![disk[v]] = NONE]
    /\ Return(v, "none", NONE)
    /\ UNCHANGED <<poolvars, diskvars>>

-----------------------------------------------------------------------------
(* Faulty: a released unit is not counted.                                 *)
bint_release_block_Uncounted(v) ==
    LET u == unit[v]
        d == u[1]
    IN /\ pc[v] = "drop"
       /\ bint_lock[d] = NONE
       /\ disk' = [disk EXCEPT ![v] = d]
       /\ unit' = [unit EXCEPT ![v] = NONE]
       /\ Goto(v, "relist")
       /\ bmap' \in {bmap \ {u}} \cup {bmap : w \in Failing \cap {"release"}}
       /\ unmap_list' \in {unmap_list} \cup {unmap_list \cup ({u} \cap bmap)}
       /\ UNCHANGED <<poolvars, free, bint_lock, page>>

(***************************************************************************)
(* bdev_release_block: the bit is cleared and its page written; if that    *)
(* fails the bit is set again, but the unit is counted free and unmapped   *)
(* all the same.  There is no UNMAP if the disk does not support it.  A    *)
(* bit that is not set is left alone.                                      *)
(***************************************************************************)
bint_release_block(v) ==
    LET u == unit[v]
        d == u[1]
    IN /\ pc[v] = "drop"
       /\ bint_lock[d] = NONE
       /\ disk' = [disk EXCEPT ![v] = d]
       /\ unit' = [unit EXCEPT ![v] = NONE]
       /\ Goto(v, "relist")
       /\ bmap' \in {bmap \ {u}} \cup {bmap : w \in Failing \cap {"release"}}
       /\ free' = IF u \in bmap THEN [free EXCEPT ![d] = @ + 1] ELSE free
       /\ unmap_list' \in {unmap_list} \cup {unmap_list \cup ({u} \cap bmap)}
       /\ UNCHANGED <<poolvars, bint_lock, page>>

(* alloc_list is kept in the order the counts had at insertion.            *)
Inserted(list, d, counts) ==
    LET less == {i \in DOMAIN list : counts[list[i]] < counts[d]}
        at   == IF less = {} THEN Len(list) + 1 ELSE CHOOSE i \in less : \A j \in less : i <= j
    IN InsertAt(list, at, d)

(* Faulty: a disk that is not on the list stays off it.                    *)
bdev_alloc_list_insert_Never(v) ==
    /\ pc[v] = "relist"
    /\ alloc_lock = NONE
    /\ bint_lock[disk[v]] = NONE
    /\ Return(v, "dropped", NONE)
    /\ UNCHANGED <<poolvars, diskvars, bint_lock>>

bdev_alloc_list_insert(v) ==
    /\ pc[v] = "relist"
    /\ alloc_lock = NONE
    /\ bint_lock[disk[v]] = NONE
    /\ alloc_list' = IF Contains(alloc_list, disk[v]) THEN alloc_list
                     ELSE Inserted(alloc_list, disk[v], free)
    /\ Return(v, "dropped", NONE)
    /\ UNCHANGED <<eligible, alloc_lock, diskvars, bint_lock>>

bio_unmap_end_bio(u) ==
    /\ u \in unmap_list
    /\ unmap_list' = unmap_list \ {u}
    /\ UNCHANGED <<poolvars, bmap, free, bint_lock, pc, disk, page, unit>>

BlockDeviceStep(v) ==
    \/ bint_get_eligible(v)
    \/ bdev_remove_from_alloc_list(v)
    \/ bint_get_block_lock(v)
    \/ bint_get_block(v)
    \/ bint_index_unmap_done(v)
    \/ bint_get_block_fails(v)
    \/ bint_release_block(v)
    \/ bdev_alloc_list_insert(v)

-----------------------------------------------------------------------------
(***************************************************************************)
(* Loading the disks: bint_load counts the clear bits, and bdev_add_new    *)
(* puts each disk on alloc_list.                                           *)
(***************************************************************************)
bint_load(on) == [d \in Disks |-> Cardinality({u \in Units \ on : u[1] = d})]

bdev_add_new(counts) ==
    LET list[d \in 0..Len(usize)] ==
            IF d = 0 THEN <<>> ELSE Inserted(list[d - 1], d, counts)
    IN list[Len(usize)]

Reload ==
    /\ free' = bint_load(bmap)
    /\ alloc_list' = bdev_add_new(bint_load(bmap))
    /\ eligible' = NONE
    /\ alloc_lock' = NONE
    /\ bint_lock' = [d \in Disks |-> NONE]
    /\ unmap_list' = {}
    /\ pc' = [v \in Parts |-> "idle"]
    /\ disk' = [v \in Parts |-> NONE]
    /\ page' = [v \in Parts |-> 0]
    /\ unit' = [v \in Parts |-> NONE]
    /\ UNCHANGED bmap

BlockDeviceInit ==
    /\ bmap = {}
    /\ free = bint_load({})
    /\ alloc_list = bdev_add_new(bint_load({}))
    /\ eligible = NONE
    /\ alloc_lock = NONE
    /\ bint_lock = [d \in Disks |-> NONE]
    /\ unmap_list = {}
    /\ pc = [v \in Parts |-> "idle"]
    /\ disk = [v \in Parts |-> NONE]
    /\ page = [v \in Parts |-> 0]
    /\ unit = [v \in Parts |-> NONE]
=============================================================================
