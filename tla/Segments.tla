------------------------------- MODULE Segments -------------------------------
(***************************************************************************)
(* The units a partition owns (core/tape_partition.c, core/tape.c), taken  *)
(* from and given back to the disks of BlockDevice, and the disk check     *)
(* that rebuilds the bitmaps from them (core/bcheck.c).                    *)
(*                                                                         *)
(* The metadata page of a cartridge names the unit that a partition begins *)
(* with (raw).  This unit holds the partition's segment maps: pages that   *)
(* list its metadata and its data units.  The first metadata segment is    *)
(* inside the first unit itself (SELF).  tmap is a segment map on disk,    *)
(* tmem the one in memory.  A page that cannot be written keeps its old    *)
(* contents.                                                               *)
(*                                                                         *)
(* Commands for one cartridge do not overlap; those for different ones do. *)
(***************************************************************************)
EXTENDS BlockDevice

CONSTANTS
    max_meta_tmaps, max_data_tmaps, \* pages of a segment map
    MAX_SEGMENTS,       \* segments a page lists
    AnyCheck,           \* a disk check may find a segment map with a gap
    SELF

ASSUME MapsAssumption == 
    {max_meta_tmaps, max_data_tmaps, MAX_SEGMENTS} \subseteq Nat \ {0}
ASSUME AnyCheckAssumption == AnyCheck \in BOOLEAN
ASSUME SelfAssumption == SELF # NONE /\ SELF \notin Units

VARIABLES
    raw,            \* first unit of a partition, on disk
    tmap, tmem,     \* units of each segment, on disk and in memory
    op, typ, at,    \* what a caller does: operation, type, segment
    done,           \* tmap_eod_segments has released a unit
    check           \* bitmap page the disk check is at

segvars == <<raw, tmap, tmem, op, typ, at, done, check>>
vars == <<bdevvars, segvars>>

Types == {"META", "DATA"}
tape_partition_get_max_tmaps(t) == IF t = "META" THEN max_meta_tmaps ELSE max_data_tmaps
Slots(t) == (0..(tape_partition_get_max_tmaps(t) - 1)) \X (0..(MAX_SEGMENTS - 1))
Segs == UNION {Parts \X {t} \X Slots(t) : t \in Types}
FirstSlot == <<0, 0>>

tmap_id_get_next_segment(s) ==
    IF s[2] + 1 < MAX_SEGMENTS THEN <<s[1], s[2] + 1>> ELSE <<s[1] + 1, 0>>

tmap_skip_segment(t, s) == t = "META" /\ s = FirstSlot

Before(r, s) == r[1] < s[1] \/ (r[1] = s[1] /\ r[2] < s[2])

Empty(map, v) == [k \in Segs |-> IF k[1] = v THEN NONE ELSE map[k]]

devvars == <<poolvars, diskvars, bint_lock>>

Continue(v, l) == Goto(v, l) /\ UNCHANGED <<devvars, disk, page, unit>>

Begin(v, o, t, s) ==
    /\ op' = [op EXCEPT ![v] = o]
    /\ typ' = [typ EXCEPT ![v] = t]
    /\ at' = [at EXCEPT ![v] = s]
    /\ done' = [done EXCEPT ![v] = FALSE]

(* The end of an operation; its local variables are gone.                  *)
End(v) ==
    /\ Begin(v, NONE, "META", FirstSlot)
    /\ Return(v, "idle", NONE)
    /\ UNCHANGED devvars

(* A unit to be released.                                                  *)
Drop(v, u) ==
    /\ unit' = [unit EXCEPT ![v] = u]
    /\ Goto(v, "drop")
    /\ UNCHANGED <<devvars, disk, page>>

Idle(v) == pc[v] = "idle" /\ check = NONE

-----------------------------------------------------------------------------
(***************************************************************************)
(* A new partition: a unit is taken, its segment maps and attributes are   *)
(* cleared, and then the metadata page names it.  If the page cannot be    *)
(* written it is written once more without the partition, before the unit  *)
(* is released; if that fails too, nobody owns the unit.                   *)
(***************************************************************************)
tape_partition_new(v) ==
    /\ Idle(v)
    /\ raw[v] = NONE
    /\ Begin(v, "new", "META", FirstSlot)
    /\ Continue(v, "get")
    /\ UNCHANGED <<raw, tmap, tmem, check>>

tape_add_partition(v) ==
    /\ pc[v] = "got" /\ op[v] = "new"
    /\ \/ /\ raw' = [raw EXCEPT ![v] = unit[v]]
          /\ tmap' = Empty(tmap, v)
          /\ tmem' = Empty(tmem, v)
          /\ End(v)
       \/ /\ Failing \cap {"zero", "metadata"} # {}
          /\ Continue(v, "drop")
          /\ UNCHANGED <<raw, tmap, tmem, op, typ, at, done>>
       \/ /\ "metadata" \in Failing
          /\ End(v)
          /\ UNCHANGED <<raw, tmap, tmem>>
    /\ UNCHANGED check

-----------------------------------------------------------------------------
(***************************************************************************)
(* The segment after the current one: a unit the segment map lists there   *)
(* is used again, else a unit is taken and then listed.  The current       *)
(* segment is the one of the tape's position, which may be anywhere when a *)
(* command begins; there is none if the tape has no map yet                *)
(* (tape_partition_lookup_segments).                                       *)
(***************************************************************************)
Current(v, t) == {NONE} \cup {s \in Slots(t) : tmem[<<v, t, s>>] # NONE}

List(v, t, s, u) ==
    /\ tmap' = [tmap EXCEPT ![<<v, t, s>>] = u]
    /\ tmem' = [tmem EXCEPT ![<<v, t, s>>] = u]

tape_partition_alloc_segment(v, t) ==
    /\ Idle(v)
    /\ raw[v] # NONE
    /\ \E c \in Current(v, t) :
           LET s == IF c = NONE THEN FirstSlot ELSE tmap_id_get_next_segment(c)
           IN /\ s \in Slots(t)
              /\ tmem[<<v, t, s>>] = NONE
              /\ \/ /\ tmap_skip_segment(t, s)
                    /\ List(v, t, s, SELF)
                    /\ UNCHANGED <<bdevvars, op, typ, at, done>>
                 \/ /\ ~tmap_skip_segment(t, s)
                    /\ Begin(v, "alloc", t, s)
                    /\ Continue(v, "get")
                    /\ UNCHANGED <<tmap, tmem>>
    /\ UNCHANGED <<raw, check>>

(* Faulty: a unit that could not be listed on disk stays listed in memory. *)
tmap_write_KeepsEntry(v) ==
    /\ pc[v] = "got" /\ op[v] = "alloc"
    /\ \/ /\ List(v, typ[v], at[v], unit[v])
          /\ End(v)
       \/ /\ "tmap" \in Failing
          /\ tmem' = [tmem EXCEPT ![<<v, typ[v], at[v]>>] = unit[v]]
          /\ Continue(v, "drop")
          /\ UNCHANGED <<tmap, op, typ, at, done>>
    /\ UNCHANGED <<raw, check>>

tmap_write(v) ==
    /\ pc[v] = "got" /\ op[v] = "alloc"
    /\ \/ /\ List(v, typ[v], at[v], unit[v])
          /\ End(v)
       \/ /\ "tmap" \in Failing
          /\ Continue(v, "drop")
          /\ UNCHANGED <<tmap, tmem, op, typ, at, done>>
    /\ UNCHANGED <<raw, check>>

NoUnit(v) ==
    /\ pc[v] = "none"
    /\ End(v)
    /\ UNCHANGED <<raw, tmap, tmem, check>>

-----------------------------------------------------------------------------
(***************************************************************************)
(* Releasing segments: tape_partition_write_eod those after the current    *)
(* ones ("tail"); tape_format_default, tape_delete_partition and tape_free *)
(* all ("all").  eod_segments goes from page to page of the segment map    *)
(* until a page has nothing to release; tmap_eod_segments writes the page  *)
(* without the units and then releases them one by one.                    *)
(***************************************************************************)
eod_segments(v, o, t, s) ==
    /\ Begin(v, o, t, s)
    /\ Continue(v, "cut")

AfterCurrent(v, t) ==
    {tmap_id_get_next_segment(IF c = NONE THEN FirstSlot ELSE c) : c \in Current(v, t)}

tape_partition_write_eod(v) ==
    /\ Idle(v)
    /\ raw[v] # NONE
    /\ \E s \in AfterCurrent(v, "DATA") : eod_segments(v, "tail", "DATA", s)
    /\ UNCHANGED <<raw, tmap, tmem, check>>

tape_partition_free_alloc(v) ==
    /\ Idle(v)
    /\ raw[v] # NONE
    /\ eod_segments(v, "all", "META", FirstSlot)
    /\ UNCHANGED <<raw, tmap, tmem, check>>

(* The segments of a page from s on, up to the first that is not listed.   *)
SegmentsFrom(v, t, s) ==
    {r \in Slots(t) : /\ r[1] = s[1] /\ r[2] >= s[2]
                      /\ ~tmap_skip_segment(t, r)
                      /\ \A q \in Slots(t) : (q[1] = s[1] /\ s[2] <= q[2] /\ q[2] <= r[2])
                                                => tmem[<<v, t, q>>] # NONE}

(* What follows the last page of one type.  With all segments released,    *)
(* tape_format_default is done, and the others free the first unit.  If    *)
(* the data pages fail, only tape_free goes on to that.                    *)
eod_segments_end(v) ==
    \/ /\ op[v] = "tail" /\ typ[v] = "DATA"
       /\ \E s \in AfterCurrent(v, "META") : eod_segments(v, "tail", "META", s)
    \/ /\ op[v] = "tail" /\ typ[v] = "META"
       /\ End(v)
    \/ /\ op[v] = "all" /\ typ[v] = "META"
       /\ eod_segments(v, "all", "DATA", FirstSlot)
    \/ /\ op[v] = "all" /\ typ[v] = "DATA"
       /\ \/ End(v)
          \/ Begin(v, "all", "DATA", FirstSlot) /\ Continue(v, "unhead")

(* Faulty: the units are released before the page is written without them. *)
tmap_eod_segments_Later(v) ==
    /\ pc[v] = "cut"
    /\ \/ /\ at[v] \in Slots(typ[v])
          /\ Continue(v, "release")
          /\ UNCHANGED <<op, typ, at, done>>
       \/ /\ at[v] \in Slots(typ[v]) => "tmap" \in Failing
          /\ eod_segments_end(v)
    /\ UNCHANGED <<raw, tmap, tmem, check>>

tmap_eod_segments(v) ==
    /\ pc[v] = "cut"
    /\ \/ /\ at[v] \in Slots(typ[v])
          /\ tmap' = [k \in Segs |->
                         IF k[1] = v /\ k[2] = typ[v] /\ k[3] \in SegmentsFrom(v, typ[v], at[v])
                         THEN NONE ELSE tmap[k]]
          /\ Continue(v, "release")
          /\ UNCHANGED <<op, typ, at, done>>
       \/ /\ at[v] \in Slots(typ[v]) => "tmap" \in Failing
          /\ eod_segments_end(v)
          /\ UNCHANGED tmap
    /\ UNCHANGED <<raw, tmem, check>>

(* A released segment is cleared in memory.                                *)
ReleaseSegment(v) ==
    LET s == at[v]
        k == <<v, typ[v], s>>
        listed == s \in Slots(typ[v]) /\ tmem[k] # NONE
    IN /\ pc[v] = "release"
       /\ \/ /\ listed
             /\ at' = [at EXCEPT ![v] = <<s[1], s[2] + 1>>]
             /\ \/ /\ tmap_skip_segment(typ[v], s)
                   /\ UNCHANGED <<bdevvars, tmem, done>>
                \/ /\ ~tmap_skip_segment(typ[v], s)
                   /\ tmem' = [tmem EXCEPT ![k] = NONE]
                   /\ done' = [done EXCEPT ![v] = TRUE]
                   /\ Drop(v, tmem[k])
             /\ UNCHANGED <<op, typ>>
          \/ /\ ~listed /\ done[v]
             /\ eod_segments(v, op[v], typ[v], <<s[1] + 1, 0>>)
             /\ UNCHANGED tmem
          \/ /\ ~listed /\ ~done[v]
             /\ eod_segments_end(v)
             /\ UNCHANGED tmem
       /\ UNCHANGED <<raw, tmap, check>>

Released(v) ==
    /\ pc[v] = "dropped"
    /\ \/ /\ op[v] \in {"new", "alloc", "gone"}
          /\ End(v)
       \/ /\ op[v] \in {"tail", "all"}
          /\ Continue(v, "release")
          /\ UNCHANGED <<op, typ, at, done>>
    /\ UNCHANGED <<raw, tmap, tmem, check>>

(***************************************************************************)
(* The metadata page is written without the partition, and then the first  *)
(* unit is released.  If the write fails, tape_delete_partition leaves the *)
(* partition as it is.  tape_free goes on to clear the whole page; if that *)
(* fails too, the partition is gone from memory and still on disk.         *)
(***************************************************************************)
Forget(v) ==
    /\ raw' = [raw EXCEPT ![v] = NONE]
    /\ tmap' = Empty(tmap, v)
    /\ tmem' = Empty(tmem, v)

tape_partition_free_tmaps_block(v) ==
    /\ pc[v] = "unhead"
    /\ \/ /\ Forget(v)
          /\ Begin(v, "gone", "META", FirstSlot)
          /\ Drop(v, raw[v])
       \/ /\ "metadata" \in Failing
          /\ Forget(v)
          /\ End(v)
       \/ /\ "metadata" \in Failing
          /\ \E l \in {"idle", "dead"} : Begin(v, NONE, "META", FirstSlot) /\ Continue(v, l)
          /\ UNCHANGED <<raw, tmap, tmem>>
    /\ UNCHANGED check

-----------------------------------------------------------------------------
(* Every listed segment comes after listed ones only.                      *)
NoGaps ==
    \A v \in Parts, t \in Types : \A r, s \in Slots(t) :
        Before(r, s) /\ tmap[<<v, t, s>>] # NONE => tmap[<<v, t, r>>] # NONE

(***************************************************************************)
(* The machine stops and starts again: memory is as on disk.  The server   *)
(* asks for a disk check, before any device is used, if it was told to.    *)
(***************************************************************************)
Restart(checked) ==
    /\ checked => AnyCheck \/ NoGaps
    /\ Reload
    /\ tmem' = tmap
    /\ op' = [v \in Parts |-> NONE]
    /\ typ' = [v \in Parts |-> "META"]
    /\ at' = [v \in Parts |-> FirstSlot]
    /\ done' = [v \in Parts |-> FALSE]
    /\ check' = IF checked /\ Disks # {} THEN <<1, 0>> ELSE NONE
    /\ UNCHANGED <<raw, tmap>>

(* Faulty: the first units of the partitions are not counted.              *)
tape_check_block_NoFirst ==
    {tmap[k] : k \in {l \in Segs : \A s \in Slots(l[2]) :
        s = l[3] \/ Before(s, l[3]) => tmap[<<l[1], l[2], s>>] # NONE}} \ {NONE, SELF}

(***************************************************************************)
(* The disk check sets the bits of the units it finds and clears all       *)
(* others, page by page.  In a segment map it stops at the first segment   *)
(* that is not listed.                                                     *)
(***************************************************************************)
tape_check_block ==
    LET found == {k \in Segs : \A s \in Slots(k[2]) :
                     s = k[3] \/ Before(s, k[3]) => tmap[<<k[1], k[2], s>>] # NONE}
    IN ({tmap[k] : k \in found} \cup {raw[v] : v \in Parts}) \ {NONE, SELF}

NextCheck(d, p) ==
    IF p + 1 < bint_nindexes(d) THEN <<d, p + 1>>
    ELSE IF d + 1 \in Disks THEN <<d + 1, 0>> ELSE NONE

bint_index_check ==
    /\ check # NONE
    /\ LET d == check[1]
           p == check[2]
           found == tape_check_block \cap Index(d, p)
       IN /\ bmap' = (bmap \ Index(d, p)) \cup found
          /\ free' = [free EXCEPT ![d] = @ + Cardinality(bmap \cap Index(d, p))
                                           - Cardinality(found)]
          /\ check' = NextCheck(d, p)
    /\ UNCHANGED <<poolvars, unmap_list, bint_lock, pc, disk, page, unit,
                   raw, tmap, tmem, op, typ, at, done>>

-----------------------------------------------------------------------------
Init ==
    /\ BlockDeviceInit
    /\ raw = [v \in Parts |-> NONE]
    /\ tmap = [k \in Segs |-> NONE]
    /\ tmem = tmap
    /\ op = [v \in Parts |-> NONE]
    /\ typ = [v \in Parts |-> "META"]
    /\ at = [v \in Parts |-> FirstSlot]
    /\ done = [v \in Parts |-> FALSE]
    /\ check = NONE

(* What a caller does once it has begun.                                   *)
Step(v) ==
    \/ BlockDeviceStep(v) /\ UNCHANGED segvars
    \/ tape_add_partition(v)
    \/ tmap_write(v)
    \/ NoUnit(v)
    \/ tmap_eod_segments(v)
    \/ ReleaseSegment(v)
    \/ Released(v)
    \/ tape_partition_free_tmaps_block(v)

Start(v) ==
    \/ tape_partition_new(v)
    \/ \E t \in Types : tape_partition_alloc_segment(v, t)
    \/ tape_partition_write_eod(v)
    \/ tape_partition_free_alloc(v)

UnmapEnds == \E u \in unmap_list : bio_unmap_end_bio(u) /\ UNCHANGED segvars

Next ==
    \/ \E v \in Parts : Step(v) \/ Start(v)
    \/ UnmapEnds
    \/ \E checked \in BOOLEAN : Restart(checked)
    \/ bint_index_check

Spec == Init /\ [][Next]_vars

(***************************************************************************)
(* A caller runs on, and a lock is given to each of those who wait for it  *)
(* in turn; a disk completes its UNMAPs.                                   *)
(***************************************************************************)
Fairness ==
    /\ \A v \in Parts : SF_vars(Step(v))
    /\ \A u \in Units : WF_vars(bio_unmap_end_bio(u) /\ UNCHANGED segvars)

LiveSpec == Spec /\ Fairness

-----------------------------------------------------------------------------
(***************************************************************************)
(* What refers to a unit: a partition that begins with it, a segment that  *)
(* lists it, on disk or in memory, or a caller that has taken it or is     *)
(* about to release it.                                                    *)
(***************************************************************************)
Refs(u) ==
    {<<"first", v>> : v \in {w \in Parts : raw[w] = u}}
    \cup {<<"segment", k>> : k \in {l \in Segs : tmap[l] = u \/ tmem[l] = u}}
    \cup {<<"caller", v>> : v \in {w \in Parts : unit[w] = u}}
InUse == {u \in Units : Refs(u) # {}}

(* Each variable has the values the code gives it.                         *)
TypeOK ==
    /\ bmap \subseteq Units
    /\ free \in [Disks -> Int]
    /\ unmap_list \subseteq Units
    /\ alloc_lock \in Parts \cup {NONE}
    /\ bint_lock \in [Disks -> Parts \cup {NONE}]
    /\ pc \in [Parts -> {"idle", "get", "eligible", "unlist", "lock", "scan", "wait", "got",
                         "none", "drop", "relist", "dropped", "cut", "release", "unhead",
                         "dead"}]
    /\ disk \in [Parts -> Disks \cup {NONE}]
    /\ unit \in [Parts -> Units \cup {NONE}]
    /\ raw \in [Parts -> Units \cup {NONE}]
    /\ tmap \in [Segs -> Units \cup {NONE, SELF}]
    /\ tmem \in [Segs -> Units \cup {NONE, SELF}]

(***************************************************************************)
(* No two things refer to the same unit, at every point at which the       *)
(* machine may stop and whichever writes fail ("Multiple refs" in          *)
(* check_block of core/bcheck.c).                                          *)
(***************************************************************************)
OneOwner == \A u \in Units : \A a, b \in Refs(u) : a = b

(* A unit that something refers to is marked in the bitmap, so that        *)
(* bint_get_block cannot hand it out again.                                *)
InUseIsMarked == InUse \subseteq bmap

(* An UNMAP that is still on its way never hits a unit in use              *)
(* (bint_index_unmap_done waits for it in bint_get_block).                 *)
UnmapSparesUnits == unmap_list \cap InUse = {}

(***************************************************************************)
(* The free units of a disk are never more than its count, so a unit found *)
(* can be counted down (debug_check in bint_get_block); only a page that   *)
(* bint_release_block could not write makes the count too high.            *)
(***************************************************************************)
FreeCovers ==
    \A d \in Disks : /\ free[d] >= Cardinality(ClearUnits(d))
                     /\ "release" \notin Failing => free[d] = Cardinality(ClearUnits(d))

(***************************************************************************)
(* A disk with a free unit is on alloc_list, or the caller that released a *)
(* unit of it is about to put it there: bint_get_eligible, which reads the *)
(* count without the disk's lock, takes no disk with room off for good.    *)
(***************************************************************************)
RoomIsListed ==
    \A d \in Disks : ClearUnits(d) # {} =>
        \/ Contains(alloc_list, d)
        \/ \E v \in Parts : pc[v] = "relist" /\ disk[v] = d

(***************************************************************************)
(* After a disk check exactly the units with an owner are marked: whatever *)
(* earlier crashes and failed writes left without one is free again, and   *)
(* nothing else (bint_index_check).                                        *)
(***************************************************************************)
CheckReclaims ==
    [][bint_index_check /\ check' = NONE => bmap' = InUse]_vars

(* The units of a partition: its first one, those of its segments and the  *)
(* one that its caller has.                                                *)
UnitsOf(v) ==
    {u \in Units : \/ raw[v] = u \/ unit[v] = u
                   \/ \E k \in Segs : k[1] = v /\ tmem[k] = u}

(* The pool of units that the disks, partitions and callers make up.       *)
Abstract == INSTANCE UnitPool WITH
    owns <- [v \in Parts |-> UnitsOf(v)], available <- Units \ bmap,
    unmapping <- unmap_list, Unreleased <- "release" \in Failing

(***************************************************************************)
(* No unit passes from one partition to another but through                *)
(* bint_release_block and bint_get_block, no caller touches the units of   *)
(* another partition, a crash gives nobody a unit, and the disk check      *)
(* frees only those that nobody owns (UnitPool).                           *)
(***************************************************************************)
ImplementsPool == Abstract!Spec

(* Every operation that has begun ends (or, in tape_free, gives up), also  *)
(* the one that waits for an UNMAP with the disk's lock held               *)
(* (bint_index_unmap_done).                                                *)
CallsReturn == \A v \in Parts : pc[v] # "idle" ~> pc[v] \in {"idle", "dead"}
=============================================================================
