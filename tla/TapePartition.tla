---------------------------- MODULE TapePartition ----------------------------
(***************************************************************************)
(* One partition of a virtual tape: how blocks and marks are kept on disk  *)
(* and in memory, and what every positioning and data command does to both *)
(* (core/tape_partition.c, core/blk_map.c, core/map_lookup.c).             *)
(*                                                                         *)
(* On disk a partition is a chain of map lookups.  A lookup lists block    *)
(* maps, and a map lists entries: data blocks, filemarks and setmarks.     *)
(* Memory holds some of the lookups and maps; written ones stay there      *)
(* until they are flushed.  The position is the current map and an entry   *)
(* in it.                                                                  *)
(*                                                                         *)
(* Meta pages are numbered in the order the META segments hand them out,   *)
(* data blocks likewise: segments themselves are left out.  Disk writes    *)
(* succeed; a partition that runs out of pages or blocks does not.         *)
(***************************************************************************)
EXTENDS Integers, FiniteSets, SequencesExt, FiniteSetsExt, Functions

CONSTANTS
    BLK_MAX_ENTRIES,       \* entries of one block map
    MAX_MARKS_PER_MAP,     \* filemarks, and setmarks, of one block map
    NR_MAP_DATA_ENTRIES,   \* a lookup holds one map less than this
    MIN_MAP_READ_AHEAD,    \* maps loaded ahead
    MetaPages, DataBlocks, \* what the segments of the partition can hold
    Worms,                 \* cartridges in use: write-once ones, others
    Values,                \* block sizes in use
    Kinds,                 \* marks in use, of "F" and "S"
    Counts,                \* counts of READ, WRITE FILEMARKS and SPACE in use
    MaxBlocks              \* bound: logical blocks written

ASSUME SizesAssumption ==
    /\ {BLK_MAX_ENTRIES, MAX_MARKS_PER_MAP, MIN_MAP_READ_AHEAD, MetaPages,
        DataBlocks} \subseteq Nat \ {0}
    /\ NR_MAP_DATA_ENTRIES \in Nat \ {0, 1}
    /\ Worms \subseteq BOOLEAN

VARIABLES
    worm,   \* the cartridge is write-once
    part,   \* the partition, in memory and on disk
    res     \* the command executed last and its outcome

vars == <<worm, part, res>>

(***************************************************************************)
(* An entry is [k, v, b]: its kind "D", "F" or "S", its block size, which  *)
(* also stands for the contents, and its data block.  A map in memory is   *)
(*   [page, lk, eid, lid, ents, c, f, new, io]                             *)
(* with its page, its lookup's page and its place in it, the logical id of *)
(* its first entry, the entries, the current entry (0: none), the marks it *)
(* counts, META_DATA_NEW and META_IO_PENDING.  A lookup in memory is       *)
(*   [ents, nrs, pend, next, prev, lid, f0, fs, new, io].                  *)
(* The partition is                                                        *)
(*   [maps, cur, lks, dirR, dirW, find, m, d, disk, trail]                 *)
(* map_list and the index of cur_map in it, the lookups by page, the flags *)
(* DIR_READ, DIR_WRITE and LOOKUP_SEGMENTS, the next free meta page and    *)
(* data block, the disk, and the disk states a command passed through.     *)
(***************************************************************************)
Marks == {"F", "S"}
NoMarks == [k \in Marks |-> 0]
MarksIn(ents) == [k \in Marks |-> Cardinality({i \in DOMAIN ents : ents[i].k = k})]
AddMarks(f, g) == [k \in Marks |-> f[k] + g[k]]

(* The sequence s: TLC keeps what SubSeq gives as a tuple, which it can    *)
(* both update and append to.                                              *)
Tuple(s) == SubSeq(s, 1, Len(s))

NULL == 0
DANGLING == -1      \* cur_map points to a map that was freed

Cur(p) == p.maps[p.cur]
FirstEntry(ents) == IF ents = <<>> THEN NULL ELSE 1
BlankDisk == [map |-> <<>>, lk |-> <<>>]

(* What a function returns is [p, st]: the partition and a status.  Only   *)
(* after GOOD does a command go on.                                        *)
Good(p) == [p |-> p, st |-> "GOOD"]
IfGood(x, F(_)) == IF x.st = "GOOD" THEN F(x.p) ELSE x

(* map_lookup_resync_ids: the marks of the maps a lookup lists.            *)
map_lookup_resync_ids(l) ==
    FoldLeft(LAMBDA f, i : AddMarks(f, l.ents[i - 1].f), NoMarks,
             [i \in 1..l.nrs |-> i])

(* map_lookup_load and blk_map_load: a page read from disk.                *)
map_lookup_load(disk, page) ==
    LET raw == disk.lk[page] IN
    [ents |-> raw.ents, nrs |-> raw.nrs, pend |-> 0, next |-> raw.next,
     prev |-> raw.prev, lid |-> raw.lid, f0 |-> raw.f0,
     fs |-> map_lookup_resync_ids(raw), new |-> FALSE, io |-> FALSE]

blk_map_load(p, lk, eid, poslast) ==
    LET e    == p.lks[lk].ents[eid]
        ents == p.disk.map[e.page]
    IN [page |-> e.page, lk |-> lk, eid |-> eid, lid |-> e.lid, ents |-> ents,
        c |-> IF poslast THEN NULL ELSE FirstEntry(ents), f |-> e.f,
        new |-> FALSE, io |-> FALSE]

(***************************************************************************)
(* tape_partition_load: the state after a restart.  A first page of zeroes *)
(* is an empty partition.                                                  *)
(***************************************************************************)
tape_partition_load(disk) ==
    LET empty  == [maps |-> <<>>, cur |-> NULL, lks |-> <<>>, dirR |-> FALSE,
                   dirW |-> FALSE, find |-> TRUE, m |-> 1, d |-> 1,
                   disk |-> disk, trail |-> {}]
        loaded == [empty EXCEPT !.lks = 1 :> map_lookup_load(disk, 1)]
    IN IF 1 \notin DOMAIN disk.lk THEN empty
       ELSE [loaded EXCEPT !.maps = <<blk_map_load(loaded, 1, 0, FALSE)>>, !.cur = 1]

Init ==
    /\ worm \in Worms
    /\ part = tape_partition_load(BlankDisk)
    /\ res = [cmd |-> "LOAD", arg |-> <<>>, st |-> "GOOD", out |-> <<>>]

-----------------------------------------------------------------------------
(* Writing a page, and remembering the disk as it then is.                 *)
WriteDisk(p, disk) == [p EXCEPT !.disk = disk, !.trail = @ \cup {disk}]

blk_map_flush_meta(p, i) ==
    LET m == p.maps[i] IN
    IF m.io
    THEN WriteDisk([p EXCEPT !.maps[i].io = FALSE],
                   [p.disk EXCEPT !.map = (m.page :> m.ents) @@ @])
    ELSE p

map_lookup_flush_meta(p, page) ==
    LET l   == p.lks[page]
        raw == [ents |-> l.ents, nrs |-> l.nrs, next |-> l.next, prev |-> l.prev,
                lid |-> l.lid, f0 |-> l.f0]
    IN IF l.io
       THEN WriteDisk([p EXCEPT !.lks[page].io = FALSE],
                      [p.disk EXCEPT !.lk = (page :> raw) @@ @])
       ELSE p

(* Faulty: the lookups after this one are forgotten.                       *)
HasNext_ThisLookup(p, m) ==
    LET l == p.lks[m.lk] IN l.nrs # 0 /\ m.eid # l.nrs - 1

(* map_lookup_map_has_next                                                 *)
HasNext(p, m) ==
    LET l == p.lks[m.lk] IN
    \/ l.next # 0
    \/ l.nrs # 0 /\ m.eid # l.nrs - 1

(* Faulty: the references of maps to the lookup are not counted.           *)
Unused_NoReferences(p, S) == {page \in S : p.lks[page].lid # 0}

(* map_lookup_remove leaves the first lookup and the ones maps refer to.   *)
Unused(p, S) ==
    {page \in S : p.lks[page].lid # 0 /\ \A i \in DOMAIN p.maps : p.maps[i].lk # page}

DropLookups(p, S) == [p EXCEPT !.lks = Restrict(@, DOMAIN @ \ S)]

(* Maps before the current one are freed, and the lookups between the      *)
(* first and the current one.                                              *)
blk_map_free_till_cur(p) ==
    LET q == [p EXCEPT !.maps = SubSeq(@, p.cur, Len(@)), !.cur = 1]
        S == {page \in DOMAIN q.lks : page < Cur(q).lk /\ page # Min(DOMAIN q.lks)}
    IN IF p.cur = NULL THEN p ELSE DropLookups(q, Unused(q, S))

(* Faulty: PARTITION_DIR_READ stays set.                                   *)
tape_partition_flush_reads_KeepsFlag(p) ==
    LET q == blk_map_free_till_cur(p) IN
    IF p.cur = NULL THEN p
    ELSE [q EXCEPT !.maps = <<Head(@)>>,
                   !.lks = Restrict(@, {page \in DOMAIN @ : page <= Cur(q).lk})]

tape_partition_flush_reads(p) ==
    LET q == blk_map_free_till_cur(p) IN
    IF p.cur = NULL THEN p
    ELSE [q EXCEPT !.maps = <<Head(@)>>,
                   !.lks = Restrict(@, {page \in DOMAIN @ : page <= Cur(q).lk}),
                   !.dirR = FALSE]

(* map_lookup_entry_update: the map's line in its lookup.                  *)
map_lookup_entry_update(p, i) ==
    LET m == p.maps[i] IN
    [p EXCEPT !.lks[m.lk].ents = (m.eid :> [page |-> m.page, lid |-> m.lid, f |-> m.f]) @@ @,
              !.lks[m.lk].io = TRUE]

map_lookup_add_map(p, i) ==
    LET lk == p.maps[i].lk IN
    map_lookup_entry_update(
        [p EXCEPT !.maps[i].eid = p.lks[lk].nrs, !.maps[i].new = FALSE,
                  !.lks[lk].nrs = @ + 1, !.lks[lk].pend = @ - 1], i)

-----------------------------------------------------------------------------
(***************************************************************************)
(* __tape_partition_flush_writes over the maps in S, of which those in H   *)
(* are still being written when the loop passes them and keep their state. *)
(* A written map is listed in its lookup and leaves memory, unless it is   *)
(* the current one.  Then the lookups are written, the last one first; one *)
(* that is new is linked to the one before it after it was written.        *)
(***************************************************************************)
FlushMap(p, i, held) ==
    LET q == blk_map_flush_meta(p, i) IN
    IF q.maps[i].new /\ ~held THEN map_lookup_add_map(q, i) ELSE q

map_lookup_link(p, page) ==
    LET before == {x \in DOMAIN p.lks : x < page} IN
    IF before = {} THEN p
    ELSE [p EXCEPT !.lks[page].prev = Max(before),
                   !.lks[Max(before)].next = page, !.lks[Max(before)].io = TRUE]

FlushLookup(acc, page) ==
    LET p    == acc.p
        l    == p.lks[page]
        q    == map_lookup_flush_meta(p, page)
        r    == IF l.new THEN [map_lookup_link(q, page) EXCEPT !.lks[page].new = FALSE]
                ELSE q
        Drop(x) == DropLookups(x, Unused(x, {page}))
    IN CASE acc.stop -> acc
         [] ~acc.stop /\ ~l.io /\ l.new -> [acc EXCEPT !.stop = TRUE]
         [] ~acc.stop /\ ~l.io /\ ~l.new -> [acc EXCEPT !.p = Drop(p)]
         [] OTHER -> [acc EXCEPT !.p = IF l.new /\ l.nrs = 0 THEN Drop(q) ELSE Drop(r)]

__tape_partition_flush_writes(p, S, H) ==
    LET q    == FoldLeft(LAMBDA x, i : FlushMap(x, i, i \in H), p,
                         SetToSortSeq(S, <))
        keep == SetToSortSeq((DOMAIN p.maps \ S) \cup H \cup ({p.cur} \ {NULL}), <)
        r    == [q EXCEPT !.maps = Tuple([j \in DOMAIN keep |-> q.maps[keep[j]]]),
                          !.cur = IF @ = NULL THEN NULL
                                  ELSE CHOOSE j \in DOMAIN keep : keep[j] = p.cur]
    IN FoldLeft(FlushLookup, [p |-> r, stop |-> FALSE],
                SetToSortSeq(DOMAIN r.lks, >)).p

FlushAll(p) == __tape_partition_flush_writes(p, DOMAIN p.maps, {})

tape_partition_flush_writes(p) ==
    IF p.dirW THEN [FlushAll(p) EXCEPT !.dirW = FALSE] ELSE p

tape_partition_pre_read(p) ==
    IF p.dirR THEN p ELSE blk_map_free_till_cur(tape_partition_flush_writes(p))
tape_partition_pre_write(p) ==
    IF p.dirW THEN p ELSE tape_partition_flush_reads(p)
tape_partition_pre_space(p) ==
    [tape_partition_flush_writes(p) EXCEPT !.dirR = FALSE]

-----------------------------------------------------------------------------
(* blk_map_current_lid: the logical id of the position.                    *)
CurrentLid(p) ==
    LET m == Cur(p) IN
    IF p.cur = NULL THEN 0 ELSE m.lid + (IF m.c # NULL THEN m.c - 1 ELSE Len(m.ents))

(* Faulty: the block after the last entry is the last entry's own.         *)
BlockAfter_Same(e) == e.b

(* blk_entry_position_dsegment: the data block after the last entry.       *)
BlockAfter(e) == IF e.k = "D" THEN e.b + 1 ELSE e.b

(***************************************************************************)
(* tape_partition_lookup_segments: the meta page and the data block that   *)
(* follow the position become the next free ones.  A current map that is   *)
(* empty but not the first one is an error.                                *)
(***************************************************************************)
tape_partition_lookup_segments(p) ==
    LET m == Cur(p)
        q == [p EXCEPT !.m = m.page + 1]
        Found(d) == Good([q EXCEPT !.d = d, !.find = FALSE])
    IN CASE ~p.find -> Good(p)
         [] p.find /\ p.cur = NULL -> Good([p EXCEPT !.m = 1, !.d = 1, !.find = FALSE])
         [] p.find /\ p.cur # NULL /\ m.c # NULL -> Found(m.ents[m.c].b)
         [] p.find /\ p.cur # NULL /\ m.c = NULL /\ m.ents # <<>> ->
                Found(BlockAfter(Last(m.ents)))
         [] OTHER -> IF m.lid # 0 THEN [p |-> q, st |-> "MEDIA_ERROR"] ELSE Found(1)

(***************************************************************************)
(* blk_map_write_eod: the current position becomes the end of data.  The   *)
(* lookup is cut after the current map and the map before the current      *)
(* entry; the lookup's page is written, the map's page only if it had      *)
(* writes pending.                                                         *)
(***************************************************************************)
map_lookup_write_eod(p) ==
    LET m == Cur(p)
        q == [p EXCEPT !.maps = SubSeq(@, 1, p.cur),
                       !.lks[m.lk].fs = map_lookup_resync_ids(p.lks[m.lk]),
                       !.lks[m.lk].next = 0, !.lks[m.lk].nrs = m.eid + 1,
                       !.lks[m.lk].ents = Restrict(@, 0..m.eid),
                       !.lks[m.lk].pend = 0, !.lks[m.lk].io = TRUE]
        r == map_lookup_flush_meta(q, m.lk)
    IN [r EXCEPT !.lks = Restrict(@, {page \in DOMAIN @ : page <= m.lk})]

CutLookup(p) ==
    IF p.cur < Len(p.maps) \/ HasNext(p, Cur(p)) THEN map_lookup_write_eod(p) ELSE p

CutMap(p) ==
    LET m    == Cur(p)
        kept == SubSeq(m.ents, 1, m.c - 1)
        q    == map_lookup_entry_update(
                    [p EXCEPT !.maps[p.cur].ents = kept, !.maps[p.cur].c = NULL,
                              !.maps[p.cur].f = MarksIn(kept)], p.cur)
        r    == [q EXCEPT !.lks[m.lk].fs = map_lookup_resync_ids(q.lks[m.lk])]
    IN IF m.c = NULL THEN p
       ELSE blk_map_flush_meta(map_lookup_flush_meta(r, m.lk), p.cur)

blk_map_write_eod(p) ==
    tape_partition_lookup_segments(tape_partition_pre_space(CutMap(CutLookup(p))))

(* Faulty: a write-once cartridge is overwritten like any other.           *)
blk_map_overwrite_check_NoWorm(p) ==
    IF p.cur = NULL \/ p.dirW \/ (~HasNext(p, Cur(p)) /\ Cur(p).c = NULL)
    THEN Good(p)
    ELSE blk_map_write_eod(p)

(***************************************************************************)
(* blk_map_overwrite_check, before anything is written.  An empty map that *)
(* has a successor would be replaced by the map before it, which is not    *)
(* put on map_list: cur_map then is no map of the list.                    *)
(***************************************************************************)
blk_map_overwrite_check(p) ==
    LET m == Cur(p) IN
    CASE p.cur = NULL \/ p.dirW \/ (~HasNext(p, m) /\ m.c = NULL) ->
             Good(p)
      [] OTHER ->
             IF worm THEN [p |-> p, st |-> "WORM"]
             ELSE IF m.ents = <<>> /\ m.lid # 0
             THEN [p |-> [p EXCEPT !.cur = DANGLING], st |-> "MEDIA_ERROR"]
             ELSE blk_map_write_eod(p)

(* Both checks a write begins with.                                        *)
PrepareWrite(p) == IfGood(blk_map_overwrite_check(p), tape_partition_lookup_segments)

-----------------------------------------------------------------------------
(***************************************************************************)
(* tape_partition_add_map: a new map, in a new lookup if the current one   *)
(* is full (its last place is never used; FullLookup_OffByOne uses it).    *)
(***************************************************************************)
FullLookup_OffByOne(l) == l.nrs + l.pend = NR_MAP_DATA_ENTRIES
FullLookup(l) == l.nrs + l.pend + 1 = NR_MAP_DATA_ENTRIES

NewLookup(lid, f0) ==
    [ents |-> <<>>, nrs |-> 0, pend |-> 0, next |-> 0, prev |-> 0, lid |-> lid,
     f0 |-> f0, fs |-> NoMarks, new |-> TRUE, io |-> FALSE]

NewMap(page, lk, lid) ==
    [page |-> page, lk |-> lk, eid |-> 0, lid |-> lid, ents |-> <<>>, c |-> NULL,
     f |-> NoMarks, new |-> TRUE, io |-> FALSE]

tape_partition_add_map(acc, lid, f0) ==
    LET p     == acc.p
        old   == IF acc.i = NULL THEN NULL ELSE p.maps[acc.i].lk
        fresh == old = NULL \/ (old # NULL /\ FullLookup(p.lks[old]))
        lk    == IF fresh THEN p.m ELSE old
        page  == IF fresh THEN p.m + 1 ELSE p.m
        lks   == IF fresh THEN (lk :> NewLookup(lid, f0)) @@ p.lks ELSE p.lks
        q     == [p EXCEPT !.maps = Append(p.maps, NewMap(page, lk, lid)),
                           !.lks = [lks EXCEPT ![lk].pend = lks[lk].pend + 1],
                           !.m = page + 1]
    IN IF page > MetaPages THEN [acc EXCEPT !.ok = FALSE]
       ELSE [p |-> q, i |-> Len(p.maps) + 1, ok |-> TRUE]

(* tape_partition_check_data_segment, and the entry joins its map.         *)
AddEntry(acc, e) ==
    LET d == acc.p.d IN
    CASE ~acc.ok -> acc
      [] acc.ok /\ e.k = "D" /\ d > DataBlocks -> [acc EXCEPT !.ok = FALSE]
      [] OTHER ->
             [acc EXCEPT !.p.maps[acc.i].ents = Append(@, [k |-> e.k, v |-> e.v, b |-> d]),
                         !.p.maps[acc.i].io = TRUE,
                         !.p.d = IF e.k = "D" THEN d + 1 ELSE d]

(***************************************************************************)
(* blk_entries_write_insert: the entries es go to the current map and to   *)
(* new maps after it; fresh asks for a new map at once.  When space runs   *)
(* out the partition is put back, but for the pending count of a lookup    *)
(* that had one more map promised and cur_map if there was none before.    *)
(***************************************************************************)
InsertDone(p, x) ==
    IF x.ok THEN Good([x.p EXCEPT !.cur = x.i])
    ELSE [p |-> IF p.cur = NULL
                THEN [p EXCEPT !.cur = IF x.p.maps = <<>> THEN NULL ELSE DANGLING]
                ELSE [p EXCEPT !.lks[Cur(p).lk].pend = x.p.lks[Cur(p).lk].pend],
          st |-> "MEDIA_ERROR"]

blk_entries_write_insert(p, es, fresh) ==
    LET l  == p.lks[Cur(p).lk]
        f0 == IF p.cur = NULL THEN NoMarks ELSE AddMarks(l.f0, l.fs)
        Room(acc) == acc.i # NULL /\ ~fresh /\ Len(acc.p.maps[acc.i].ents) < BLK_MAX_ENTRIES
        Step(acc, j) ==
            IF ~acc.ok THEN acc
            ELSE AddEntry(IF Room(acc) THEN acc
                          ELSE tape_partition_add_map(acc, CurrentLid(p) + j - 1, f0), es[j])
    IN InsertDone(p, FoldLeft(Step, [p |-> p, i |-> p.cur, ok |-> TRUE],
                              [j \in DOMAIN es |-> j]))

(***************************************************************************)
(* blk_map_write_filemarks: one mark.  A map full of marks of this kind is *)
(* followed by a new one.  The count in the lookup's line is brought up to *)
(* date after the flush.                                                   *)
(***************************************************************************)
CountMark(p, k) ==
    map_lookup_entry_update(
        [p EXCEPT !.maps[p.cur].f[k] = @ + 1, !.lks[Cur(p).lk].fs[k] = @ + 1], p.cur)

InsertMark(p, k) ==
    blk_entries_write_insert(p, <<[k |-> k, v |-> 0]>>,
                             p.cur # NULL /\ Cur(p).f[k] = MAX_MARKS_PER_MAP)

blk_map_write_filemarks(p, k) ==
    IfGood(IfGood(PrepareWrite(p), LAMBDA q : InsertMark(q, k)),
           LAMBDA q : Good(CountMark(tape_partition_flush_writes(q), k)))

tape_partition_write_filemarks(p, k, n) ==
    IfGood(FoldLeft(LAMBDA x, j : IfGood(x, LAMBDA q : blk_map_write_filemarks(q, k)),
                    Good(tape_partition_pre_write(p)), [j \in 1..n |-> j]),
           LAMBDA q : Good(tape_partition_flush_writes([q EXCEPT !.dirW = TRUE])))

(***************************************************************************)
(* tape_partition_write.  With enough data cached the maps are flushed     *)
(* first (bg): all of them for an unbuffered WRITE, otherwise as many as   *)
(* have their data on disk.  An unbuffered WRITE returns when everything   *)
(* is on disk.                                                             *)
(***************************************************************************)
NoFlush == [run |-> FALSE, S |-> {}, H |-> {}]

FlushChoices(p, buffered) ==
    LET Run(S, H) == [run |-> TRUE, S |-> S, H |-> H]
        Begun(n)  == (1..n) \ {p.cur}
    IN CASE ~p.dirW -> {NoFlush}
         [] p.dirW /\ ~buffered -> {NoFlush, Run(DOMAIN p.maps, {})}
         [] OTHER -> {NoFlush} \cup
                     UNION {{Run(Begun(n), H) : H \in SUBSET Begun(n)} : n \in 0..Len(p.maps)}

FlushBefore(p, bg) == IF bg.run THEN __tape_partition_flush_writes(p, bg.S, bg.H) ELSE p
FlushAfter(p, buffered) == [(IF buffered THEN p ELSE FlushAll(p)) EXCEPT !.dirW = TRUE]

tape_partition_write(p, es, buffered, bg) ==
    IfGood(IfGood(PrepareWrite(FlushBefore(tape_partition_pre_write(p), bg)),
                  LAMBDA q : blk_entries_write_insert(q, es, FALSE)),
           LAMBDA q : Good(FlushAfter(q, buffered)))

-----------------------------------------------------------------------------
(* map_lookup_load_next, map_lookup_load_prev: a neighbour joins memory.   *)
LoadLookup(p, page) ==
    IF page \in DOMAIN p.lks THEN p
    ELSE [p EXCEPT !.lks = (page :> map_lookup_load(p.disk, page)) @@ @]

(***************************************************************************)
(* map_lookup_next_entry, map_lookup_prev_entry: the line after, or        *)
(* before, line eid of lookup lk, as [p, lk, eid]; eid -1 if there is none.*)
(***************************************************************************)
FirstLine(p, lk) == [p |-> p, lk |-> lk, eid |-> IF p.lks[lk].nrs = 0 THEN -1 ELSE 0]
LastLine(p, lk) == [p |-> p, lk |-> lk, eid |-> p.lks[lk].nrs - 1]

map_lookup_next_entry(p, lk, eid) ==
    LET l == p.lks[lk] IN
    IF eid < l.nrs - 1 THEN [p |-> p, lk |-> lk, eid |-> eid + 1]
    ELSE IF l.next = 0 THEN [p |-> p, lk |-> lk, eid |-> -1]
    ELSE FirstLine(LoadLookup(p, l.next), l.next)

map_lookup_prev_entry(p, lk, eid) ==
    LET l == p.lks[lk] IN
    IF eid > 0 THEN [p |-> p, lk |-> lk, eid |-> eid - 1]
    ELSE IF l.prev = 0 THEN [p |-> p, lk |-> lk, eid |-> -1]
    ELSE LastLine(LoadLookup(p, l.prev), l.prev)

(***************************************************************************)
(* blk_maps_readahead: up to MIN_MAP_READ_AHEAD maps after the last one in *)
(* memory.  Where the next map needs a lookup that is not in memory, only  *)
(* the lookup is loaded, unless it is the first map of the call.           *)
(***************************************************************************)
LoadNextMap(x) ==
    IF x.eid = -1 THEN [p |-> x.p, stop |-> TRUE]
    ELSE [p |-> [x.p EXCEPT !.maps = Append(@, blk_map_load(x.p, x.lk, x.eid, TRUE))],
          stop |-> FALSE]

ReadAheadStep(acc, j) ==
    LET p    == acc.p
        m    == Last(p.maps)
        l    == p.lks[m.lk]
        edge == m.eid = l.nrs - 1 /\ l.next \notin DOMAIN p.lks
    IN CASE acc.stop -> acc
         [] ~acc.stop /\ j > 1 /\ edge ->
                [p |-> IF l.next = 0 THEN p ELSE LoadLookup(p, l.next), stop |-> TRUE]
         [] OTHER ->
                IF ~HasNext(p, m) THEN [acc EXCEPT !.stop = TRUE]
                ELSE LoadNextMap(map_lookup_next_entry(p, m.lk, m.eid))

blk_maps_readahead(p) ==
    FoldLeft(ReadAheadStep, [p |-> p, stop |-> FALSE],
             [j \in 1..MIN_MAP_READ_AHEAD |-> j]).p

(* blk_map_set_next_map: map i's successor is in memory, at its beginning. *)
Begin(p, i) ==
    IF i \in DOMAIN p.maps THEN [p EXCEPT !.maps[i].c = FirstEntry(p.maps[i].ents)] ELSE p

blk_map_set_next_map(p, i) ==
    Begin(IF i < Len(p.maps) THEN p ELSE blk_maps_readahead(p), i + 1)

(* blk_entry_read_next: the entry after entry c of map i, as [p, i, c].    *)
FirstOf(p, i) ==
    IF i < Len(p.maps) THEN [p |-> p, i |-> i + 1, c |-> FirstEntry(p.maps[i + 1].ents)]
    ELSE [p |-> p, i |-> i, c |-> NULL]

blk_entry_read_next(p, i, c) ==
    IF c < Len(p.maps[i].ents) THEN [p |-> p, i |-> i, c |-> c + 1]
    ELSE FirstOf(IF i < Len(p.maps) \/ ~HasNext(p, p.maps[i]) THEN p
                 ELSE blk_map_set_next_map(p, i), i)

(***************************************************************************)
(* __blk_map_read: n blocks of size sz, until a mark, a block of another   *)
(* size or the end of the data.  The position is left after what ended the *)
(* read; maps passed on the way keep the current entry they had.           *)
(***************************************************************************)
ReadStatus(e, sz) ==
    CASE e.k = "F" -> "FILEMARK"
      [] e.k = "S" -> "SETMARK"
      [] e.k = "D" /\ e.v < sz -> "UNDERLENGTH"
      [] e.k = "D" /\ e.v > sz -> "OVERLENGTH"
      [] OTHER -> "GOOD"

Advance(acc, e, st, next) ==
    [p |-> next.p, i |-> next.i, c |-> next.c, st |-> st,
     out |-> IF st = "GOOD" THEN Append(acc.out, e.v) ELSE acc.out]

ReadBlock(acc, sz) ==
    LET e == acc.p.maps[acc.i].ents[acc.c] IN
    IF acc.st # "GOOD" \/ acc.c = NULL THEN acc
    ELSE Advance(acc, e, ReadStatus(e, sz), blk_entry_read_next(acc.p, acc.i, acc.c))

ReadDone(x, n) ==
    [p |-> [x.p EXCEPT !.maps[x.i].c = x.c, !.cur = x.i],
     st |-> IF x.st = "GOOD" /\ Len(x.out) < n THEN "EOD" ELSE x.st,
     out |-> x.out]

__blk_map_read(p, sz, n) ==
    ReadDone(FoldLeft(LAMBDA acc, j : ReadBlock(acc, sz),
                      [p |-> p, i |-> p.cur, c |-> Cur(p).c, st |-> "GOOD", out |-> <<>>],
                      [j \in 1..n |-> j]), n)

(* From the end of a map the read begins in the next one that has entries. *)
BeginRead(p) ==
    FoldLeft(LAMBDA q, j :
                 IF Cur(q).c # NULL \/ ~HasNext(q, Cur(q)) THEN q
                 ELSE [blk_map_set_next_map(q, q.cur) EXCEPT !.cur = @ + 1],
             p, [j \in 1..MetaPages |-> j])

(***************************************************************************)
(* tape_partition_read.  ahead: after blocks were read, and with room in   *)
(* the cache, blk_map_readahead goes on to the maps after the last one in  *)
(* memory if there are only data blocks up to there.                       *)
(***************************************************************************)
OnlyDataAhead(p) ==
    \A i \in p.cur..Len(p.maps) : \A j \in DOMAIN p.maps[i].ents :
        (i = p.cur => p.maps[i].c # NULL /\ j >= p.maps[i].c) => p.maps[i].ents[j].k = "D"

blk_map_readahead(x, ahead) ==
    LET p == IF ahead /\ x.out # <<>> /\ OnlyDataAhead(x.p) THEN blk_maps_readahead(x.p) ELSE x.p
    IN [x EXCEPT !.p = [p EXCEPT !.dirR = @ \/ x.st = "GOOD"]]

EndOfData(p) == [p |-> p, st |-> "EOD", out |-> <<>>]

blk_map_read(p, sz, n, ahead) ==
    IF Cur(p).c = NULL THEN EndOfData(p)
    ELSE blk_map_readahead(__blk_map_read(p, sz, n), ahead)

tape_partition_read(p, sz, n, ahead) ==
    LET Start(q) == IF q.cur = NULL THEN EndOfData(q)
                    ELSE blk_map_read(BeginRead(blk_map_free_till_cur(q)), sz, n, ahead)
    IN Start(tape_partition_pre_read(p))

-----------------------------------------------------------------------------
(* A map loaded from disk replaces the ones in memory.                     *)
SetOnlyMap(p, m) == [p EXCEPT !.maps = <<m>>, !.cur = 1]

(***************************************************************************)
(* map_lookup_locate, map_lookup_locate_file: the last lookup whose first  *)
(* id, or number of the first filemark, is not beyond a.                   *)
(***************************************************************************)
LocateLookup(p, a, byfile) ==
    LET Key(l) == IF byfile THEN l.f0["F"] ELSE l.lid
        Try(acc, q, next) == IF Key(q.lks[next]) > a
                             THEN [acc EXCEPT !.p = q, !.stop = TRUE]
                             ELSE [p |-> q, lk |-> next, stop |-> FALSE]
        Step(acc, j) == LET next == acc.p.lks[acc.lk].next IN
                        IF acc.stop \/ next = 0 THEN acc
                        ELSE Try(acc, LoadLookup(acc.p, next), next)
    IN FoldLeft(Step, [p |-> p, lk |-> Min(DOMAIN p.lks), stop |-> FALSE],
                [j \in 1..MetaPages |-> j])

(* Faulty: the line after the right one.                                   *)
map_lookup_locate_entry_Next(l, a) ==
    LET beyond == {i \in 0..(l.nrs - 1) : l.ents[i].lid > a} IN
    IF beyond = {} THEN l.nrs - 1 ELSE Min(beyond)

(* map_lookup_locate_entry; a first line beyond a selects the last line.   *)
map_lookup_locate_entry(l, a) ==
    LET beyond == {i \in 0..(l.nrs - 1) : l.ents[i].lid > a} IN
    IF beyond = {} \/ 0 \in beyond THEN l.nrs - 1 ELSE Min(beyond) - 1

FilemarksBefore(l, i) ==
    l.f0["F"] + FoldLeft(LAMBDA s, j : s + l.ents[j - 1].f["F"], 0, [j \in 1..i |-> j])

map_lookup_locate_file_entry(l, a) ==
    LET reach == {i \in 0..(l.nrs - 1) : FilemarksBefore(l, i + 1) > a} IN
    IF reach = {} THEN l.nrs - 1 ELSE Min(reach)

(* The current map is kept if the line's first id is the current map's.    *)
MoveToMap(p, lk, eid) ==
    IF p.lks[lk].ents[eid].lid = Cur(p).lid THEN p
    ELSE SetOnlyMap(p, blk_map_load(p, lk, eid, FALSE))

blk_map_locate(p, a) ==
    LET m == Cur(p)
        found == a >= m.lid /\ a < m.lid + Len(m.ents)
    IN [p |-> [p EXCEPT !.maps[p.cur].c = IF found THEN a - m.lid + 1 ELSE NULL],
        st |-> IF found \/ (m.ents # <<>> /\ a = m.lid + Len(m.ents))
               THEN "GOOD" ELSE "EOD"]

blk_map_locate_file(p, a) ==
    LET m  == Cur(p)
        f0 == FilemarksBefore(p.lks[m.lk], m.eid)
        S  == {i \in DOMAIN m.ents : /\ m.ents[i].k = "F"
                                     /\ f0 + MarksIn(SubSeq(m.ents, 1, i))["F"] = a + 1}
    IN [p |-> [p EXCEPT !.maps[p.cur].c = IF S = {} THEN NULL ELSE Min(S)],
        st |-> IF S = {} THEN "EOD" ELSE "GOOD"]

LocateIn(x, Line(_), InMap(_)) ==
    LET l == x.p.lks[x.lk] IN
    IF l.nrs = 0 THEN [p |-> x.p, st |-> "MEDIA_ERROR"]
    ELSE InMap(MoveToMap(x.p, x.lk, Line(l)))

tape_partition_locate_block(p, a) ==
    LocateIn(LocateLookup(p, a, FALSE),
             LAMBDA l : map_lookup_locate_entry(l, a), LAMBDA q : blk_map_locate(q, a))

tape_partition_locate_file(p, a) ==
    LocateIn(LocateLookup(p, a, TRUE),
             LAMBDA l : map_lookup_locate_file_entry(l, a), LAMBDA q : blk_map_locate_file(q, a))

(* tape_partition_space_eod, from the last lookup in memory.               *)
find_last(p) ==
    LET After(page) == IF page \in DOMAIN p.lks THEN p.lks[page].next ELSE p.disk.lk[page].next
    IN FoldLeft(LAMBDA page, j : IF After(page) = 0 THEN page ELSE After(page),
                Max(DOMAIN p.lks), [j \in 1..MetaPages |-> j])

PositionAfter(x) ==
    IF x.eid = -1 THEN [p |-> x.p, st |-> "MEDIA_ERROR"]
    ELSE Good(SetOnlyMap(x.p, blk_map_load(x.p, x.lk, x.eid, TRUE)))

tape_partition_space_eod(p) ==
    LET last == find_last(p) IN PositionAfter(LastLine(LoadLookup(p, last), last))

tape_partition_locate(p, type, a) ==
    LET Start(q) ==
            IF DOMAIN q.lks = {} THEN [p |-> q, st |-> IF a = 0 THEN "GOOD" ELSE "EOD"]
            ELSE CASE type = "BLOCK" -> tape_partition_locate_block(q, a)
                   [] type = "FILE"  -> tape_partition_locate_file(q, a)
                   [] type = "EOD"   -> tape_partition_space_eod(q)
    IN Start(tape_partition_pre_space(p))

-----------------------------------------------------------------------------
(* iter_space_count, iter_space_valid: what a SPACE counts, and what stops *)
(* it.                                                                     *)
Counted(code) == CASE code = "BLOCKS" -> "D" [] code = "FILEMARKS" -> "F" [] code = "SETMARKS" -> "S"
StopsAt(code, k) ==
    CASE code = "BLOCKS" /\ k = "F" -> "FILEMARK"
      [] code \in {"BLOCKS", "FILEMARKS"} /\ k = "S" -> "SETMARK"
      [] OTHER -> "GOOD"

(***************************************************************************)
(* blk_map_space_forward, blk_map_space_backward: within one map, up to    *)
(* todo counted entries; acc is [c, todo, st, stop].                       *)
(***************************************************************************)
SpaceEntry(acc, m, code, i, c) ==
    LET e    == m.ents[i]
        todo == IF e.k = Counted(code) THEN acc.todo - 1 ELSE acc.todo
        st   == StopsAt(code, e.k)
    IN IF acc.stop THEN acc
       ELSE [c |-> c, todo |-> todo, st |-> st, stop |-> st # "GOOD" \/ todo = 0]

blk_map_space_forward(m, code, n) ==
    LET from == IF m.c = NULL THEN Len(m.ents) ELSE m.c - 1 IN
    FoldLeft(LAMBDA acc, j :
                 SpaceEntry(acc, m, code, from + j,
                            IF from + j = Len(m.ents) THEN NULL ELSE from + j + 1),
             [c |-> m.c, todo |-> n, st |-> "GOOD", stop |-> FALSE],
             [j \in 1..(Len(m.ents) - from) |-> j])

blk_map_space_backward(m, code, n) ==
    LET from == IF m.c = NULL THEN Len(m.ents) ELSE m.c - 1 IN
    FoldLeft(LAMBDA acc, j : SpaceEntry(acc, m, code, from + 1 - j, from + 1 - j),
             [c |-> m.c, todo |-> n, st |-> "GOOD", stop |-> FALSE],
             [j \in 1..from |-> j])

(***************************************************************************)
(* map_lookup_space_forward, map_lookup_space_backward: whole maps are     *)
(* skipped by their lines alone, while the map at hand holds fewer counted *)
(* entries than are left and no mark that stops the command.  Going back,  *)
(* the blocks counted are those of the map before it.                      *)
(***************************************************************************)
Neighbour(p, lk, eid, back) ==
    IF back THEN map_lookup_prev_entry(p, lk, eid) ELSE map_lookup_next_entry(p, lk, eid)

SkipMap(acc, code, back) ==
    LET e == acc.p.lks[acc.lk].ents[acc.eid]
        mark == \/ code = "BLOCKS" /\ e.f # NoMarks
                \/ code = "FILEMARKS" /\ e.f["S"] # 0
        Lids(ne) == IF ne.lid > e.lid THEN ne.lid - e.lid ELSE e.lid - ne.lid
        InLine(ne) == CASE code = "BLOCKS" -> Lids(ne)
                        [] code = "FILEMARKS" -> e.f["F"]
                        [] code = "SETMARKS" -> e.f["S"]
        Skip(nx, n) == IF n >= acc.todo THEN [acc EXCEPT !.p = nx.p, !.stop = TRUE]
                       ELSE [p |-> nx.p, lk |-> nx.lk, eid |-> nx.eid,
                             todo |-> acc.todo - n, stop |-> FALSE]
        To(nx) == IF nx.eid = -1 \/ mark THEN [acc EXCEPT !.p = nx.p, !.stop = TRUE]
                  ELSE Skip(nx, InLine(nx.p.lks[nx.lk].ents[nx.eid]))
    IN IF acc.stop THEN acc ELSE To(Neighbour(acc.p, acc.lk, acc.eid, back))

SkipMaps(x, code, todo, back) ==
    FoldLeft(LAMBDA acc, j : SkipMap(acc, code, back),
             [p |-> x.p, lk |-> x.lk, eid |-> x.eid, todo |-> todo, stop |-> FALSE],
             [j \in 1..MetaPages |-> j])

(***************************************************************************)
(* tape_partition_space_forward, tape_partition_space_backward: within the *)
(* current map, then over whole maps, then within the map reached.  The    *)
(* result carries the count left over.                                     *)
(***************************************************************************)
Spaced(p, x) == [p |-> [p EXCEPT !.maps[p.cur].c = x.c], st |-> x.st, out |-> <<x.todo>>]

SpaceOver(p, code, n, back) ==
    LET InMap(m, todo) == IF back THEN blk_map_space_backward(m, code, todo)
                          ELSE blk_map_space_forward(m, code, todo)
        AtEnd(l) == CASE back /\ l.lid = 0 -> "BOM"
                      [] ~back /\ l.next = 0 -> "EOD"
                      [] OTHER -> "MEDIA_ERROR"
        Reach(z) == LET q == SetOnlyMap(z.p, blk_map_load(z.p, z.lk, z.eid, back))
                    IN Spaced(q, InMap(Cur(q), z.todo))
        Leave(y, todo) ==
            IF y.eid = -1
            THEN [p |-> y.p, st |-> AtEnd(y.p.lks[Cur(p).lk]), out |-> <<todo>>]
            ELSE Reach(SkipMaps(y, code, todo, back))
        Within(x) == IF x.st # "GOOD" \/ x.out[1] = 0 THEN x
                     ELSE Leave(Neighbour(x.p, Cur(p).lk, Cur(p).eid, back), x.out[1])
    IN Within(Spaced(p, InMap(Cur(p), n)))

tape_partition_space(p, code, n) ==
    LET back == n < 0
        todo == IF back THEN -n ELSE n
        Start(q) ==
            IF DOMAIN q.lks = {}
            THEN [p |-> q, st |-> IF back THEN "BOM" ELSE "EOD", out |-> <<todo>>]
            ELSE SpaceOver(q, code, todo, back)
    IN Start(tape_partition_pre_space(p))

-----------------------------------------------------------------------------
(***************************************************************************)
(* tape_cmd_rewind: tape_partition_position_bop.  If the first map of the  *)
(* list is the partition's first, the others are freed, and cur_map is     *)
(* left as it was.                                                         *)
(***************************************************************************)
tape_partition_position_bop(p) ==
    LET Start(q) ==
            LET first == blk_map_load(q, Min(DOMAIN q.lks), 0, FALSE)
            IN IF DOMAIN q.lks = {} THEN q
               ELSE IF q.maps # <<>> /\ Head(q.maps).page = first.page
               THEN [q EXCEPT !.maps = <<[Head(@) EXCEPT !.c = FirstEntry(Head(q.maps).ents)]>>,
                              !.cur = IF @ = 1 THEN 1 ELSE DANGLING, !.find = TRUE]
               ELSE [q EXCEPT !.maps = Append(@, first), !.cur = Len(q.maps) + 1, !.find = TRUE]
    IN Start(tape_partition_pre_space(p))

(* tape_cmd_erase: everything from the position on is gone.                *)
tape_partition_erase(p) == blk_map_overwrite_check(tape_partition_pre_space(p))

(***************************************************************************)
(* blk_map_read_position: block number, filemarks counted, and the         *)
(* beginning-of-partition flag of READ POSITION.                           *)
(***************************************************************************)
blk_map_read_position(p) ==
    LET m == Cur(p)
        upto == IF m.c = NULL THEN Len(m.ents) ELSE m.c
    IN IF p.cur = NULL THEN [block |-> 0, file |-> 0, bop |-> TRUE]
       ELSE [block |-> CurrentLid(p),
             file |-> FilemarksBefore(p.lks[m.lk], m.eid)
                      + MarksIn(SubSeq(m.ents, 1, upto))["F"],
             bop |-> m.lid = 0 /\ m.c = 1]

-----------------------------------------------------------------------------
(***************************************************************************)
(* Pages that neither memory nor the chain of lookups on disk refers to    *)
(* are never read again before they are rewritten, nor is the current      *)
(* entry of a map that is not current: the model forgets them.             *)
(***************************************************************************)
Forget(p) ==
    LET chain == FoldLeft(LAMBDA S, j : S \cup {p.disk.lk[page].next : page \in S \cap DOMAIN p.disk.lk},
                          {1}, [j \in 1..MetaPages |-> j])
        lks   == (chain \cup DOMAIN p.lks) \cap DOMAIN p.disk.lk
        lines == UNION {Range(p.disk.lk[page].ents) : page \in lks}
                 \cup UNION {Range(p.lks[page].ents) : page \in DOMAIN p.lks}
        maps  == {e.page : e \in lines} \cup {p.maps[i].page : i \in DOMAIN p.maps}
    IN [p EXCEPT !.disk.lk = Restrict(@, lks),
                 !.disk.map = Restrict(@, maps \cap DOMAIN @),
                 !.maps = Tuple([i \in DOMAIN p.maps |->
                                     IF i = p.cur THEN p.maps[i]
                                     ELSE [p.maps[i] EXCEPT !.c = NULL]]),
                 !.trail = {}]

(***************************************************************************)
(* A command runs to its end, or the machine stops at one of the disk      *)
(* writes it makes and the partition is loaded again.                      *)
(***************************************************************************)
Execute(cmd, arg, x) ==
    \/ /\ part' = Forget(x.p)
       /\ res' = [cmd |-> cmd, arg |-> arg, st |-> x.st, out |-> x.out]
    \/ \E disk \in x.p.trail :
           /\ part' = Forget(tape_partition_load(disk))
           /\ res' = [cmd |-> "CRASH", arg |-> <<cmd>>, st |-> "GOOD", out |-> <<>>]

NoData(x) == [p |-> x.p, st |-> x.st, out |-> <<>>]

Usable == part.cur # DANGLING

Write(v, n, buffered) ==
    /\ CurrentLid(part) + n <= MaxBlocks
    /\ \E bg \in FlushChoices(part, buffered) :
           Execute("WRITE", <<v, n, buffered>>,
                   NoData(tape_partition_write(part, [j \in 1..n |-> [k |-> "D", v |-> v]],
                                               buffered, bg)))

WriteFilemarks(k, n) ==
    /\ CurrentLid(part) + n <= MaxBlocks
    /\ Execute("WRITE FILEMARKS", <<k, n>>, NoData(tape_partition_write_filemarks(part, k, n)))

Read(sz, n) ==
    \E ahead \in BOOLEAN :
        Execute("READ", <<sz, n>>, tape_partition_read(part, sz, n, ahead))

Locate(type, a) ==
    Execute("LOCATE", <<type, a>>, NoData(tape_partition_locate(part, type, a)))

Space(code, n) == Execute("SPACE", <<code, n>>, tape_partition_space(part, code, n))

Rewind == Execute("REWIND", <<>>, NoData(Good(tape_partition_position_bop(part))))

Erase == Execute("ERASE", <<>>, NoData(tape_partition_erase(part)))

ReadPosition ==
    LET at == blk_map_read_position(part) IN
    /\ res' = [cmd |-> "READ POSITION", arg |-> <<>>, st |-> "GOOD",
               out |-> <<at.block, at.file, at.bop>>]
    /\ UNCHANGED part

(* The machine stops between two commands.                                 *)
Restart ==
    /\ part' = Forget(tape_partition_load(part.disk))
    /\ res' = [cmd |-> "CRASH", arg |-> <<>>, st |-> "GOOD", out |-> <<>>]

Next ==
    /\ \/ /\ Usable
          /\ \/ \E v \in Values, n \in Counts, buffered \in BOOLEAN : Write(v, n, buffered)
             \/ \E k \in Kinds, n \in Counts \cup {0} : WriteFilemarks(k, n)
             \/ \E sz \in Values, n \in Counts : Read(sz, n)
             \/ \E type \in {"BLOCK", "FILE"}, a \in 0..MaxBlocks : Locate(type, a)
             \/ Locate("EOD", 0)
             \/ \E code \in {"BLOCKS", "FILEMARKS", "SETMARKS"}, n \in Counts, s \in {1, -1} :
                    Space(code, s * n)
             \/ Rewind
             \/ Erase
             \/ ReadPosition
       \/ Restart
    /\ UNCHANGED worm

Spec == Init /\ [][Next]_vars

-----------------------------------------------------------------------------
(***************************************************************************)
(* The tape as an initiator sees it: the entries of the maps the chain of  *)
(* lookups lists, each from memory if it is there, then the maps no lookup *)
(* lists yet.                                                              *)
(***************************************************************************)
LookupAt(p, page) == IF page \in DOMAIN p.lks THEN p.lks[page] ELSE p.disk.lk[page]

(* The lookups from the first one on, and the lines they hold.             *)
Chain(p) ==
    LET From[page \in 0..MetaPages] ==
            IF page = 0 THEN <<>> ELSE <<page>> \o From[LookupAt(p, page).next]
    IN From[IF 1 \in DOMAIN p.lks \cup DOMAIN p.disk.lk THEN 1 ELSE 0]

Lines(p) ==
    LET chain == Chain(p)
        From[i \in 1..(Len(chain) + 1)] ==
            IF i > Len(chain) THEN <<>>
            ELSE LET l == LookupAt(p, chain[i]) IN [j \in 1..l.nrs |-> l.ents[j - 1]] \o From[i + 1]
    IN From[1]

EntriesAt(p, page) ==
    LET held == {i \in DOMAIN p.maps : p.maps[i].page = page} IN
    IF held = {} THEN p.disk.map[page] ELSE p.maps[Max(held)].ents

Entries(p) ==
    LET lines == Lines(p)
        new   == SelectSeq(p.maps, LAMBDA m : m.new)
        Listed[i \in 0..Len(lines)] ==
            IF i = 0 THEN <<>> ELSE Listed[i - 1] \o EntriesAt(p, lines[i].page)
        New[i \in 0..Len(new)] ==
            IF i = 0 THEN <<>> ELSE New[i - 1] \o new[i].ents
    IN Listed[Len(lines)] \o New[Len(new)]

Log(p) == LET es == Entries(p) IN [i \in DOMAIN es |-> [k |-> es[i].k, v |-> es[i].v]]

(* The part of the log that a restart now would find.                      *)
CommonLength(s, t) ==
    Max({n \in 0..Min({Len(s), Len(t)}) : SubSeq(s, 1, n) = SubSeq(t, 1, n)})

Synced(p) == CommonLength(Log(p), Log(tape_partition_load(p.disk)))

-----------------------------------------------------------------------------
Pages == 1..MetaPages
MarkCounts == [Marks -> Nat]
Entry == [k : {"D"} \cup Marks, v : Values \cup {0}, b : 1..(DataBlocks + 1)]

IsLine(e) ==
    DOMAIN e = {"page", "lid", "f"} /\ e.page \in Pages /\ e.lid \in Nat /\ e.f \in MarkCounts

IsMap(m) ==
    /\ DOMAIN m = {"page", "lk", "eid", "lid", "ents", "c", "f", "new", "io"}
    /\ m.page \in Pages /\ m.lk \in Pages /\ m.eid \in 0..(NR_MAP_DATA_ENTRIES - 1)
    /\ m.lid \in Nat /\ m.f \in MarkCounts /\ m.new \in BOOLEAN /\ m.io \in BOOLEAN
    /\ Len(m.ents) <= BLK_MAX_ENTRIES /\ Range(m.ents) \subseteq Entry
    /\ m.c \in 0..Len(m.ents)

IsLookup(l) ==
    /\ DOMAIN l = {"ents", "nrs", "pend", "next", "prev", "lid", "f0", "fs", "new", "io"}
    /\ {l.nrs, l.pend} \subseteq 0..NR_MAP_DATA_ENTRIES
    /\ 0..(l.nrs - 1) \subseteq DOMAIN l.ents /\ \A i \in DOMAIN l.ents : IsLine(l.ents[i])
    /\ {l.next, l.prev} \subseteq Pages \cup {0} /\ l.lid \in Nat
    /\ {l.f0, l.fs} \subseteq MarkCounts /\ l.new \in BOOLEAN /\ l.io \in BOOLEAN

(***************************************************************************)
(* The partition is well formed: cur_map is a map of map_list, NULL or     *)
(* freed, every map from it on has its lookup in memory (maps before it    *)
(* may outlive theirs), a map's current entry is one of its entries, and a *)
(* lookup holds the lines it counts.                                       *)
(***************************************************************************)
TypeOK ==
    /\ part.cur \in DOMAIN part.maps \cup {NULL, DANGLING}
    /\ \A i \in DOMAIN part.maps :
           /\ IsMap(part.maps[i])
           /\ i >= part.cur => part.maps[i].lk \in DOMAIN part.lks
    /\ DOMAIN part.lks \subseteq Pages
    /\ \A page \in DOMAIN part.lks : IsLookup(part.lks[page])
    /\ {part.dirR, part.dirW, part.find} \subseteq BOOLEAN
    /\ part.m \in 1..(MetaPages + 1) /\ part.d \in 1..(DataBlocks + 1)

(***************************************************************************)
(* PARTITION_DIR_READ and PARTITION_DIR_WRITE are never set together: each *)
(* of the pre_ functions that commands begin with undoes the other one's   *)
(* work.                                                                   *)
(***************************************************************************)
OneDirection == ~(part.dirR /\ part.dirW)

(***************************************************************************)
(* No two blocks on the tape share a data block, and they lie on disk in   *)
(* the order of the tape: a WRITE after an overwrite, a restart or a       *)
(* rewind goes on where the data before the position ends.  Once           *)
(* PARTITION_LOOKUP_SEGMENTS is cleared (tape_partition_lookup_segments),  *)
(* the next meta page and data block are beyond every one in use.          *)
(***************************************************************************)
BlocksApart ==
    LET es   == Entries(part)
        data == SelectSeq(es, LAMBDA e : e.k = "D")
    IN /\ \A i \in 2..Len(data) : data[i - 1].b < data[i].b
       /\ ~part.find => /\ \A i \in DOMAIN data : data[i].b < part.d
                        /\ \A i \in DOMAIN Lines(part) : Lines(part)[i].page < part.m
                        /\ \A page \in Range(Chain(part)) : page < part.m

(***************************************************************************)
(* A lookup has a place for every new map that will be listed in it:       *)
(* pending_new_maps covers the maps in memory that are new, and with the   *)
(* listed ones they fit (asserted in map_lookup_add_map and                *)
(* tape_partition_add_map).                                                *)
(***************************************************************************)
PlaceForNewMaps ==
    \A page \in DOMAIN part.lks :
        LET l == part.lks[page] IN
        /\ Cardinality({i \in DOMAIN part.maps : part.maps[i].new /\ part.maps[i].lk = page})
               <= l.pend
        /\ l.nrs + l.pend < NR_MAP_DATA_ENTRIES

(***************************************************************************)
(* Of a write-once cartridge, whatever is on disk before a command or a    *)
(* crash is on the tape after it (OVERWRITE_WORM_MEDIA in                  *)
(* blk_map_overwrite_check).                                               *)
(***************************************************************************)
WormKeeps ==
    [][worm => IsPrefix(SubSeq(Log(part), 1, Synced(part)), Log(part'))]_vars
=============================================================================
