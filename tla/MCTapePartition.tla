--------------------------- MODULE MCTapePartition ---------------------------
(***************************************************************************)
(* TapePartition on small instances, and what it is compared with.         *)
(***************************************************************************)
EXTENDS TapePartition

CONSTANT MaxMaps    \* bound: maps in memory

VARIABLE medium     \* the tape as TapeMedium sees it, and a bit of every step

Seen(p) == [log |-> Log(p), pos |-> CurrentLid(p), synced |-> Synced(p), turn |-> FALSE]

FewMaps == Len(part.maps) <= MaxMaps

(* Nothing a command does depends on the outcome of the one before it.     *)
View == <<worm, part>>

-----------------------------------------------------------------------------
(***************************************************************************)
(* What the lookups and maps of a partition should agree on.               *)
(***************************************************************************)
(* Every map begins where the one before it ends, and a lookup begins with *)
(* its first map.                                                          *)
Contiguous(p) ==
    LET lines == Lines(p) IN
    /\ \A i \in DOMAIN lines :
           lines[i].lid = IF i = 1 THEN 0
                          ELSE lines[i - 1].lid + Len(EntriesAt(p, lines[i - 1].page))
    /\ \A page \in Range(Chain(p)) :
           LET l == LookupAt(p, page) IN l.nrs > 0 => l.ents[0].lid = l.lid

(* The marks of a map are counted in its line, those of a lookup in its    *)
(* own sum, and those of all lookups before it in its start.               *)
MarksCounted(p) ==
    LET lines == Lines(p)
        chain == Chain(p)
        After(l) == AddMarks(l.f0, map_lookup_resync_ids(l))
    IN /\ \A i \in DOMAIN lines : lines[i].f = MarksIn(EntriesAt(p, lines[i].page))
       /\ \A page \in DOMAIN p.lks : p.lks[page].fs = map_lookup_resync_ids(p.lks[page])
       /\ \A i \in DOMAIN chain :
              LookupAt(p, chain[i]).f0 =
                  IF i = 1 THEN NoMarks ELSE After(LookupAt(p, chain[i - 1]))

Sound(p) == p.cur # DANGLING /\ Contiguous(p) /\ MarksCounted(p)

(* Every lookup knows the one before it.                                   *)
Linked(p) ==
    LET chain == Chain(p) IN
    \A i \in 2..Len(chain) : LookupAt(p, chain[i]).prev = chain[i - 1]

(* A map in memory differs from its page on disk, and no flush will write  *)
(* it.                                                                     *)
Cut(p) ==
    \E i \in DOMAIN p.maps :
        LET m == p.maps[i] IN
        /\ ~m.io \/ ~p.dirW
        /\ m.page \notin DOMAIN p.disk.map \/ m.ents # p.disk.map[m.page]

(***************************************************************************)
(* The steps between sound states.  After a cut that is not on disk yet,   *)
(* only writes are looked at; SPACE goes back only where the lookups are,  *)
(* and after its flush stay, linked.  The runs that expect a violation     *)
(* show the steps left out here.                                           *)
(***************************************************************************)
SoundNext ==
    /\ Next
    /\ Cut(part) => \/ res'.cmd \in {"WRITE", "READ POSITION", "CRASH"}
                    \/ res'.cmd = "WRITE FILEMARKS" /\ res'.arg[2] > 0
    /\ \E p \in {part'} : /\ Len(p.maps) <= MaxMaps
                          /\ Sound(p)
                          /\ res'.cmd = "SPACE" /\ res'.arg[2] < 0 => Linked(part) /\ Linked(p)
                          /\ medium' = [Seen(p) EXCEPT !.turn = ~medium.turn]

SoundInit == Init /\ medium = Seen(part)

SoundSpec == SoundInit /\ [][SoundNext]_<<vars, medium>>

(* All steps, and nothing seen of them.                                    *)
FullInit == Init /\ medium = <<>>
FullNext == Next /\ UNCHANGED medium

FullSpec == FullInit /\ [][FullNext]_<<vars, medium>>

Medium == INSTANCE TapeMedium
          WITH log <- medium.log, pos <- medium.pos, synced <- medium.synced

(***************************************************************************)
(* Every command and every crash does to the log, the position and the     *)
(* part on disk what TapeMedium promises, with the answer it promises.     *)
(***************************************************************************)
Refines == Medium!Init /\ [][Medium!Next]_<<medium, res>>

-----------------------------------------------------------------------------
(***************************************************************************)
(* What comments and assertions of the code say, over all steps.           *)
(***************************************************************************)
(* tape_cmd_rewind leaves the partition at its beginning (core/tape.c).    *)
RewindEndsAtBeginning ==
    res.cmd = "REWIND" => part.cur # DANGLING /\ CurrentLid(part) = 0

(* The lookup that LOCATE selects has no first map beyond the block looked *)
(* for (asserted in map_lookup_locate_entry).                              *)
LocateFindsMap ==
    LET q == tape_partition_pre_space(part) IN
    Usable /\ DOMAIN q.lks # {} =>
        \A a \in 0..MaxBlocks :
            LET x == LocateLookup(q, a, FALSE)
                l == x.p.lks[x.lk]
            IN l.nrs > 0 => l.ents[0].lid <= a
=============================================================================
