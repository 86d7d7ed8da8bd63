--------------------------- MODULE SegmentsInvariant ---------------------------
(***************************************************************************)
(* The inductive invariant of the owners of units, on which the proofs of  *)
(* SegmentsProofs and SegmentsCounts rest.                                 *)
(***************************************************************************)
EXTENDS Segments

Shape ==
    /\ bmap \subseteq Units
    /\ pc = [v \in Parts |-> pc[v]]
    /\ op = [v \in Parts |-> op[v]]
    /\ typ \in [Parts -> Types]
    /\ at = [v \in Parts |-> at[v]]
    /\ unit \in [Parts -> Units \cup {NONE}]
    /\ raw \in [Parts -> Units \cup {NONE}]
    /\ tmap \in [Segs -> Units \cup {NONE, SELF}]
    /\ tmem \in [Segs -> Units \cup {NONE, SELF}]
    /\ \A k \in Segs : tmem[k] = SELF => tmap_skip_segment(k[2], k[3])

(* A segment is on disk as in memory, or not there at all.                 *)
OnDisk == \A k \in Segs : tmap[k] \in {NONE, tmem[k]}

(* Nothing is referred to twice.                                           *)
Distinct ==
    /\ \A v, w \in Parts : raw[v] # NONE /\ raw[v] = raw[w] => v = w
    /\ \A v, w \in Parts : unit[v] # NONE /\ unit[v] = unit[w] => v = w
    /\ \A k, l \in Segs : tmem[k] \in Units /\ tmem[k] = tmem[l] => k = l
    /\ \A v, w \in Parts : raw[v] # NONE => raw[v] # unit[w]
    /\ \A v \in Parts, k \in Segs : raw[v] # NONE => raw[v] # tmem[k]
    /\ \A v \in Parts, k \in Segs : unit[v] # NONE => unit[v] # tmem[k]

(* What is referred to is marked, and no UNMAP is on its way to it.        *)
Marked ==
    /\ \A v \in Parts : raw[v] # NONE => raw[v] \in bmap \ unmap_list
    /\ \A v \in Parts : unit[v] # NONE => unit[v] \in bmap \ unmap_list
    /\ \A k \in Segs : tmem[k] \in Units => tmem[k] \in bmap \ unmap_list

Owned == Shape /\ OnDisk /\ Distinct /\ Marked

(* What tmap_eod_segments still has to release is no longer on disk.       *)
Releasing(v) ==
    \/ pc[v] = "release"
    \/ pc[v] \in {"drop", "relist", "dropped"} /\ op[v] \in {"tail", "all"}

CutFirst(v) ==
    Releasing(v) =>
        \A r \in SegmentsFrom(v, typ[v], at[v]) : tmap[<<v, typ[v], r>>] = NONE

(* A caller has a unit only between getting it and recording it, and when  *)
(* it is about to release it.                                              *)
Holding(v) == unit[v] # NONE => pc[v] \in {"got", "drop"}

(* During the disk check nothing else happens.                             *)
Checking ==
    check # NONE => /\ \A v \in Parts : pc[v] = "idle" /\ unit[v] = NONE
                    /\ tmem = tmap
                    /\ NoGaps

IInv == Owned /\ (\A v \in Parts : CutFirst(v) /\ Holding(v)) /\ Checking
================================================================================
