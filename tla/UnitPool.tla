------------------------------- MODULE UnitPool -------------------------------
(***************************************************************************)
(* What the partitions and the disk check may do with the units of the     *)
(* disks, without locks, lists, pages or segment maps: a unit is available *)
(* to all, owned by one partition, or lost until a disk check.  Segments   *)
(* implements it.                                                          *)
(***************************************************************************)
CONSTANTS
    Units, Parts,
    Unreleased      \* a release may fail to make the unit available

VARIABLES
    owns,           \* the units of each partition
    available,      \* the units that may be taken
    unmapping       \* the units with an UNMAP on its way

pool == <<owns, available, unmapping>>

Lost == Units \ (available \cup UNION {owns[v] : v \in Parts})

Init ==
    /\ owns = [v \in Parts |-> {}]
    /\ available = Units
    /\ unmapping = {}

(* A partition gets a unit that is available and not being unmapped.       *)
Take(v, u) ==
    /\ u \in available \ unmapping
    /\ owns' = [owns EXCEPT ![v] = @ \cup {u}]
    /\ available' = available \ {u}
    /\ UNCHANGED unmapping

(* A partition gives back a unit of its own.                               *)
Give(v, u) ==
    /\ u \in owns[v]
    /\ owns' = [owns EXCEPT ![v] = @ \ {u}]
    /\ \/ available' = available \cup {u}
       \/ Unreleased /\ UNCHANGED available
    /\ unmapping' \in {unmapping, unmapping \cup {u}}

(* A partition no longer knows some of its units.                          *)
Lose(v, us) ==
    /\ us \subseteq owns[v]
    /\ owns' = [owns EXCEPT ![v] = @ \ us]
    /\ UNCHANGED <<available, unmapping>>

UnmapEnds(u) ==
    /\ u \in unmapping
    /\ unmapping' = unmapping \ {u}
    /\ UNCHANGED <<owns, available>>

(* After a crash a partition has no unit that it did not have before.      *)
Crash ==
    /\ owns' \in [Parts -> SUBSET Units]
    /\ \A v \in Parts : owns'[v] \subseteq owns[v]
    /\ unmapping' = {}
    /\ UNCHANGED available

(* A disk check makes lost units available.                                *)
Check(us) ==
    /\ us \subseteq Lost
    /\ available' = available \cup us
    /\ UNCHANGED <<owns, unmapping>>

Next ==
    \/ \E v \in Parts :
           \/ \E u \in Units : Take(v, u) \/ Give(v, u)
           \/ \E us \in SUBSET owns[v] : Lose(v, us)
    \/ \E u \in unmapping : UnmapEnds(u)
    \/ Crash
    \/ \E us \in SUBSET Lost : Check(us)

Spec == Init /\ [][Next]_pool
===============================================================================
