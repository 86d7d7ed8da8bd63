--------------------------- MODULE SegmentsTheorems ---------------------------
(***************************************************************************)
(* The theorems about the counts of free units, the list of disks with     *)
(* room and the disk check.                                                *)
(***************************************************************************)
EXTENDS SegmentsProofs, SegmentsCounts, FiniteSetTheorems

(* Most steps need no arithmetic; those that do cite SMT.                  *)
USE Zenon

-----------------------------------------------------------------------------
(* The library's theorems give what the counting of units rests on.        *)
LEMMA CountingHolds == Counting
<1>1. ASSUME NEW x, NEW n \in Nat PROVE IsFiniteSet({x} \X (1..n))
  <2>1. IsFiniteSet({x})
    BY FS_Singleton
  <2>2. IsFiniteSet(1..n)
    BY FS_Interval, SMT
  <2> QED
    BY <2>1, <2>2, FS_Product
<1>2. ASSUME NEW S, IsFiniteSet(S)
      PROVE  /\ Cardinality(S) \in Nat
             /\ Cardinality(S) = 0 <=> S = {}
             /\ \A T \in SUBSET S : IsFiniteSet(T)
             /\ \A T : Cardinality(S \ T) = Cardinality(S) - Cardinality(S \cap T)
             /\ \A x \in S : Cardinality(S \ {x}) = Cardinality(S) - 1
             /\ \A x : x \notin S => Cardinality(S \cup {x}) = Cardinality(S) + 1
  <2>1. /\ Cardinality(S) \in Nat
        /\ Cardinality(S) = 0 <=> S = {}
        /\ \A T \in SUBSET S : IsFiniteSet(T)
    BY <1>2, FS_CardinalityType, FS_EmptySet, FS_Subset
  <2>2. \A T : Cardinality(S \ T) = Cardinality(S) - Cardinality(S \cap T)
    BY <1>2, FS_Difference
  <2>3. /\ \A x \in S : Cardinality(S \ {x}) = Cardinality(S) - 1
        /\ \A x : x \notin S => Cardinality(S \cup {x}) = Cardinality(S) + 1
    BY <1>2, FS_RemoveElement, FS_AddElement
  <2> QED
    BY <2>1, <2>2, <2>3
<1>3. ASSUME NEW S, NEW T, IsFiniteSet(S), IsFiniteSet(T), S \cap T = {}
      PROVE  Cardinality(S \cup T) = Cardinality(S) + Cardinality(T)
  <2>1. Cardinality(S) \in Nat /\ Cardinality(T) \in Nat
    BY <1>3, FS_CardinalityType
  <2>2. Cardinality(S \cup T) = Cardinality(S) + Cardinality(T) - 0
    BY <1>3, FS_Union, FS_EmptySet, SMT
  <2> QED
    BY <2>1, <2>2, SMT
<1> QED
  BY <1>1, <1>2, <1>3 DEF Counting

(* The two invariants hold together.                                       *)
LEMMA AlwaysCounts == ASSUME ~AnyCheck PROVE Spec => [](IInv /\ Counts)
<1>1. Init => IInv /\ Counts
  BY InitInv, InitCounts, CountingHolds
<1>2. IInv /\ Counts /\ [Next]_vars => (IInv /\ Counts)'
  BY NextInv, NextCounts, CountingHolds
<1> QED
  BY <1>1, <1>2, PTL DEF Spec

-----------------------------------------------------------------------------
(***************************************************************************)
(* The variables of core/bdev.c and core/tape_partition.c keep their       *)
(* types, whatever writes fail and wherever the machine stops.             *)
(***************************************************************************)
THEOREM TypesKept == ASSUME ~AnyCheck PROVE Spec => []TypeOK
<1>1. IInv /\ Counts => TypeOK
  BY DEF IInv, Owned, Shape, Counts, Kinds, TypeOK, Labels
<1> QED
  BY <1>1, AlwaysCounts, PTL

(***************************************************************************)
(* The count of a disk covers its clear units, and is exact unless         *)
(* bint_release_block may fail to write: bint_get_block never counts below *)
(* zero.                                                                   *)
(***************************************************************************)
THEOREM FreeAlwaysCovers == ASSUME ~AnyCheck PROVE Spec => []FreeCovers
<1>1. IInv /\ Counts => FreeCovers
  BY DEF Counts
<1> QED
  BY <1>1, AlwaysCounts, PTL

(***************************************************************************)
(* bint_get_eligible, which reads the counts without the disks' locks,     *)
(* never takes a disk with room off alloc_list for good, however its steps *)
(* and those of the callers that release units interleave.                 *)
(***************************************************************************)
THEOREM RoomIsAlwaysListed == ASSUME ~AnyCheck PROVE Spec => []RoomIsListed
<1>1. IInv /\ Counts => RoomIsListed
  BY DEF Counts
<1> QED
  BY <1>1, AlwaysCounts, PTL

(***************************************************************************)
(* A disk check (bint_index_check of core/bcheck.c, for any number of      *)
(* disks and bitmap pages) ends with exactly the units in use marked.      *)
(***************************************************************************)
THEOREM CheckAlwaysReclaims == ASSUME ~AnyCheck PROVE Spec => CheckReclaims
<1>1. IInv /\ Counts /\ [Next]_vars =>
          [bint_index_check /\ check' = NONE => bmap' = InUse]_vars
  <2> SUFFICES ASSUME IInv, Counts, bint_index_check, check' = NONE
               PROVE  bmap' = InUse
    BY DEF Next
  <2>1. bmap' \subseteq InUse
    BY CheckKeepsCounts, CountingHolds
  <2>2. IInv'
    BY CheckKeepsInv
  <2>3. InUse' \subseteq bmap'
    <3>1. Owned'
      BY <2>2 DEF IInv
    <3>2. InUseIsMarked'
      BY <3>1, OwnedMeans, PTL
    <3> QED
      BY <3>2 DEF InUseIsMarked
  <2>4. InUse' = InUse
    BY DEF InUse, Refs, bint_index_check
  <2> QED
    BY <2>1, <2>3, <2>4
<1> QED
  BY <1>1, AlwaysCounts, PTL DEF Spec, CheckReclaims
=============================================================================
