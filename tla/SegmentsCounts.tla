---------------------------- MODULE SegmentsCounts ----------------------------
(***************************************************************************)
(* The counts of free units, the list of disks that may have room, and the *)
(* sweep of the disk check, for any disks, partitions and failing writes:  *)
(* that every step keeps the invariant that ties them together.            *)
(***************************************************************************)
EXTENDS SegmentsInvariant, DataLemmas

(* Most steps need no arithmetic; those that do cite SMT.                  *)
USE Zenon

-----------------------------------------------------------------------------
(* alloc_list as a list of disks, none of them on it twice.                *)

Listed(d) == Contains(alloc_list, d)
Once(list) == list \in Seq(Disks) /\ IsInjective(list)

(* What is on a list is what the list ranges over.                         *)
LEMMA ContainsIs ==
    ASSUME NEW S, NEW list \in Seq(S), NEW e
    PROVE  Contains(list, e) <=> e \in Range(list)
BY SMT DEF Contains, Range

(* A disk is inserted at some place among the others: it is then on the    *)
(* list, with those that were.                                             *)
LEMMA InsertedIs ==
    ASSUME NEW list \in Seq(Disks), NEW d \in Disks, NEW counts
    PROVE  /\ Inserted(list, d, counts) \in Seq(Disks)
           /\ \A e : Contains(Inserted(list, d, counts), e) <=> Contains(list, e) \/ e = d
           /\ Once(list) /\ ~Contains(list, d) => Once(Inserted(list, d, counts))
<1> DEFINE less == {i \in DOMAIN list : counts[list[i]] < counts[d]}
           pos == IF less = {} THEN Len(list) + 1
                 ELSE CHOOSE i \in less : \A j \in less : i <= j
           new == InsertAt(list, pos, d)
<1>1. pos \in 1..(Len(list) + 1)
  <2>1. CASE less = {}
    BY <2>1, SMT
  <2>2. CASE less # {}
    <3>1. less \in SUBSET Nat
      BY SMT
    <3>2. \E i \in less : \A j \in less : i <= j
      BY <2>2, <3>1, LeastElement
    <3>3. pos \in less
      BY <2>2, <3>2
    <3> QED
      BY <3>3, SMT
  <2> QED
    BY <2>1, <2>2
<1>2. Inserted(list, d, counts) = new
  BY DEF Inserted
<1> HIDE DEF pos
<1>3. /\ new \in Seq(Disks)
      /\ Range(new) = Range(list) \cup {d}
      /\ IsInjective(list) /\ d \notin Range(list) => IsInjective(new)
  BY <1>1, InsertAtFacts, SMT
<1> HIDE DEF new
<1>4. \A e : (Contains(new, e) <=> e \in Range(new)) /\ (Contains(list, e) <=> e \in Range(list))
  BY <1>3, ContainsIs
<1> QED
  BY <1>2, <1>3, <1>4 DEF Once

(* The place of a disk on alloc_list, and the next disk after it.          *)
LEMMA PositionIs ==
    ASSUME alloc_list \in Seq(Disks), NEW d, Listed(d)
    PROVE  /\ Position(d) \in 1..Len(alloc_list) /\ alloc_list[Position(d)] = d
           /\ d \in Disks
           /\ Listed(bdev_alloc_list_next_rotate(d))
           /\ bdev_alloc_list_next_rotate(d) \in Disks
<1>1. \E i \in DOMAIN alloc_list : alloc_list[i] = d
  BY SMT DEF Listed, Contains
<1>2. Position(d) \in DOMAIN alloc_list /\ alloc_list[Position(d)] = d
  BY <1>1 DEF Position
<1> HIDE DEF Position
<1>3. Position(d) \in 1..Len(alloc_list) /\ alloc_list[Position(d)] = d /\ d \in Disks
  BY <1>2, SMT
<1>4. \E i \in 1..Len(alloc_list) : alloc_list[i] = bdev_alloc_list_next_rotate(d)
  BY <1>3, SMT DEF bdev_alloc_list_next_rotate
<1> QED
  BY <1>3, <1>4, SMT DEF Listed, Contains

(* A disk that is taken off is off, and no other is.                       *)
LEMMA RemovedIs ==
    ASSUME Once(alloc_list), NEW d, Listed(d)
    PROVE  /\ Once(RemoveAt(alloc_list, Position(d)))
           /\ \A e : Contains(RemoveAt(alloc_list, Position(d)), e) <=> Listed(e) /\ e # d
<1> DEFINE new == RemoveAt(alloc_list, Position(d))
<1>0. alloc_list \in Seq(Disks) /\ IsInjective(alloc_list)
  BY DEF Once
<1>1. Position(d) \in 1..Len(alloc_list) /\ alloc_list[Position(d)] = d
  BY <1>0, PositionIs
<1>2. Position(d) \in DOMAIN alloc_list
  BY <1>0, <1>1, SMT
<1> HIDE DEF Position
<1>3. /\ new \in Seq(Disks)
      /\ Range(new) = Range(alloc_list) \ {d}
      /\ IsInjective(new)
  BY <1>0, <1>1, <1>2, RemoveAtFacts, SMT
<1> HIDE DEF new
<1>4. \A e : (Contains(new, e) <=> e \in Range(new)) /\ (Listed(e) <=> e \in Range(alloc_list))
  BY <1>0, <1>3, ContainsIs DEF Listed
<1> QED
  BY <1>3, <1>4 DEF Once, new

(* Loading the disks puts each of them on the list.                        *)
LEMMA AddNewIs ==
    ASSUME NEW counts
    PROVE  /\ Once(bdev_add_new(counts))
           /\ \A d \in Disks : Contains(bdev_add_new(counts), d)
<1> DEFINE N == Len(usize)
           Body(f) == [d \in 0..N |-> IF d = 0 THEN <<>> ELSE Inserted(f[d - 1], d, counts)]
           turn == [x \in Seq(Disks) \X (1..N) |-> Inserted(x[1], x[2], counts)]
           list == CHOOSE f : f = Body(f)
<1>0. N \in Nat /\ Disks = 1..N
  BY DisksAssumption, SMT DEF Disks
<1>1. turn \in [Seq(Disks) \X (1..N) -> Seq(Disks)]
  BY <1>0, InsertedIs, SMT
<1>2. PICK f \in [0..N -> Seq(Disks)] :
          f = [d \in 0..N |-> IF d = 0 THEN <<>> ELSE turn[f[d - 1], d]]
  <2>1. <<>> \in Seq(Disks)
    BY SMT
  <2> HIDE DEF turn, N
  <2>2. \E f \in [0..N -> Seq(Disks)] : IsLoop(f, <<>>, N, turn)
    BY <1>0, <1>1, <2>1, LoopExists
  <2> QED
    BY <2>2 DEF IsLoop
<1>3. f = Body(f)
  <2>1. \A d \in 0..N : d # 0 => d \in 1..N /\ d - 1 \in 0..N
    BY <1>0, SMT
  <2>2. \A d \in 0..N : d # 0 => turn[f[d - 1], d] = Inserted(f[d - 1], d, counts)
    BY <1>2, <2>1
  <2> HIDE DEF turn, N
  <2> QED
    BY <1>2, <2>2
<1>4. list = Body(list)
  BY <1>3
<1>5. bdev_add_new(counts) = list[N]
  BY DEF bdev_add_new
<1> HIDE DEF list
<1> DEFINE P == {n \in 0..N : /\ Once(list[n])
                              /\ \A e : Contains(list[n], e) <=> e \in 1..n}
<1>6. 0 \in P
  <2>1. list[0] = <<>>
    BY <1>0, <1>4, SMT
  <2>2. Once(<<>>)
    BY SMT DEF Once
  <2>3. \A e : ~Contains(<<>>, e)
    BY SMT DEF Contains
  <2>4. \A e : e \notin 1..0
    BY SMT
  <2>5. 0 \in 0..N
    BY <1>0, SMT
  <2> QED
    BY <2>1, <2>2, <2>3, <2>4, <2>5
<1>7. ASSUME NEW n \in 1..N, n - 1 \in P PROVE n \in P
  <2>1. list[n] = Inserted(list[n - 1], n, counts)
    BY <1>0, <1>4, SMT
  <2>2. Once(list[n - 1]) /\ ~Contains(list[n - 1], n) /\ list[n - 1] \in Seq(Disks)
    BY <1>0, <1>7, SMT DEF Once
  <2>3. Once(list[n]) /\ \A e : Contains(list[n], e) <=> Contains(list[n - 1], e) \/ e = n
    BY <1>0, <2>1, <2>2, InsertedIs, SMT
  <2>4. \A e : e \in 1..n <=> e \in 1..(n - 1) \/ e = n
    BY <1>0, SMT
  <2> QED
    BY <1>0, <1>7, <2>3, <2>4, SMT
<1>8. N \in P
  <2> HIDE DEF P, N
  <2>1. \A n \in 0..N : n \in P
    BY <1>0, <1>6, <1>7, InductionUpTo
  <2> QED
    BY <1>0, <2>1, SMT
<1> QED
  BY <1>0, <1>5, <1>8

-----------------------------------------------------------------------------
(* The counts of free units.                                               *)

DiskUnits(d) == {u \in Units : u[1] = d}

(* A unit is a disk and a number of it.                                    *)
LEMMA UnitFacts ==
    /\ \A u \in Units : /\ u[1] \in Disks /\ usize[u[1]] \in Nat
                        /\ u[2] \in 1..usize[u[1]] /\ u = <<u[1], u[2]>>
    /\ \A d \in Disks : /\ usize[d] \in Nat /\ DiskUnits(d) = {d} \X (1..usize[d])
                        /\ ClearUnits(d) = DiskUnits(d) \ bmap
<1>1. \A d \in Disks : usize[d] \in Nat
  BY DisksAssumption, SMT DEF Disks
<1> QED
  BY <1>1, SMT DEF Units, DiskUnits, ClearUnits

(* A disk has finitely many.                                               *)
LEMMA UnitsFinite == ASSUME Counting PROVE \A d \in Disks : IsFiniteSet(DiskUnits(d))
  BY UnitFacts DEF Counting

(* The number of clear units is a natural; 0 if there are none.            *)
LEMMA ClearFacts ==
    ASSUME Counting, NEW d \in Disks
    PROVE  /\ IsFiniteSet(ClearUnits(d)) /\ Cardinality(ClearUnits(d)) \in Nat
           /\ Cardinality(ClearUnits(d)) = 0 <=> ClearUnits(d) = {}
<1>1. IsFiniteSet(DiskUnits(d)) /\ ClearUnits(d) \in SUBSET DiskUnits(d)
  BY UnitFacts, UnitsFinite
<1> QED
  BY <1>1 DEF Counting

(* A clear unit is taken and counted.                                      *)
LEMMA TakeCounts ==
    ASSUME Counting, free \in [Disks -> Int], FreeCovers, NEW u \in Units \ bmap,
           bmap' = bmap \cup {u}, free' = [free EXCEPT ![u[1]] = @ - 1]
    PROVE  /\ free' \in [Disks -> Int] /\ FreeCovers'
           /\ free[u[1]] # 0
           /\ \A d \in Disks : ClearUnits(d)' \subseteq ClearUnits(d)
           /\ \A d \in Disks : d # u[1] => free'[d] = free[d]
<1>1. u[1] \in Disks
  BY UnitFacts
<1>2. \A d \in Disks : d # u[1] => ClearUnits(d)' = ClearUnits(d) /\ free'[d] = free[d]
  BY DEF ClearUnits
<1>3. ClearUnits(u[1])' = ClearUnits(u[1]) \ {u} /\ u \in ClearUnits(u[1])
  BY DEF ClearUnits
<1>4. free'[u[1]] = free[u[1]] - 1 /\ free[u[1]] \in Int /\ free' \in [Disks -> Int]
  BY <1>1, SMT
<1>5. Cardinality(ClearUnits(u[1])') = Cardinality(ClearUnits(u[1])) - 1
  <2>1. IsFiniteSet(ClearUnits(u[1]))
    BY <1>1, ClearFacts
  <2>2. Cardinality(ClearUnits(u[1]) \ {u}) = Cardinality(ClearUnits(u[1])) - 1
    BY <1>3, <2>1 DEF Counting
  <2> QED
    BY <1>3, <2>2
<1>6. Cardinality(ClearUnits(u[1])) \in Nat \ {0}
  BY <1>1, <1>3, ClearFacts
<1>7. FreeCovers'
  <2> SUFFICES ASSUME NEW d \in Disks
               PROVE  /\ free'[d] >= Cardinality(ClearUnits(d)')
                      /\ "release" \notin Failing => free'[d] = Cardinality(ClearUnits(d)')
    BY DEF FreeCovers
  <2>1. CASE d = u[1]
    BY <1>1, <1>4, <1>5, <1>6, <2>1, SMT DEF FreeCovers
  <2>2. CASE d # u[1]
    BY <1>2, <2>2 DEF FreeCovers
  <2> QED
    BY <2>1, <2>2
<1>8. free[u[1]] # 0
  BY <1>1, <1>4, <1>6, SMT DEF FreeCovers
<1>9. \A d \in Disks : ClearUnits(d)' \subseteq ClearUnits(d)
  BY <1>2, <1>3
<1> QED
  BY <1>2, <1>4, <1>7, <1>8, <1>9

(* A marked unit is released and counted, also if its bit stays set.       *)
LEMMA ReleaseCounts ==
    ASSUME Counting, free \in [Disks -> Int], FreeCovers, NEW u \in Units, u \in bmap,
           bmap' \in {bmap \ {u}} \cup {bmap : w \in Failing \cap {"release"}},
           free' = [free EXCEPT ![u[1]] = @ + 1]
    PROVE  /\ free' \in [Disks -> Int] /\ FreeCovers'
           /\ \A d \in Disks :
                 d # u[1] => ClearUnits(d)' = ClearUnits(d) /\ free'[d] = free[d]
<1>1. u[1] \in Disks
  BY UnitFacts
<1>2. (bmap' = bmap \ {u}) \/ (bmap' = bmap /\ "release" \in Failing)
  <2>1. bmap' = bmap \ {u} \/ bmap' \in {bmap : w \in Failing \cap {"release"}}
    OBVIOUS
  <2> QED
    BY <2>1
<1>3. \A d \in Disks : d # u[1] => ClearUnits(d)' = ClearUnits(d) /\ free'[d] = free[d]
  BY <1>2 DEF ClearUnits
<1>4. free'[u[1]] = free[u[1]] + 1 /\ free[u[1]] \in Int /\ free' \in [Disks -> Int]
  BY <1>1, SMT
<1>5. Cardinality(ClearUnits(u[1])) \in Nat
  BY <1>1, ClearFacts
<1>6. CASE bmap' = bmap \ {u}
  <2>1. ClearUnits(u[1])' = ClearUnits(u[1]) \cup {u} /\ u \notin ClearUnits(u[1])
    BY <1>6 DEF ClearUnits
  <2>2. Cardinality(ClearUnits(u[1])') = Cardinality(ClearUnits(u[1])) + 1
    <3>1. IsFiniteSet(ClearUnits(u[1]))
      BY <1>1, ClearFacts
    <3>2. Cardinality(ClearUnits(u[1]) \cup {u}) = Cardinality(ClearUnits(u[1])) + 1
      BY <2>1, <3>1 DEF Counting
    <3> QED
      BY <2>1, <3>2
  <2>3. ASSUME NEW d \in Disks
        PROVE  /\ free'[d] >= Cardinality(ClearUnits(d)')
               /\ "release" \notin Failing => free'[d] = Cardinality(ClearUnits(d)')
    <3>1. CASE d = u[1]
      BY <1>1, <1>4, <1>5, <2>2, <3>1, SMT DEF FreeCovers
    <3>2. CASE d # u[1]
      BY <1>3, <3>2 DEF FreeCovers
    <3> QED
      BY <3>1, <3>2
  <2> QED
    BY <1>3, <1>4, <2>3 DEF FreeCovers
<1>7. CASE bmap' = bmap /\ "release" \in Failing
  <2>1. \A d \in Disks : ClearUnits(d)' = ClearUnits(d)
    BY <1>7 DEF ClearUnits
  <2>2. ASSUME NEW d \in Disks
        PROVE  free'[d] >= Cardinality(ClearUnits(d)')
    <3>1. CASE d = u[1]
      BY <1>1, <1>4, <1>5, <2>1, <3>1, SMT DEF FreeCovers
    <3>2. CASE d # u[1]
      BY <1>3, <3>2 DEF FreeCovers
    <3> QED
      BY <3>1, <3>2
  <2> QED
    BY <1>3, <1>4, <1>7, <2>2 DEF FreeCovers
<1> QED
  BY <1>2, <1>6, <1>7


(* A disk that is loaded counts its clear units.                           *)
LEMMA LoadCounts ==
    ASSUME Counting, NEW on
    PROVE  /\ bint_load(on) \in [Disks -> Int]
           /\ \A d \in Disks : bint_load(on)[d] = Cardinality(DiskUnits(d) \ on)
<1>1. ASSUME NEW d \in Disks
      PROVE  /\ {u \in Units \ on : u[1] = d} = DiskUnits(d) \ on
             /\ Cardinality(DiskUnits(d) \ on) \in Int
  <2>1. {u \in Units \ on : u[1] = d} = DiskUnits(d) \ on
    BY DEF DiskUnits
  <2>2. Cardinality(DiskUnits(d) \ on) \in Nat
    BY UnitsFinite DEF Counting
  <2> QED
    BY <2>1, <2>2, SMT
<1> QED
  BY <1>1 DEF bint_load

-----------------------------------------------------------------------------
(* The disk check.                                                         *)

(* Before the page that the disk check is at, only units that it finds are *)
(* marked; all disks are on alloc_list.                                    *)
Passed(u) ==
    \/ u[1] < check[1]
    \/ u[1] = check[1] /\ u[2] <= check[2] * UNITS_PER_INDEX
Sweep ==
    check # NONE =>
        /\ check \in Disks \X Nat
        /\ \A d \in Disks : Listed(d)
        /\ \A u \in bmap : Passed(u) => u \in tape_check_block

(* The pages of a bitmap follow one another, and the last one goes to the  *)
(* end of the disk.                                                        *)
LEMMA PageFacts ==
    ASSUME NEW d \in Disks, NEW p \in Nat
    PROVE  /\ \A u \in Units :
                 u \in Index(d, p) <=> /\ u[1] = d
                                       /\ p * UNITS_PER_INDEX < u[2]
                                       /\ u[2] <= (p + 1) * UNITS_PER_INDEX
           /\ ~(p + 1 < bint_nindexes(d)) =>
                 \A u \in Units : u[1] = d => u[2] <= (p + 1) * UNITS_PER_INDEX
<1> DEFINE m == UNITS_PER_INDEX
<1>1. m \in Nat /\ m > 0 /\ usize[d] \in Nat /\ usize[d] > 0
  BY DisksAssumption, SMT DEF Disks
<1>2. p * m \in Nat /\ (p + 1) * m \in Nat
  BY <1>1, SMT
<1>3. \A u \in Units :
          u \in Index(d, p) <=> u[1] = d /\ p * m < u[2] /\ u[2] <= (p + 1) * m
  <2> SUFFICES ASSUME NEW u \in Units
               PROVE  u \in Index(d, p) <=> u[1] = d /\ p * m < u[2] /\ u[2] <= (p + 1) * m
    OBVIOUS
  <2>1. u[2] \in Nat /\ u = <<u[1], u[2]>>
    BY UnitFacts, SMT
  <2>2. u \in Index(d, p) <=> u[1] = d /\ u[2] \in (p * m + 1)..((p + 1) * m)
    BY <2>1 DEF Index
  <2> HIDE DEF m
  <2> QED
    BY <1>1, <1>2, <2>1, <2>2, SMT
<1>4. ASSUME ~(p + 1 < bint_nindexes(d)) PROVE usize[d] <= (p + 1) * m
  <2> DEFINE q == (usize[d] + m - 1) \div m
  <2> HIDE DEF m
  <2>1. q \in Nat /\ usize[d] + m - 1 < (q + 1) * m
    BY <1>1, SMT
  <2>2. (q + 1) * m = q * m + m /\ q * m \in Nat
    BY <1>1, <2>1, SMT
  <2>3. usize[d] <= q * m
    BY <1>1, <2>1, <2>2, SMT
  <2>4. q <= p + 1
    BY <1>4, <2>1, SMT DEF bint_nindexes, m
  <2> HIDE DEF q
  <2>5. q * m <= (p + 1) * m
    BY <1>1, <2>1, <2>4, SMT
  <2> QED
    BY <1>1, <1>2, <2>2, <2>3, <2>5, SMT
<1>5. ASSUME ~(p + 1 < bint_nindexes(d)), NEW u \in Units, u[1] = d
      PROVE  u[2] <= (p + 1) * m
  <2> HIDE DEF m
  <2> QED
    BY <1>1, <1>2, <1>4, <1>5, UnitFacts, SMT
<1> QED
  BY <1>3, <1>5

(* The check of a page counts the units of its disk anew.                  *)
LEMMA CheckCounts ==
    ASSUME Counting, Shape, free \in [Disks -> Int], FreeCovers, check \in Disks \X Nat, bint_index_check
    PROVE  free' \in [Disks -> Int] /\ FreeCovers'
<1>0. PICK d \in Disks, p \in Nat : check = <<d, p>>
  BY SMT
<1> DEFINE I == Index(d, p)
<1> PICK found : found = tape_check_block \cap I
  OBVIOUS
<1>1. /\ bmap' = (bmap \ I) \cup found
      /\ free' = [free EXCEPT ![d] = @ + Cardinality(bmap \cap I) - Cardinality(found)]
  BY <1>0 DEF bint_index_check
<1>2. bmap \subseteq Units /\ tape_check_block \subseteq Units
  BY SMT DEF Shape, tape_check_block
<1>3. \A u \in I : u[1] = d
  BY DEF Index
<1> HIDE DEF I
<1>4. \A e \in Disks : e # d => ClearUnits(e)' = ClearUnits(e)
  BY <1>1, <1>3 DEF ClearUnits
<1>5. /\ bmap \cap I = (DiskUnits(d) \cap bmap) \cap I
      /\ found \in SUBSET (DiskUnits(d) \cap I)
  BY <1>2, <1>3 DEF DiskUnits
<1>6. ClearUnits(d)' = DiskUnits(d) \ ((bmap \ I) \cup found)
  BY <1>1 DEF ClearUnits, DiskUnits
<1>7. IsFiniteSet(DiskUnits(d))
  BY <1>2, UnitsFinite
<1>8. Cardinality(DiskUnits(d) \ ((bmap \ I) \cup found)) =
          Cardinality(DiskUnits(d) \ bmap) + Cardinality((DiskUnits(d) \cap bmap) \cap I)
              - Cardinality(found)
  <2>1. Recounted(DiskUnits(d), bmap, I, found)
    BY <1>5, <1>7, Recount
  <2> QED
    BY <2>1 DEF Recounted
<1>9. Cardinality(ClearUnits(d)') =
          Cardinality(ClearUnits(d)) + Cardinality(bmap \cap I) - Cardinality(found)
  BY <1>2, <1>5, <1>6, <1>8, UnitFacts
<1>10. Cardinality(bmap \cap I) \in Nat /\ Cardinality(found) \in Nat
  <2>1. found \in SUBSET DiskUnits(d) /\ bmap \cap I \in SUBSET DiskUnits(d)
    BY <1>5
  <2> QED
    BY <1>7, <2>1 DEF Counting
<1>11. Cardinality(ClearUnits(d)) \in Nat
  BY <1>2, ClearFacts
<1>12. /\ free' \in [Disks -> Int]
       /\ free'[d] = free[d] + Cardinality(bmap \cap I) - Cardinality(found)
       /\ \A e \in Disks : e # d => free'[e] = free[e]
  BY <1>1, <1>2, <1>10, SMT
<1>13. ASSUME NEW e \in Disks
       PROVE  /\ free'[e] >= Cardinality(ClearUnits(e)')
              /\ "release" \notin Failing => free'[e] = Cardinality(ClearUnits(e)')
  <2>1. CASE e = d
    BY <1>9, <1>10, <1>11, <1>12, <2>1, SMT DEF FreeCovers
  <2>2. CASE e # d
    BY <1>4, <1>12, <2>2 DEF FreeCovers
  <2> QED
    BY <2>1, <2>2
<1> QED
  BY <1>12, <1>13 DEF FreeCovers

(* The check of a page leaves no unit marked up to its end that it did not *)
(* find; after the last page, none at all.                                 *)
LEMMA CheckSweeps ==
    ASSUME Shape, Sweep, bint_index_check
    PROVE  Sweep' /\ (check' = NONE => bmap' \subseteq tape_check_block)
<1>1. check \in Disks \X Nat /\ \A d \in Disks : Listed(d)
  BY DEF Sweep, bint_index_check
<1>2. PICK d \in Disks, p \in Nat : check = <<d, p>>
  BY <1>1, SMT
<1> DEFINE I == Index(d, p)
<1> PICK T : T = tape_check_block
  OBVIOUS
<1>3. /\ bmap' = (bmap \ I) \cup (T \cap I)
      /\ check' = NextCheck(d, p)
      /\ alloc_list' = alloc_list
      /\ tape_check_block' = T
  BY <1>2 DEF bint_index_check, tape_check_block, poolvars
<1>4. \A u \in bmap : u[1] < d \/ (u[1] = d /\ u[2] <= p * UNITS_PER_INDEX) => u \in T
  BY <1>2 DEF Sweep, Passed, bint_index_check
<1>5. bmap \subseteq Units /\ T \subseteq Units
  BY DEF Shape, tape_check_block
<1>6. Disks = 1..Len(usize) /\ Len(usize) \in Nat
  BY DisksAssumption, SMT DEF Disks
<1>7. UNITS_PER_INDEX \in Nat /\ p * UNITS_PER_INDEX \in Nat /\ (p + 1) * UNITS_PER_INDEX \in Nat
  BY DisksAssumption, SMT
<1>8. ASSUME NEW u \in bmap', u[1] < d \/ (u[1] = d /\ u[2] <= (p + 1) * UNITS_PER_INDEX)
      PROVE  u \in T
  <2>1. CASE u \in T
    BY <2>1
  <2>2. CASE u \in bmap \ I
    <3>1. u \in Units /\ u[2] \in Nat /\ u[1] \in Nat
      BY <1>5, <1>6, <2>2, UnitFacts, SMT
    <3>2. u[1] = d /\ u[2] <= (p + 1) * UNITS_PER_INDEX => u[2] <= p * UNITS_PER_INDEX
      BY <1>7, <2>2, <3>1, PageFacts, SMT
    <3> QED
      BY <1>4, <1>8, <2>2, <3>2
  <2> QED
    BY <1>3, <2>1, <2>2
<1>9. bmap' \subseteq Units
  BY <1>3, <1>5
<1>10. ASSUME ~(p + 1 < bint_nindexes(d)), NEW u \in bmap', u[1] <= d
       PROVE  u \in T
  <2>1. u \in Units /\ u[1] \in Nat
    BY <1>6, <1>9, UnitFacts, SMT
  <2>2. u[1] = d => u[2] <= (p + 1) * UNITS_PER_INDEX
    BY <1>10, <2>1, PageFacts
  <2> QED
    BY <1>6, <1>8, <1>10, <2>1, <2>2, SMT
<1>11. \A e \in Disks : Listed(e)'
  BY <1>1, <1>3 DEF Listed
<1> DEFINE c == check'
           Behind(u) == u[1] < c[1] \/ (u[1] = c[1] /\ u[2] <= c[2] * UNITS_PER_INDEX)
<1>12. /\ c # NONE => c \in Disks \X Nat /\ \A u \in bmap' : Behind(u) => u \in T
       /\ c = NONE => bmap' \subseteq T
  <2>1. CASE p + 1 < bint_nindexes(d)
    <3>1. c = <<d, p + 1>> /\ <<d, p + 1>> \in Disks \X Nat
      BY <1>3, <2>1, SMT DEF NextCheck
    <3>2. c # NONE
      BY <3>1, NoneAssumption
    <3> QED
      BY <1>8, <3>1, <3>2
  <2>2. CASE ~(p + 1 < bint_nindexes(d)) /\ d + 1 \in Disks
    <3>1. c = <<d + 1, 0>> /\ <<d + 1, 0>> \in Disks \X Nat
      BY <1>3, <2>2 DEF NextCheck
    <3>2. c # NONE
      BY <3>1, NoneAssumption
    <3>3. ASSUME NEW u \in bmap', Behind(u) PROVE u \in T
      <4>1. u[1] \in Nat /\ u[2] \in Nat /\ u[2] > 0
        BY <1>6, <1>9, UnitFacts, SMT
      <4>2. u[1] < d + 1 \/ u[2] <= 0
        BY <1>7, <3>1, <3>3, <4>1, SMT
      <4>3. u[1] <= d
        BY <1>6, <4>1, <4>2, SMT
      <4> QED
        BY <1>10, <2>2, <4>3
    <3> QED
      BY <3>1, <3>2, <3>3
  <2>3. CASE ~(p + 1 < bint_nindexes(d)) /\ d + 1 \notin Disks
    <3>1. c = NONE
      BY <1>3, <2>3 DEF NextCheck
    <3>2. \A u \in bmap' : u[1] <= d
      BY <1>6, <1>9, <2>3, UnitFacts, SMT
    <3> QED
      BY <1>10, <2>3, <3>1, <3>2
  <2> QED
    BY <2>1, <2>2, <2>3
<1>13. Sweep'
  BY <1>3, <1>11, <1>12 DEF Sweep, Passed
<1> QED
  BY <1>12, <1>13

(* A unit that the check finds is in use.                                  *)
LEMMA FoundInUse == ASSUME Shape PROVE tape_check_block \subseteq InUse
<1> SUFFICES ASSUME NEW u \in tape_check_block PROVE u \in InUse
  OBVIOUS
<1>1. u \in Units
  BY DEF Shape, tape_check_block
<1>2. (\E v \in Parts : raw[v] = u) \/ (\E k \in Segs : tmap[k] = u)
  BY DEF tape_check_block
<1>3. Refs(u) # {}
  BY <1>2 DEF Refs
<1> QED
  BY <1>1, <1>3 DEF InUse

-----------------------------------------------------------------------------
(* The inductive invariant.                                                *)

Labels == {"idle", "get", "eligible", "unlist", "lock", "scan", "wait", "got", "none", "drop",
           "relist", "dropped", "cut", "release", "unhead", "dead"}

(* The types that the owners of units do not depend on.                    *)
Kinds ==
    /\ free \in [Disks -> Int]
    /\ unmap_list \subseteq Units
    /\ alloc_lock \in Parts \cup {NONE}
    /\ bint_lock \in [Disks -> Parts \cup {NONE}]
    /\ pc \in [Parts -> Labels]
    /\ disk \in [Parts -> Disks \cup {NONE}]

(* Where a caller is, what it has.                                         *)
Caller(v) ==
    /\ alloc_lock = v <=> pc[v] \in {"unlist", "eligible"}
    /\ pc[v] = "unlist" => Listed(disk[v])
    /\ pc[v] = "eligible" => disk[v] = NONE \/ Listed(disk[v])
    /\ pc[v] \in {"lock", "scan", "wait", "relist"} => disk[v] \in Disks
    /\ pc[v] \in {"got", "drop"} => unit[v] # NONE
    /\ pc[v] = "unhead" => op[v] = "all"
    /\ op[v] \in {"tail", "all"} => pc[v] \in {"idle", "dead"} \/ raw[v] # NONE

(* No disk is on alloc_list twice.                                         *)
Pool ==
    /\ Once(alloc_list)
    /\ eligible # NONE => Listed(eligible)

(* A disk about to be taken off alloc_list has no free unit, or one that   *)
(* was released since then, by a caller that will put it on again.         *)
Relisting(d) == \E v \in Parts : pc[v] = "relist" /\ disk[v] = d
Emptied ==
    \A v \in Parts : pc[v] = "unlist" => free[disk[v]] = 0 \/ Relisting(disk[v])

Counts ==
    /\ Kinds
    /\ \A v \in Parts : Caller(v)
    /\ Pool
    /\ FreeCovers
    /\ RoomIsListed
    /\ Emptied
    /\ Sweep
-----------------------------------------------------------------------------
(* The disk check keeps the invariant, and leaves marked what is in use.   *)
LEMMA CheckKeepsCounts ==
    ASSUME Counting, IInv, Counts, bint_index_check
    PROVE  Counts' /\ (check' = NONE => bmap' \subseteq InUse)
<1>1. Shape /\ Sweep /\ Checking
  BY DEF IInv, Owned, Counts
<1>2. check \in Disks \X Nat /\ check # NONE /\ \A d \in Disks : Listed(d)
  BY <1>1 DEF Sweep, bint_index_check
<1>3. UNCHANGED <<poolvars, unmap_list, bint_lock, pc, disk, unit, raw, op>>
  BY DEF bint_index_check
<1>4. free' \in [Disks -> Int] /\ FreeCovers'
  BY <1>1, <1>2, CheckCounts DEF Counts, Kinds
<1>5. Kinds'
  BY <1>3, <1>4 DEF Counts, Kinds, poolvars
<1>6. \A v \in Parts : Caller(v)'
  BY <1>3 DEF Counts, Caller, Listed, poolvars
<1>7. Pool'
  BY <1>3 DEF Counts, Pool, Listed, poolvars
<1>8. \A d \in Disks : Listed(d)'
  BY <1>2, <1>3 DEF Listed, poolvars
<1>9. RoomIsListed'
  BY <1>8 DEF RoomIsListed, Listed
<1>10. Emptied'
  BY <1>1, <1>2, <1>3 DEF Emptied, Checking
<1>11. Sweep' /\ (check' = NONE => bmap' \subseteq tape_check_block)
  BY <1>1, CheckSweeps
<1>12. check' = NONE => bmap' \subseteq InUse
  BY <1>1, <1>11, FoundInUse
<1> QED
  BY <1>4, <1>5, <1>6, <1>7, <1>9, <1>10, <1>11, <1>12 DEF Counts

-----------------------------------------------------------------------------
(* The steps of a caller.                                                  *)

(* Caller v goes on, and nothing of the others changes.                    *)
GoesOn(v, l) ==
    /\ pc' = [pc EXCEPT ![v] = l]
    /\ \A w \in Parts \ {v} : /\ disk'[w] = disk[w] /\ unit'[w] = unit[w]
                              /\ op'[w] = op[w] /\ raw'[w] = raw[w]
    /\ check = NONE /\ check' = NONE

(* What it then has to have, where it does not look at alloc_list.         *)
Has(v, l) ==
    /\ l \in {"lock", "scan", "wait", "relist"} => disk'[v] \in Disks
    /\ l \in {"got", "drop"} => unit'[v] # NONE
    /\ l = "unhead" => op'[v] = "all"
    /\ op'[v] \in {"tail", "all"} => l \in {"idle", "dead"} \/ raw'[v] # NONE

(***************************************************************************)
(* With alloc_list as it was, a step keeps the invariant if it makes room  *)
(* only on a disk that it goes on to put on the list.                      *)
(***************************************************************************)
LEMMA SamePool ==
    ASSUME Counts, NEW v \in Parts, NEW l \in Labels \ {"unlist", "eligible"},
           GoesOn(v, l), Has(v, l), UNCHANGED poolvars, Kinds', FreeCovers',
           pc[v] \notin {"unlist", "eligible", "relist"},
           \A d \in Disks : \/ /\ ClearUnits(d)' \subseteq ClearUnits(d)
                               /\ free[d] = 0 => free'[d] = 0
                            \/ l = "relist" /\ disk'[v] = d
    PROVE  Counts'
<1> USE DEF Counts
<1>1. pc \in [Parts -> Labels] /\ alloc_list' = alloc_list /\ alloc_lock' = alloc_lock
      /\ eligible' = eligible
  BY DEF Kinds, poolvars
<1>2. pc'[v] = l /\ \A w \in Parts \ {v} : pc'[w] = pc[w]
  BY <1>1 DEF GoesOn
<1>3. \A d : Listed(d)' <=> Listed(d)
  BY <1>1 DEF Listed
<1>4. ASSUME NEW w \in Parts PROVE Caller(w)'
  <2>1. CASE w = v
    <3>1. alloc_lock' # v
      BY <1>1 DEF Caller
    <3> QED
      BY <1>2, <2>1, <3>1 DEF Caller, Has
  <2>2. CASE w # v
    <3>1. /\ pc'[w] = pc[w] /\ disk'[w] = disk[w] /\ unit'[w] = unit[w]
          /\ op'[w] = op[w] /\ raw'[w] = raw[w]
      BY <1>2, <2>2 DEF GoesOn
    <3>2. Caller(w)
      OBVIOUS
    <3>3. Listed(disk[w])' <=> Listed(disk[w])
      BY <1>1, <3>1 DEF Listed
    <3> QED
      BY <1>1, <3>1, <3>2, <3>3 DEF Caller
  <2> QED
    BY <2>1, <2>2
<1>5. Pool'
  BY <1>1 DEF Pool, Listed
<1>6. \A d \in Disks : Relisting(d) => Relisting(d)'
  BY <1>2 DEF Relisting, GoesOn
<1>7. ASSUME NEW d \in Disks, l = "relist", disk'[v] = d PROVE Relisting(d)'
  BY <1>2, <1>7 DEF Relisting
<1>8. RoomIsListed'
  <2> SUFFICES ASSUME NEW d \in Disks, ClearUnits(d)' # {}
               PROVE  Listed(d)' \/ Relisting(d)'
    BY DEF RoomIsListed, Listed, Relisting
  <2>1. CASE ClearUnits(d)' \subseteq ClearUnits(d)
    <3>1. Listed(d) \/ Relisting(d)
      BY <2>1 DEF RoomIsListed, Listed, Relisting
    <3> QED
      BY <1>3, <1>6, <3>1
  <2> QED
    BY <1>7, <2>1
<1>9. Emptied'
  <2> SUFFICES ASSUME NEW w \in Parts, pc'[w] = "unlist"
               PROVE  free'[disk'[w]] = 0 \/ Relisting(disk[w])'
    BY DEF Emptied
  <2>1. w # v /\ pc[w] = "unlist" /\ disk'[w] = disk[w]
    BY <1>2 DEF GoesOn
  <2>2. PICK d : d = disk[w]
    OBVIOUS
  <2>3. d \in Disks
    <3>1. Listed(d) /\ alloc_list \in Seq(Disks)
      BY <2>1, <2>2 DEF Caller, Pool, Once
    <3> QED
      BY <3>1, PositionIs
  <2>4. free[d] = 0 \/ Relisting(d)
    BY <2>1, <2>2 DEF Emptied
  <2>5. free'[d] = 0 \/ Relisting(d)'
    BY <1>6, <1>7, <2>3, <2>4
  <2> QED
    BY <2>1, <2>2, <2>5 DEF Relisting
<1>10. Sweep'
  BY DEF GoesOn, Sweep
<1> QED
  BY <1>4, <1>5, <1>8, <1>9, <1>10

(* A step that leaves the disks and their lists alone.                     *)
Waiting == {"unlist", "eligible", "relist"}
Outside == Labels \ {"unlist", "eligible", "lock", "scan", "wait", "relist"}

LEMMA SameDisks ==
    ASSUME Counts, NEW v \in Parts, NEW l \in Outside, pc[v] \notin Waiting,
           GoesOn(v, l), Has(v, l), UNCHANGED devvars,
           disk' \in {disk, [disk EXCEPT ![v] = NONE]}
    PROVE  Counts'
<1>1. /\ UNCHANGED poolvars
      /\ UNCHANGED <<bmap, free, unmap_list, bint_lock, alloc_lock>>
  BY DEF devvars, diskvars, poolvars
<1>2. disk' \in [Parts -> Disks \cup {NONE}] /\ pc' \in [Parts -> Labels]
  BY DEF Counts, Kinds, GoesOn, Outside
<1>3. Kinds'
  BY <1>1, <1>2 DEF Counts, Kinds
<1>4. \A d \in Disks : ClearUnits(d)' = ClearUnits(d)
  BY <1>1 DEF ClearUnits
<1>5. FreeCovers'
  BY <1>1, <1>4 DEF Counts, FreeCovers
<1> QED
  BY <1>1, <1>3, <1>4, <1>5, SamePool, SMT DEF Waiting, Outside

(* The end of an operation,                                                *)
LEMMA EndCounts ==
    ASSUME Counts, Shape, NEW v \in Parts, pc[v] \notin Waiting, check = NONE, check' = NONE,
           End(v), \A w \in Parts \ {v} : raw'[w] = raw[w]
    PROVE  Counts'
<1>1. GoesOn(v, "idle")
  BY DEF GoesOn, End, Begin, Return, Goto, Shape, Counts, Kinds
<1>2. Has(v, "idle")
  BY DEF Has
<1>3. UNCHANGED devvars /\ disk' = [disk EXCEPT ![v] = NONE] /\ "idle" \in Outside
  BY DEF End, Return, Outside, Labels
<1> QED
  BY <1>1, <1>2, <1>3, SameDisks

(* its beginning, or that of its next part,                                *)
LEMMA BeginCounts ==
    ASSUME Counts, Shape, NEW v \in Parts, pc[v] \notin Waiting, check = NONE, check' = NONE,
           NEW o, NEW t, NEW s, NEW l \in {"idle", "get", "cut", "unhead", "dead"},
           Begin(v, o, t, s), Continue(v, l), UNCHANGED raw,
           l = "unhead" => o = "all",
           o \in {"tail", "all"} => l \in {"idle", "dead"} \/ raw[v] # NONE
    PROVE  Counts'
<1>1. GoesOn(v, l)
  BY DEF GoesOn, Begin, Continue, Goto, Shape
<1>2. op'[v] = o /\ raw'[v] = raw[v]
  BY DEF Begin, Shape
<1>3. Has(v, l)
  BY <1>2 DEF Has
<1>4. UNCHANGED devvars /\ disk' = disk /\ l \in Outside
  BY DEF Continue, Outside, Labels
<1> QED
  BY <1>1, <1>3, <1>4, SameDisks

(* a part of it,                                                           *)
LEMMA ContinueCounts ==
    ASSUME Counts, Shape, NEW v \in Parts, pc[v] \notin Waiting \cup {"idle", "dead"},
           check = NONE, check' = NONE, NEW l \in {"drop", "release"},
           Continue(v, l), UNCHANGED <<op, raw>>, l = "drop" => unit[v] # NONE
    PROVE  Counts'
<1>1. GoesOn(v, l)
  BY DEF GoesOn, Continue, Goto, Shape
<1>2. Has(v, l)
  BY DEF Has, Continue, Counts, Caller
<1>3. UNCHANGED devvars /\ disk' = disk /\ l \in Outside
  BY DEF Continue, Outside, Labels
<1> QED
  BY <1>1, <1>2, <1>3, SameDisks

(* and a unit it is about to release.                                      *)
LEMMA DropCounts ==
    ASSUME Counts, Shape, NEW v \in Parts, pc[v] \notin Waiting \cup {"idle", "dead"},
           check = NONE, check' = NONE, NEW u, u # NONE, Drop(v, u),
           \A w \in Parts \ {v} : op'[w] = op[w] /\ raw'[w] = raw[w],
           op'[v] \in {"tail", "all"} => raw'[v] # NONE
    PROVE  Counts'
<1>1. GoesOn(v, "drop")
  BY DEF GoesOn, Drop, Goto, Shape
<1>2. unit'[v] = u
  BY DEF Drop, Shape
<1>3. Has(v, "drop")
  BY <1>2 DEF Has
<1>4. UNCHANGED devvars /\ disk' = disk /\ "drop" \in Outside
  BY DEF Drop, Outside, Labels
<1> QED
  BY <1>1, <1>3, <1>4, SameDisks

(* What follows the last page of a segment map.                            *)
LEMMA EodEndCounts ==
    ASSUME Counts, Shape, NEW v \in Parts, pc[v] \in {"cut", "release"},
           check = NONE, check' = NONE, eod_segments_end(v), UNCHANGED raw
    PROVE  Counts'
<1>1. pc[v] \notin Waiting
  BY DEF Waiting
<1>2. op[v] \in {"tail", "all"} => raw[v] # NONE
  BY DEF Counts, Caller
<1>3. ASSUME NEW o \in {"tail", "all"}, op[v] = o, NEW t, NEW s, eod_segments(v, o, t, s)
      PROVE  Counts'
  BY <1>1, <1>2, <1>3, BeginCounts DEF eod_segments
<1>4. ASSUME op[v] = "all", Begin(v, "all", "DATA", FirstSlot), Continue(v, "unhead")
      PROVE  Counts'
  BY <1>1, <1>2, <1>4, BeginCounts
<1>5. ASSUME End(v) PROVE Counts'
  BY <1>1, <1>5, EndCounts
<1> QED
  BY <1>3, <1>4, <1>5 DEF eod_segments_end

(* The operations that begin.                                              *)
LEMMA StartCounts ==
    ASSUME Counts, Shape, NEW v \in Parts, Start(v)
    PROVE  Counts'
<1> USE DEF Idle
<1>1. CASE tape_partition_new(v)
  BY <1>1, BeginCounts DEF tape_partition_new, Waiting
<1>2. ASSUME NEW t \in Types, tape_partition_alloc_segment(v, t) PROVE Counts'
  <2>1. /\ check = NONE /\ check' = NONE /\ raw' = raw /\ pc[v] \notin Waiting
        /\ pc[v] = "idle"
    BY <1>2 DEF tape_partition_alloc_segment, Waiting
  <2>2. ASSUME NEW s, Begin(v, "alloc", t, s), Continue(v, "get") PROVE Counts'
    BY <2>1, <2>2, BeginCounts
  <2>3. ASSUME UNCHANGED <<bdevvars, op>> PROVE Counts'
    <3>1. GoesOn(v, "idle")
      BY <2>1, <2>3 DEF GoesOn, bdevvars, Counts, Kinds
    <3>2. Has(v, "idle")
      BY DEF Has
    <3>3. UNCHANGED devvars /\ disk' = disk /\ "idle" \in Outside
      BY <2>3 DEF bdevvars, devvars, Outside, Labels
    <3> QED
      BY <2>1, <3>1, <3>2, <3>3, SameDisks
  <2> QED
    BY <1>2, <2>2, <2>3 DEF tape_partition_alloc_segment
<1>3. CASE tape_partition_write_eod(v)
  BY <1>3, BeginCounts DEF tape_partition_write_eod, eod_segments, Waiting
<1>4. CASE tape_partition_free_alloc(v)
  BY <1>4, BeginCounts DEF tape_partition_free_alloc, eod_segments, Waiting
<1> QED
  BY <1>1, <1>2, <1>3, <1>4 DEF Start

-----------------------------------------------------------------------------
(* The steps of an operation that has begun.                               *)
LEMMA SegmentCounts ==
    ASSUME Counts, Shape, NEW v \in Parts, check = NONE,
           \/ tape_add_partition(v) \/ tmap_write(v) \/ NoUnit(v)
           \/ tmap_eod_segments(v) \/ ReleaseSegment(v) \/ Released(v)
           \/ tape_partition_free_tmaps_block(v)
    PROVE  Counts'
<1> USE DEF Waiting
<1>1. CASE tape_add_partition(v)
  <2>1. check' = NONE /\ pc[v] = "got" /\ unit[v] # NONE
    BY <1>1 DEF tape_add_partition, Counts, Caller
  <2>2. ASSUME End(v), raw' = [raw EXCEPT ![v] = unit[v]] \/ raw' = raw PROVE Counts'
    <3>1. \A w \in Parts \ {v} : raw'[w] = raw[w]
      BY <2>2 DEF Shape
    <3> QED
      BY <2>1, <2>2, <3>1, EndCounts
  <2>3. ASSUME Continue(v, "drop"), UNCHANGED <<raw, op>> PROVE Counts'
    BY <2>1, <2>3, ContinueCounts
  <2> QED
    BY <1>1, <2>2, <2>3 DEF tape_add_partition
<1>2. CASE tmap_write(v)
  <2>1. check' = NONE /\ pc[v] = "got" /\ unit[v] # NONE /\ raw' = raw
    BY <1>2 DEF tmap_write, Counts, Caller
  <2>2. ASSUME End(v) PROVE Counts'
    BY <2>1, <2>2, EndCounts
  <2>3. ASSUME Continue(v, "drop"), op' = op PROVE Counts'
    BY <2>1, <2>3, ContinueCounts
  <2> QED
    BY <1>2, <2>2, <2>3 DEF tmap_write
<1>3. CASE NoUnit(v)
  BY <1>3, EndCounts DEF NoUnit
<1>4. CASE tmap_eod_segments(v)
  <2>1. check' = NONE /\ pc[v] = "cut" /\ raw' = raw
    BY <1>4 DEF tmap_eod_segments
  <2>2. ASSUME Continue(v, "release"), op' = op PROVE Counts'
    BY <2>1, <2>2, ContinueCounts
  <2>3. ASSUME eod_segments_end(v) PROVE Counts'
    BY <2>1, <2>3, EodEndCounts
  <2> QED
    BY <1>4, <2>2, <2>3 DEF tmap_eod_segments
<1>5. CASE ReleaseSegment(v)
  <2> DEFINE s == at[v]
             k == <<v, typ[v], s>>
             listed == s \in Slots(typ[v]) /\ tmem[k] # NONE
  <2>1. check' = NONE /\ pc[v] = "release" /\ raw' = raw
    BY <1>5 DEF ReleaseSegment
  <2>2. op[v] \in {"tail", "all"} => raw[v] # NONE
    BY <2>1 DEF Counts, Caller
  <2>3. ASSUME UNCHANGED <<bdevvars, op>> PROVE Counts'
    <3>1. GoesOn(v, "release")
      BY <2>1, <2>3 DEF GoesOn, bdevvars, Counts, Kinds
    <3>2. Has(v, "release")
      BY <2>1, <2>2, <2>3 DEF Has
    <3>3. UNCHANGED devvars /\ disk' = disk /\ "release" \in Outside
      BY <2>3 DEF bdevvars, devvars, Outside, Labels
    <3> QED
      BY <2>1, <3>1, <3>2, <3>3, SameDisks
  <2>4. ASSUME Drop(v, tmem[k]), tmem[k] # NONE, op' = op PROVE Counts'
    BY <2>1, <2>2, <2>4, DropCounts
  <2>5. ASSUME eod_segments(v, op[v], typ[v], <<s[1] + 1, 0>>) PROVE Counts'
    BY <2>1, <2>2, <2>5, BeginCounts DEF eod_segments
  <2>6. ASSUME eod_segments_end(v) PROVE Counts'
    BY <2>1, <2>6, EodEndCounts
  <2> QED
    BY <1>5, <2>3, <2>4, <2>5, <2>6 DEF ReleaseSegment
<1>6. CASE Released(v)
  <2>1. check' = NONE /\ pc[v] = "dropped" /\ raw' = raw
    BY <1>6 DEF Released
  <2>2. ASSUME End(v) PROVE Counts'
    BY <2>1, <2>2, EndCounts
  <2>3. ASSUME Continue(v, "release"), op' = op PROVE Counts'
    BY <2>1, <2>3, ContinueCounts
  <2> QED
    BY <1>6, <2>2, <2>3 DEF Released
<1>7. CASE tape_partition_free_tmaps_block(v)
  <2>1. check' = NONE /\ pc[v] = "unhead" /\ raw[v] # NONE
    BY <1>7 DEF tape_partition_free_tmaps_block, Counts, Caller
  <2>2. Forget(v) => \A w \in Parts \ {v} : raw'[w] = raw[w]
    BY DEF Forget, Shape
  <2>3. ASSUME Forget(v), Begin(v, "gone", "META", FirstSlot), Drop(v, raw[v]) PROVE Counts'
    <3>1. op'[v] = "gone" /\ \A w \in Parts \ {v} : op'[w] = op[w]
      BY <2>3 DEF Begin, Shape
    <3> QED
      BY <2>1, <2>2, <2>3, <3>1, DropCounts
  <2>4. ASSUME Forget(v), End(v) PROVE Counts'
    BY <2>1, <2>2, <2>4, EndCounts
  <2>5. ASSUME NEW l \in {"idle", "dead"}, Begin(v, NONE, "META", FirstSlot),
               Continue(v, l), raw' = raw
        PROVE  Counts'
    BY <2>1, <2>5, BeginCounts
  <2> QED
    BY <1>7, <2>3, <2>4, <2>5 DEF tape_partition_free_tmaps_block
<1> QED
  BY <1>1, <1>2, <1>3, <1>4, <1>5, <1>6, <1>7

-----------------------------------------------------------------------------
(* The steps of bdev_get_block and bdev_release_block.                     *)

(* A disk is chosen, or has to be taken off the list, or there is none.    *)
LEMMA EligibleCounts ==
    ASSUME Counts, Shape, NEW v \in Parts, check = NONE, UNCHANGED segvars, bint_get_eligible(v)
    PROVE  Counts'
<1> USE DEF Counts
<1>1. PICK d : /\ EligibleIs(v, d)
               /\ d = NONE \/ Listed(d)
  <2>1. CASE pc[v] = "eligible" /\ EligibleIs(v, disk[v])
    BY <2>1 DEF Caller
  <2>2. ASSUME EligibleIs(v, IF eligible # NONE THEN eligible
                             ELSE IF alloc_list # <<>> THEN Head(alloc_list) ELSE NONE)
        PROVE  \E d : EligibleIs(v, d) /\ (d = NONE \/ Listed(d))
    <3>1. alloc_list # <<>> => Listed(Head(alloc_list))
      BY SMT DEF Pool, Once, Listed, Contains
    <3>2. eligible # NONE => Listed(eligible)
      BY DEF Pool
    <3> QED
      BY <2>2, <3>1, <3>2
  <2> QED
    BY <2>1, <2>2 DEF bint_get_eligible
<1>2. /\ alloc_lock \in {NONE, v} /\ pc[v] \in {"get", "eligible"}
      /\ UNCHANGED <<alloc_list, bmap, free, unmap_list, bint_lock>>
  BY DEF bint_get_eligible, Caller, diskvars
<1>3. PICK l \in {"none", "lock", "unlist"} :
          /\ pc' = [pc EXCEPT ![v] = l]
          /\ l = "none" => eligible' = NONE /\ alloc_lock' = NONE
          /\ l = "lock" => /\ d \in Disks
                           /\ eligible' = bdev_alloc_list_next_rotate(d)
                           /\ alloc_lock' = NONE
                           /\ disk' = [disk EXCEPT ![v] = d]
          /\ l = "unlist" => /\ d \in Disks /\ free[d] = 0
                             /\ eligible' = eligible /\ alloc_lock' = v
                             /\ disk' = [disk EXCEPT ![v] = d]
  BY <1>1 DEF EligibleIs, Goto, Return
<1>4. disk' = [disk EXCEPT ![v] = NONE] \/ (d \in Disks /\ disk' = [disk EXCEPT ![v] = d])
  BY <1>1 DEF EligibleIs, Return
<1>5. unit' = [unit EXCEPT ![v] = NONE] \/ unit' = unit
  BY <1>1 DEF EligibleIs, Return
<1>6. /\ pc'[v] = l /\ \A w \in Parts \ {v} : pc'[w] = pc[w]
      /\ \A w \in Parts \ {v} : disk'[w] = disk[w] /\ unit'[w] = unit[w]
      /\ pc' \in [Parts -> Labels] /\ disk' \in [Parts -> Disks \cup {NONE}]
  <2>1. pc' \in [Parts -> Labels]
    BY <1>3 DEF Kinds, Labels
  <2>2. disk' \in [Parts -> Disks \cup {NONE}]
    BY <1>4 DEF Kinds
  <2>3. pc'[v] = l /\ \A w \in Parts \ {v} : pc'[w] = pc[w]
    BY <1>3 DEF Kinds
  <2>4. \A w \in Parts \ {v} : disk'[w] = disk[w]
    BY <1>4 DEF Kinds
  <2>5. \A w \in Parts \ {v} : unit'[w] = unit[w]
    BY <1>5 DEF Shape
  <2> QED
    BY <2>1, <2>2, <2>3, <2>4, <2>5
<1>7. Kinds'
  BY <1>2, <1>3, <1>6 DEF Kinds
<1>8. op' = op /\ raw' = raw /\ check' = NONE
  BY DEF segvars
<1>9. \A w \in Parts \ {v} : alloc_lock # w /\ alloc_lock' # w
  BY <1>2, <1>3, NoneAssumption, SMT
<1>10. ASSUME NEW w \in Parts PROVE Caller(w)'
  <2>1. CASE w = v
    <3>1. alloc_lock' = v <=> l = "unlist"
      BY <1>3, NoneAssumption
    <3>2. l \in {"lock", "unlist"} => disk'[v] = d /\ d \in Disks
      BY <1>3 DEF Kinds
    <3>3. l = "unlist" => Contains(alloc_list', disk'[v])
      BY <1>1, <1>2, <1>3, <3>2, NoneAssumption DEF Listed
    <3>4. op[v] \in {"tail", "all"} => raw[v] # NONE
      BY <1>2 DEF Caller
    <3> QED
      BY <1>6, <1>8, <2>1, <3>1, <3>2, <3>3, <3>4 DEF Caller, Listed
  <2>2. CASE w # v
    <3>1. Caller(w) /\ w \in Parts \ {v}
      BY <2>2
    <3> QED
      BY <1>2, <1>6, <1>8, <1>9, <3>1 DEF Caller, Listed
  <2> QED
    BY <2>1, <2>2
<1>11. Pool'
  <2>1. l = "lock" => Listed(bdev_alloc_list_next_rotate(d))
    BY <1>1, <1>3, PositionIs, NoneAssumption DEF Pool, Once
  <2>2. eligible' # NONE => Contains(alloc_list, eligible')
    BY <1>3, <2>1 DEF Pool, Listed
  <2> QED
    BY <1>2, <2>2 DEF Pool, Listed
<1>12. \A e \in Disks : ClearUnits(e)' = ClearUnits(e)
  BY <1>2 DEF ClearUnits
<1>13. \A e : Relisting(e) => Relisting(e)'
  BY <1>2, <1>6 DEF Relisting
<1>14. FreeCovers'
  BY <1>2, <1>12 DEF FreeCovers
<1>15. RoomIsListed'
  BY <1>2, <1>12, <1>13 DEF RoomIsListed, Relisting
<1>16. Emptied'
  <2> SUFFICES ASSUME NEW w \in Parts, pc'[w] = "unlist"
               PROVE  free'[disk'[w]] = 0 \/ Relisting(disk[w])'
    BY DEF Emptied
  <2>1. CASE w = v
    BY <1>2, <1>3, <1>6, <2>1 DEF Kinds
  <2>2. CASE w # v
    <3>1. alloc_lock = w
      BY <1>6, <2>2 DEF Caller
    <3> QED
      BY <1>9, <2>2, <3>1
  <2> QED
    BY <2>1, <2>2
<1>17. Sweep'
  BY <1>8 DEF Sweep
<1> QED
  BY <1>7, <1>10, <1>11, <1>14, <1>15, <1>16, <1>17

(* Only the caller with the pool's lock looks at alloc_list.               *)
LEMMA OthersWait ==
    ASSUME Counts, NEW v, alloc_lock \in {NONE, v}
    PROVE  \A w \in Parts \ {v} : pc[w] \notin {"unlist", "eligible"}
  BY NoneAssumption DEF Counts, Caller

(* A disk is taken off: it has no room, or is about to be put on again.    *)
LEMMA RemoveCounts ==
    ASSUME Counting, Counts, Shape, NEW v \in Parts, check = NONE, UNCHANGED segvars,
           bdev_remove_from_alloc_list(v)
    PROVE  Counts'
<1> USE DEF Counts
<1>1. PICK d : d = disk[v]
  OBVIOUS
<1>2. pc[v] = "unlist" /\ Listed(d) /\ alloc_lock = v
  BY <1>1 DEF bdev_remove_from_alloc_list, Caller
<1>3. Once(alloc_list)
  BY DEF Pool
<1>4. d \in Disks /\ Listed(bdev_alloc_list_next_rotate(d)) /\ bdev_alloc_list_next_rotate(d) \in Disks
  BY <1>2, <1>3, PositionIs DEF Once
<1>5. PICK next : next = bdev_alloc_list_next_rotate(d)
  OBVIOUS
<1>6. /\ alloc_list' = RemoveAt(alloc_list, Position(d))
      /\ eligible' = IF eligible = d THEN NONE ELSE eligible
      /\ disk' = [disk EXCEPT ![v] = IF next = d THEN NONE ELSE next]
      /\ pc' = [pc EXCEPT ![v] = "eligible"]
      /\ UNCHANGED <<alloc_lock, bmap, free, unmap_list, bint_lock, unit>>
  BY <1>1, <1>5 DEF bdev_remove_from_alloc_list, Goto, diskvars
<1>7. Once(alloc_list')
  BY <1>2, <1>3, <1>6, RemovedIs
<1>8. \A e : Contains(alloc_list', e) <=> Listed(e) /\ e # d
  BY <1>2, <1>3, <1>6, RemovedIs
<1>9. /\ pc'[v] = "eligible" /\ \A w \in Parts \ {v} : pc'[w] = pc[w]
      /\ disk'[v] = (IF next = d THEN NONE ELSE next)
      /\ \A w \in Parts \ {v} : disk'[w] = disk[w]
      /\ pc' \in [Parts -> Labels] /\ disk' \in [Parts -> Disks \cup {NONE}]
  <2>1. "eligible" \in Labels
    BY DEF Labels
  <2> QED
    BY <1>4, <1>5, <1>6, <2>1 DEF Kinds
<1>10. Kinds'
  BY <1>6, <1>9 DEF Kinds
<1>11. op' = op /\ raw' = raw /\ check' = NONE
  BY DEF segvars
<1>12. \A w \in Parts \ {v} : pc[w] \notin {"unlist", "eligible"} /\ alloc_lock # w
  BY <1>2, OthersWait, SMT
<1>13. ASSUME NEW w \in Parts PROVE Caller(w)'
  <2>1. CASE w = v
    <3>1. disk'[v] = NONE \/ Contains(alloc_list', disk'[v])
      BY <1>4, <1>5, <1>8, <1>9
    <3>2. op[v] \in {"tail", "all"} => raw[v] # NONE
      BY <1>2 DEF Caller
    <3> QED
      BY <1>2, <1>6, <1>9, <1>11, <2>1, <3>1, <3>2 DEF Caller, Listed
  <2>2. CASE w # v
    <3>1. Caller(w) /\ w \in Parts \ {v}
      BY <2>2
    <3> QED
      BY <1>6, <1>9, <1>11, <1>12, <3>1 DEF Caller
  <2> QED
    BY <2>1, <2>2
<1>14. Pool'
  <2>1. eligible' # NONE => Contains(alloc_list', eligible')
    BY <1>6, <1>8 DEF Pool
  <2> QED
    BY <1>7, <2>1 DEF Pool, Listed
<1>15. \A e \in Disks : ClearUnits(e)' = ClearUnits(e)
  BY <1>6 DEF ClearUnits
<1>16. FreeCovers'
  BY <1>6, <1>15 DEF FreeCovers
<1>17. \A e : Relisting(e) => Relisting(e)'
  BY <1>2, <1>9 DEF Relisting
<1>18. RoomIsListed'
  <2> SUFFICES ASSUME NEW e \in Disks, ClearUnits(e) # {}
               PROVE  Contains(alloc_list', e) \/ Relisting(e)'
    BY <1>15 DEF RoomIsListed, Relisting
  <2>1. CASE e = d
    <3>1. Cardinality(ClearUnits(d)) \in Nat \ {0} /\ free[d] \in Int
      BY <2>1, ClearFacts DEF Kinds
    <3>2. free[d] # 0
      BY <2>1, <3>1, SMT DEF FreeCovers
    <3> QED
      BY <1>1, <1>2, <1>17, <2>1, <3>2 DEF Emptied
  <2>2. CASE e # d
    <3>1. Listed(e) \/ Relisting(e)
      BY DEF RoomIsListed, Listed, Relisting
    <3> QED
      BY <1>8, <1>17, <2>2, <3>1
  <2> QED
    BY <2>1, <2>2
<1>19. Emptied'
  BY <1>9, <1>12 DEF Emptied
<1>20. Sweep'
  BY <1>11 DEF Sweep
<1> QED
  BY <1>10, <1>13, <1>14, <1>16, <1>18, <1>19, <1>20

(* A disk is put on the list, if it is not there.                          *)
LEMMA InsertCounts ==
    ASSUME Counts, Shape, NEW v \in Parts, check = NONE, UNCHANGED segvars,
           bdev_alloc_list_insert(v)
    PROVE  Counts'
<1> USE DEF Counts
<1>1. PICK d : d = disk[v]
  OBVIOUS
<1>2. pc[v] = "relist" /\ alloc_lock = NONE /\ d \in Disks
  BY <1>1 DEF bdev_alloc_list_insert, Caller
<1>3. Once(alloc_list)
  BY DEF Pool
<1>4. /\ alloc_list' = IF Contains(alloc_list, d) THEN alloc_list
                       ELSE Inserted(alloc_list, d, free)
      /\ disk' = [disk EXCEPT ![v] = NONE]
      /\ unit' = [unit EXCEPT ![v] = NONE]
      /\ pc' = [pc EXCEPT ![v] = "dropped"]
      /\ UNCHANGED <<eligible, alloc_lock, bmap, free, unmap_list, bint_lock>>
  BY <1>1 DEF bdev_alloc_list_insert, Return, Goto, diskvars
<1>5. Once(alloc_list')
  BY <1>2, <1>3, <1>4, InsertedIs DEF Once
<1>6. \A e : Contains(alloc_list', e) <=> Listed(e) \/ e = d
  <2>1. CASE Contains(alloc_list, d)
    BY <1>4, <2>1 DEF Listed
  <2>2. CASE ~Contains(alloc_list, d)
    BY <1>2, <1>3, <1>4, <2>2, InsertedIs DEF Once, Listed
  <2> QED
    BY <2>1, <2>2
<1>7. /\ pc'[v] = "dropped" /\ \A w \in Parts \ {v} : pc'[w] = pc[w]
      /\ \A w \in Parts \ {v} : disk'[w] = disk[w] /\ unit'[w] = unit[w]
      /\ pc' \in [Parts -> Labels] /\ disk' \in [Parts -> Disks \cup {NONE}]
  <2>1. "dropped" \in Labels
    BY DEF Labels
  <2> QED
    BY <1>4, <2>1 DEF Kinds, Shape
<1>8. Kinds'
  BY <1>4, <1>7 DEF Kinds
<1>9. op' = op /\ raw' = raw /\ check' = NONE
  BY DEF segvars
<1>10. \A w \in Parts : pc[w] \notin {"unlist", "eligible"} /\ alloc_lock # w
  BY <1>2, OthersWait, NoneAssumption
<1>11. ASSUME NEW w \in Parts PROVE Caller(w)'
  <2>1. CASE w = v
    <3>1. op[v] \in {"tail", "all"} => raw[v] # NONE
      BY <1>2 DEF Caller
    <3> QED
      BY <1>4, <1>7, <1>9, <1>10, <2>1, <3>1 DEF Caller
  <2>2. CASE w # v
    <3>1. Caller(w) /\ w \in Parts \ {v}
      BY <2>2
    <3> QED
      BY <1>4, <1>7, <1>9, <1>10, <3>1 DEF Caller
  <2> QED
    BY <2>1, <2>2
<1>12. Pool'
  <2>1. eligible' # NONE => Contains(alloc_list', eligible')
    BY <1>4, <1>6 DEF Pool
  <2> QED
    BY <1>5, <2>1 DEF Pool, Listed
<1>13. \A e \in Disks : ClearUnits(e)' = ClearUnits(e)
  BY <1>4 DEF ClearUnits
<1>14. FreeCovers'
  BY <1>4, <1>13 DEF FreeCovers
<1>15. \A e : Relisting(e) => Relisting(e)' \/ e = d
  BY <1>1, <1>7 DEF Relisting
<1>16. RoomIsListed'
  <2> SUFFICES ASSUME NEW e \in Disks, ClearUnits(e) # {}
               PROVE  Contains(alloc_list', e) \/ Relisting(e)'
    BY <1>13 DEF RoomIsListed, Relisting
  <2>1. Listed(e) \/ Relisting(e)
    BY DEF RoomIsListed, Listed, Relisting
  <2> QED
    BY <1>6, <1>15, <2>1
<1>17. Emptied'
  BY <1>7, <1>10 DEF Emptied
<1>18. Sweep'
  BY <1>9 DEF Sweep
<1> QED
  BY <1>8, <1>11, <1>12, <1>14, <1>16, <1>17, <1>18

(* A disk is searched, and nothing of it but its lock changes.             *)
LEMMA SearchCounts ==
    ASSUME Counts, Shape, NEW v \in Parts, check = NONE, UNCHANGED segvars,
           pc[v] \in {"lock", "scan", "wait"}, NEW l \in {"scan", "wait", "none"},
           pc' = [pc EXCEPT ![v] = l], UNCHANGED <<poolvars, diskvars>>,
           bint_lock' \in [Disks -> Parts \cup {NONE}],
           \/ UNCHANGED <<disk, unit>>
           \/ /\ l = "none"
              /\ disk' = [disk EXCEPT ![v] = NONE] /\ unit' = [unit EXCEPT ![v] = NONE]
    PROVE  Counts'
<1>1. UNCHANGED <<bmap, free, unmap_list, alloc_lock>>
  BY DEF diskvars, poolvars
<1>2. disk' \in [Parts -> Disks \cup {NONE}] /\ pc' \in [Parts -> Labels] /\ l \in Labels
  BY DEF Counts, Kinds, Labels
<1>3. Kinds'
  BY <1>1, <1>2 DEF Counts, Kinds
<1>4. GoesOn(v, l)
  BY DEF GoesOn, segvars, Counts, Kinds, Shape
<1>5. Has(v, l)
  BY DEF Has, segvars, Counts, Caller
<1>6. \A d \in Disks : ClearUnits(d)' = ClearUnits(d)
  BY <1>1 DEF ClearUnits
<1>7. FreeCovers'
  BY <1>1, <1>6 DEF Counts, FreeCovers
<1> QED
  BY <1>1, <1>2, <1>3, <1>4, <1>5, <1>6, <1>7, SamePool, SMT

(* A clear bit is taken if it is a unit.                                   *)
LEMMA TakeKeepsCounts ==
    ASSUME Counting, Counts, Shape, NEW v \in Parts, check = NONE, UNCHANGED segvars,
           pc[v] \in {"scan", "wait"}, NEW u \in Clear(v), Take(v, u)
    PROVE  Counts'
<1>1. PICK d \in Disks : d = disk[v]
  BY DEF Counts, Caller
<1>2. u[1] = d /\ u \notin bmap
  BY <1>1 DEF Clear, Index
<1>3. CASE NextIndex(v)
  BY <1>3, SearchCounts DEF NextIndex, Goto, Counts, Kinds
<1>4. CASE /\ u \in Units
           /\ bmap' = bmap \cup {u}
           /\ free' = [free EXCEPT ![disk[v]] = @ - 1]
           /\ bint_lock' = [bint_lock EXCEPT ![disk[v]] = NONE]
           /\ Return(v, "got", u)
           /\ UNCHANGED <<poolvars, unmap_list>>
  <2>1. /\ free' \in [Disks -> Int] /\ FreeCovers'
        /\ free[d] # 0
        /\ \A e \in Disks : ClearUnits(e)' \subseteq ClearUnits(e)
        /\ \A e \in Disks : e # d => free'[e] = free[e]
    BY <1>1, <1>2, <1>4, TakeCounts DEF Counts, Kinds
  <2>2. /\ pc' = [pc EXCEPT ![v] = "got"] /\ disk' = [disk EXCEPT ![v] = NONE]
        /\ unit' = [unit EXCEPT ![v] = u]
    BY <1>4 DEF Return, Goto
  <2>3. GoesOn(v, "got")
    BY <2>2 DEF GoesOn, segvars, Counts, Kinds, Shape
  <2>4. unit'[v] # NONE
    BY <1>4, <2>2, NoneAssumption DEF Shape
  <2>5. Has(v, "got")
    BY <2>4 DEF Has, segvars, Counts, Caller
  <2>6. "got" \in Labels \ {"unlist", "eligible"}
    BY DEF Labels
  <2>7. Kinds'
    BY <1>4, <2>1, <2>2, <2>6 DEF Counts, Kinds, poolvars
  <2> QED
    BY <1>4, <2>1, <2>3, <2>5, <2>6, <2>7, SamePool
<1> QED
  BY <1>3, <1>4 DEF Take

(* A unit is released; its disk is then put on the list.                   *)
LEMMA ReleaseKeepsCounts ==
    ASSUME Counting, Counts, Owned, NEW v \in Parts, check = NONE, UNCHANGED segvars,
           bint_release_block(v)
    PROVE  Counts'
<1>1. PICK u : u = unit[v]
  OBVIOUS
<1>2. pc[v] = "drop" /\ u \in Units /\ u \in bmap
  BY <1>1 DEF bint_release_block, Counts, Caller, Owned, Shape, Marked
<1>3. PICK d \in Disks : d = u[1]
  BY <1>2, UnitFacts
<1>4. /\ disk' = [disk EXCEPT ![v] = d]
      /\ unit' = [unit EXCEPT ![v] = NONE]
      /\ pc' = [pc EXCEPT ![v] = "relist"]
      /\ bmap' \in {bmap \ {u}} \cup {bmap : w \in Failing \cap {"release"}}
      /\ free' = [free EXCEPT ![u[1]] = @ + 1]
      /\ unmap_list' \in {unmap_list} \cup {unmap_list \cup ({u} \cap bmap)}
      /\ UNCHANGED <<poolvars, bint_lock>>
  BY <1>1, <1>2, <1>3 DEF bint_release_block, Goto
<1>5. /\ free' \in [Disks -> Int] /\ FreeCovers'
      /\ \A e \in Disks : e # d => ClearUnits(e)' = ClearUnits(e) /\ free'[e] = free[e]
  BY <1>2, <1>3, <1>4, ReleaseCounts DEF Counts, Kinds
<1>6. unmap_list' \subseteq Units
  BY <1>2, <1>4 DEF Counts, Kinds
<1>7. "relist" \in Labels \ {"unlist", "eligible"}
  BY DEF Labels
<1>8. Kinds'
  BY <1>4, <1>5, <1>6, <1>7 DEF Counts, Kinds, poolvars
<1>9. GoesOn(v, "relist")
  BY <1>4 DEF GoesOn, segvars, Counts, Kinds, Owned, Shape
<1>10. disk'[v] = d
  BY <1>4 DEF Counts, Kinds
<1>11. Has(v, "relist")
  BY <1>2, <1>10 DEF Has, segvars, Counts, Caller
<1>12. ASSUME NEW e \in Disks
       PROVE  \/ /\ ClearUnits(e)' \subseteq ClearUnits(e)
                 /\ free[e] = 0 => free'[e] = 0
              \/ "relist" = "relist" /\ disk'[v] = e
  <2>1. CASE e = d
    BY <1>10, <2>1
  <2>2. CASE e # d
    <3>1. ClearUnits(e)' = ClearUnits(e) /\ free'[e] = free[e]
      BY <1>5, <2>2
    <3> QED
      BY <3>1
  <2> QED
    BY <2>1, <2>2
<1>13. pc[v] \notin {"unlist", "eligible", "relist"} /\ UNCHANGED poolvars
  BY <1>2, <1>4
<1> QED
  BY <1>5, <1>7, <1>8, <1>9, <1>11, <1>12, <1>13, SamePool

(* The steps of BlockDevice keep the invariant.                            *)
LEMMA BlockDeviceCounts ==
    ASSUME Counting, Counts, Owned, NEW v \in Parts, check = NONE,
           UNCHANGED segvars, BlockDeviceStep(v)
    PROVE  Counts'
<1> USE DEF Owned
<1>1. CASE bint_get_block_lock(v)
  <2>1. bint_lock' \in [Disks -> Parts \cup {NONE}]
    BY <1>1 DEF bint_get_block_lock, Counts, Kinds
  <2> QED
    BY <1>1, <2>1, SearchCounts DEF bint_get_block_lock, Goto
<1>2. CASE bint_get_block(v)
  <2>1. ASSUME Goto(v, "wait"), UNCHANGED <<poolvars, diskvars, bint_lock, disk, unit>>
        PROVE  Counts'
    BY <1>2, <2>1, SearchCounts DEF bint_get_block, Goto, Counts, Kinds
  <2>2. ASSUME NextIndex(v) PROVE Counts'
    BY <1>2, <2>2, SearchCounts DEF bint_get_block, NextIndex, Goto, Counts, Kinds
  <2>3. ASSUME NEW u \in Clear(v), Take(v, u) PROVE Counts'
    BY <1>2, <2>3, TakeKeepsCounts DEF bint_get_block
  <2> QED
    BY <1>2, <2>1, <2>2, <2>3 DEF bint_get_block
<1>3. CASE bint_index_unmap_done(v)
  BY <1>3, TakeKeepsCounts DEF bint_index_unmap_done
<1>4. CASE bint_get_block_fails(v)
  <2>1. bint_lock' \in [Disks -> Parts \cup {NONE}]
    BY <1>4 DEF bint_get_block_fails, Counts, Kinds
  <2> QED
    BY <1>4, <2>1, SearchCounts DEF bint_get_block_fails, Return, Goto
<1> QED
  BY <1>1, <1>2, <1>3, <1>4, EligibleCounts, RemoveCounts, InsertCounts, ReleaseKeepsCounts
     DEF BlockDeviceStep

-----------------------------------------------------------------------------
(* Loading the disks makes the invariant true,                             *)
LEMMA RestartCounts ==
    ASSUME Counting, Shape, NEW checked \in BOOLEAN, Restart(checked)
    PROVE  Counts'
<1> PICK counts : counts = bint_load(bmap)
  OBVIOUS
<1>1. /\ free' = counts /\ alloc_list' = bdev_add_new(counts)
      /\ eligible' = NONE /\ alloc_lock' = NONE /\ bint_lock' = [d \in Disks |-> NONE]
      /\ unmap_list' = {} /\ pc' = [v \in Parts |-> "idle"]
      /\ disk' = [v \in Parts |-> NONE] /\ bmap' = bmap
      /\ UNCHANGED <<raw, tmap>>
      /\ check' = IF checked /\ Disks # {} THEN <<1, 0>> ELSE NONE
  BY DEF Restart, Reload
<1>2. /\ counts \in [Disks -> Int]
      /\ \A d \in Disks : counts[d] = Cardinality(DiskUnits(d) \ bmap)
  BY LoadCounts
<1>3. Once(alloc_list') /\ \A d \in Disks : Contains(alloc_list', d)
  BY <1>1, AddNewIs
<1>4. Kinds'
  BY <1>1, <1>2 DEF Kinds, Labels
<1>5. ASSUME NEW v \in Parts PROVE Caller(v)'
  BY <1>1, NoneAssumption DEF Caller
<1>6. Pool'
  BY <1>1, <1>3 DEF Pool
<1>7. \A d \in Disks : ClearUnits(d)' = DiskUnits(d) \ bmap
  BY <1>1 DEF ClearUnits, DiskUnits
<1>8. ASSUME NEW d \in Disks
      PROVE  free'[d] = Cardinality(ClearUnits(d)') /\ free'[d] \in Int
  BY <1>1, <1>2, <1>7
<1>9. FreeCovers'
  BY <1>8, SMT DEF FreeCovers
<1>10. RoomIsListed'
  BY <1>3 DEF RoomIsListed
<1>11. Emptied'
  BY <1>1 DEF Emptied
<1>12. Sweep'
  <2> SUFFICES ASSUME check' # NONE PROVE Sweep'
    BY DEF Sweep
  <2>1. check' = <<1, 0>> /\ Disks # {}
    BY <1>1
  <2>2. Disks = 1..Len(usize) /\ Len(usize) \in Nat
    BY DisksAssumption, SMT DEF Disks
  <2>3. check' \in Disks \X Nat
    BY <2>1, <2>2, SMT
  <2>4. ASSUME NEW u \in bmap PROVE ~(u[1] < 1 \/ (u[1] = 1 /\ u[2] <= 0 * UNITS_PER_INDEX))
    <3>1. u[1] \in Nat /\ u[1] > 0 /\ u[2] \in Nat /\ u[2] > 0
      BY <2>2, UnitFacts, SMT DEF Shape
    <3>2. 0 * UNITS_PER_INDEX = 0
      BY DisksAssumption, SMT
    <3> QED
      BY <3>1, <3>2, SMT
  <2>5. \A u \in bmap' : ~Passed(u)'
    BY <1>1, <2>1, <2>4, SMT DEF Passed
  <2> QED
    BY <1>3, <2>3, <2>5 DEF Sweep, Listed
<1> QED
  BY <1>4, <1>5, <1>6, <1>9, <1>10, <1>11, <1>12 DEF Counts

(* also in the beginning.                                                  *)
LEMMA InitCounts == ASSUME Counting, Init PROVE Counts
<1> PICK counts : counts = bint_load({})
  OBVIOUS
<1>1. /\ free = counts /\ alloc_list = bdev_add_new(counts)
      /\ eligible = NONE /\ alloc_lock = NONE /\ bint_lock = [d \in Disks |-> NONE]
      /\ unmap_list = {} /\ pc = [v \in Parts |-> "idle"]
      /\ disk = [v \in Parts |-> NONE] /\ bmap = {} /\ check = NONE
  BY DEF Init, BlockDeviceInit
<1>2. /\ counts \in [Disks -> Int]
      /\ \A d \in Disks : counts[d] = Cardinality(DiskUnits(d) \ bmap)
  BY <1>1, LoadCounts
<1>3. Once(alloc_list) /\ \A d \in Disks : Contains(alloc_list, d)
  BY <1>1, AddNewIs
<1>4. Kinds
  BY <1>1, <1>2 DEF Kinds, Labels
<1>5. ASSUME NEW v \in Parts PROVE Caller(v)
  BY <1>1, NoneAssumption DEF Caller
<1>6. Pool
  BY <1>1, <1>3 DEF Pool
<1>7. ASSUME NEW d \in Disks
      PROVE  free[d] = Cardinality(ClearUnits(d)) /\ free[d] \in Int
  BY <1>1, <1>2, UnitFacts
<1>8. FreeCovers
  BY <1>7, SMT DEF FreeCovers
<1>9. RoomIsListed
  BY <1>3 DEF RoomIsListed
<1>10. Emptied
  BY <1>1 DEF Emptied
<1>11. Sweep
  BY <1>1 DEF Sweep
<1> QED
  BY <1>4, <1>5, <1>6, <1>8, <1>9, <1>10, <1>11 DEF Counts

(* An UNMAP that ends, or nothing at all, changes little.                  *)
LEMMA QuietCounts ==
    ASSUME Counts, unmap_list' \subseteq unmap_list,
           UNCHANGED <<poolvars, bmap, free, bint_lock, pc, disk, unit, segvars>>
    PROVE  Counts'
<1> USE DEF Counts
<1>1. UNCHANGED <<alloc_list, eligible, alloc_lock, raw, tmap, op, check>>
  BY DEF poolvars, segvars
<1>2. Kinds'
  BY <1>1 DEF Kinds
<1>3. \A v \in Parts : Caller(v)'
  BY <1>1 DEF Caller, Listed
<1>4. Pool'
  BY <1>1 DEF Pool, Listed
<1>5. \A d \in Disks : ClearUnits(d)' = ClearUnits(d)
  BY DEF ClearUnits
<1>6. FreeCovers' /\ RoomIsListed'
  BY <1>1, <1>5 DEF FreeCovers, RoomIsListed
<1>7. Emptied'
  BY DEF Emptied, Relisting
<1>8. Sweep'
  BY <1>1, SMT DEF Sweep, Listed, Passed, tape_check_block
<1> QED
  BY <1>2, <1>3, <1>4, <1>6, <1>7, <1>8

(* Every step keeps the invariant.                                         *)
LEMMA NextCounts == ASSUME Counting, IInv, Counts, [Next]_vars PROVE Counts'
<1>1. Owned /\ Shape /\ Checking
  BY DEF IInv, Owned
<1>2. ASSUME NEW v \in Parts, Step(v) PROVE Counts'
  <2>1. pc[v] # "idle"
    BY <1>2 DEF Step, BlockDeviceStep, bint_get_eligible, bdev_remove_from_alloc_list,
           bint_get_block_lock, bint_get_block, bint_index_unmap_done, bint_get_block_fails,
           bint_release_block, bdev_alloc_list_insert, tape_add_partition, tmap_write, NoUnit,
           tmap_eod_segments, ReleaseSegment, Released, tape_partition_free_tmaps_block
  <2>2. check = NONE
    BY <1>1, <2>1 DEF Checking
  <2>3. ASSUME BlockDeviceStep(v), UNCHANGED segvars PROVE Counts'
    BY <1>1, <2>2, <2>3, BlockDeviceCounts
  <2>4. ASSUME \/ tape_add_partition(v) \/ tmap_write(v) \/ NoUnit(v)
               \/ tmap_eod_segments(v) \/ ReleaseSegment(v) \/ Released(v)
               \/ tape_partition_free_tmaps_block(v)
        PROVE  Counts'
    BY <1>1, <2>2, <2>4, SegmentCounts
  <2> QED
    BY <1>2, <2>3, <2>4 DEF Step
<1>3. ASSUME NEW v \in Parts, Start(v) PROVE Counts'
  BY <1>1, <1>3, StartCounts
<1>4. CASE UnmapEnds
  BY <1>4, QuietCounts DEF UnmapEnds, bio_unmap_end_bio
<1>5. CASE UNCHANGED vars
  BY <1>5, QuietCounts DEF vars, bdevvars, diskvars
<1>6. ASSUME NEW checked \in BOOLEAN, Restart(checked) PROVE Counts'
  BY <1>1, <1>6, RestartCounts
<1>7. CASE bint_index_check
  BY <1>7, CheckKeepsCounts
<1> QED
  BY <1>2, <1>3, <1>4, <1>5, <1>6, <1>7 DEF Next

===============================================================================
