------------------------------ MODULE DataLemmas ------------------------------
(***************************************************************************)
(* Facts about loops, lists and finite sets that the proofs share.         *)
(* Induction is stated with a set in place of a predicate.                 *)
(***************************************************************************)
EXTENDS Integers, FiniteSets, Lists, WellFoundedInduction, TLAPS

-----------------------------------------------------------------------------
(* Induction and loops.                                                    *)

(* A nonempty set of naturals has a least element.                         *)
LEMMA LeastElement ==
    ASSUME NEW S \in SUBSET Nat, S # {}
    PROVE  \E m \in S : \A n \in S : m <= n
<1>1. PICK m \in S : \A n \in S : ~(<<n, m>> \in OpToRel(<, Nat))
  BY NatLessThanWellFounded, WFMin, Zenon
<1>2. \A n \in S : ~(n < m)
  BY <1>1, Zenon DEF OpToRel
<1> QED
  BY <1>2

(* A set that holds 0, and the successor of each natural it holds, holds   *)
(* every natural.                                                          *)
LEMMA InductionOnSet ==
    ASSUME NEW P, 0 \in P, \A n \in Nat : n \in P => n + 1 \in P
    PROVE  \A n \in Nat : n \in P
<1> DEFINE Q == {n \in Nat : n \notin P}
<1>1. CASE Q = {}
  BY <1>1
<1>2. CASE Q # {}
  <2>1. PICK m \in Q : \A n \in Q : m <= n
    BY <1>2, LeastElement, Zenon
  <2>2. m \in Nat /\ m # 0 /\ m - 1 \in Nat
    BY <2>1
  <2>3. m - 1 \in P
    BY <2>1, <2>2
  <2>4. (m - 1) + 1 \in P
    BY <2>2, <2>3
  <2> QED
    BY <2>1, <2>2, <2>4
<1> QED
  BY <1>1, <1>2

(* The same for the naturals up to N.                                      *)
LEMMA InductionUpTo ==
    ASSUME NEW N \in Nat, NEW P, 0 \in P, \A n \in 1..N : n - 1 \in P => n \in P
    PROVE  \A n \in 0..N : n \in P
<1> DEFINE Q == {n \in Nat : n <= N => n \in P}
<1>1. 0 \in Q
  OBVIOUS
<1>2. ASSUME NEW n \in Nat, n \in Q PROVE n + 1 \in Q
  <2> SUFFICES ASSUME n + 1 <= N PROVE n + 1 \in P
    OBVIOUS
  <2>1. n + 1 \in 1..N /\ (n + 1) - 1 = n /\ n <= N
    OBVIOUS
  <2> QED
    BY <1>2, <2>1
<1>3. \A n \in Nat : n \in Q
  <2> HIDE DEF Q
  <2> QED
    BY <1>1, <1>2, InductionOnSet
<1> QED
  BY <1>3

(***************************************************************************)
(* A loop of N turns that begins with base and whose turn i takes state s  *)
(* to step[s, i] has a state after each turn.                              *)
(***************************************************************************)
IsLoop(f, base, N, step) ==
    f = [n \in 0..N |-> IF n = 0 THEN base ELSE step[f[n - 1], n]]

LEMMA LoopExists ==
    ASSUME NEW S, NEW base \in S, NEW N \in Nat, NEW step \in [S \X (1..N) -> S]
    PROVE  \E f \in [0..N -> S] : IsLoop(f, base, N, step)
<1> DEFINE Turns(h, k) == /\ h[0] = base
                          /\ \A n \in 1..k : h[n] = step[h[n - 1], n]
           P == {k \in Nat : k <= N => \E h \in [0..k -> S] : Turns(h, k)}
<1>1. 0 \in P
  <2> DEFINE g == [n \in 0..0 |-> base]
  <2>1. g \in [0..0 -> S] /\ Turns(g, 0)
    OBVIOUS
  <2> QED
    BY <2>1, Zenon
<1>2. ASSUME NEW k \in Nat, k \in P
      PROVE  k + 1 \in P
  <2>0. k + 1 \in Nat
    OBVIOUS
  <2> SUFFICES ASSUME k + 1 <= N PROVE \E h \in [0..(k + 1) -> S] : Turns(h, k + 1)
    BY <2>0, Zenon
  <2>1. k <= N
    OBVIOUS
  <2>2. PICK f \in [0..k -> S] : Turns(f, k)
    BY <1>2, <2>1, Zenon
  <2> DEFINE g == [n \in 0..(k + 1) |-> IF n = k + 1 THEN step[f[k], k + 1] ELSE f[n]]
  <2>3. f[k] \in S /\ k + 1 \in 1..N
    BY <2>1
  <2>4. step[f[k], k + 1] \in S
    BY <2>3, Zenon
  <2>5. g \in [0..(k + 1) -> S]
    <3>1. \A n \in 0..(k + 1) : n = k + 1 \/ n \in 0..k
      OBVIOUS
    <3>2. \A n \in 0..(k + 1) : g[n] \in S
      BY <2>4, <3>1, Zenon
    <3> QED
      BY <3>2, Zenon
  <2>6. Turns(g, k + 1)
    <3>1. /\ \A n \in 0..k : g[n] = f[n]
          /\ g[k + 1] = step[f[k], k + 1]
      <4>1. /\ \A n \in 0..k : n \in 0..(k + 1) /\ n # k + 1
            /\ k + 1 \in 0..(k + 1)
        OBVIOUS
      <4> QED
        BY <4>1, Zenon
    <3>2. \A n \in 1..(k + 1) : n = k + 1 \/ n \in 1..k
      OBVIOUS
    <3>3. \A n \in 1..(k + 1) : n - 1 \in 0..k /\ (n \in 1..k => n \in 0..k)
      OBVIOUS
    <3>4. 0 \in 0..k /\ (k + 1) - 1 = k /\ k + 1 \in 1..(k + 1)
      OBVIOUS
    <3> HIDE DEF g
    <3> QED
      BY <2>2, <3>1, <3>2, <3>3, <3>4, Zenon
  <2> HIDE DEF g
  <2> QED
    BY <2>5, <2>6, Zenon
<1>3. N \in P
  <2> HIDE DEF P
  <2> QED
    BY <1>1, <1>2, InductionOnSet
<1>4. PICK f \in [0..N -> S] : Turns(f, N)
  <2>1. N <= N
    OBVIOUS
  <2> QED
    BY <1>3, <2>1, Zenon
<1>5. f = [n \in 0..N |-> IF n = 0 THEN base ELSE step[f[n - 1], n]]
  <2>1. \A n \in 0..N : n = 0 \/ n \in 1..N
    OBVIOUS
  <2>2. \A n \in 0..N : f[n] = IF n = 0 THEN base ELSE step[f[n - 1], n]
    BY <1>4, <2>1, Zenon
  <2> QED
    BY <2>2, Zenon
<1> QED
  BY <1>5, Zenon DEF IsLoop

-----------------------------------------------------------------------------
(* The list operations that the TAILQ macros of the code stand for.        *)

(* TAILQ_INSERT_TAIL: the new element is last and the others keep their    *)
(* places; without a duplicate the list stays duplicate-free.              *)
LEMMA AppendFacts ==
    ASSUME NEW S, NEW s \in Seq(S), NEW e \in S
    PROVE  /\ Append(s, e) \in Seq(S)
           /\ DOMAIN Append(s, e) = 1 .. Len(s) + 1
           /\ \A i \in 1 .. Len(s) : Append(s, e)[i] = s[i]
           /\ Append(s, e)[Len(s) + 1] = e
           /\ Range(Append(s, e)) = Range(s) \cup {e}
           /\ IsInjective(s) /\ e \notin Range(s) => IsInjective(Append(s, e))
  <1> DEFINE a == Append(s, e)
  <1>1. /\ a \in Seq(S) /\ Len(a) = Len(s) + 1
        /\ DOMAIN a = 1 .. Len(s) + 1 /\ DOMAIN s = 1 .. Len(s)
        /\ Len(s) \in Nat
        /\ \A i \in 1 .. Len(s) : a[i] = s[i]
        /\ a[Len(s) + 1] = e
    OBVIOUS
  <1> HIDE DEF a
  <1>2. Range(a) = Range(s) \cup {e}
    <2>1. ASSUME NEW x \in Range(a) PROVE x \in Range(s) \cup {e}
      BY <1>1 DEF Range
    <2>2. ASSUME NEW x \in Range(s) PROVE x \in Range(a)
      <3>1. PICK i \in 1 .. Len(s) : x = s[i]
        BY <1>1 DEF Range
      <3>2. i \in DOMAIN a /\ a[i] = x
        BY <1>1, <3>1
      <3> QED BY <3>2 DEF Range
    <2>3. e \in Range(a)
      <3>1. Len(s) + 1 \in DOMAIN a
        BY <1>1
      <3> QED BY <1>1, <3>1 DEF Range
    <2> QED BY <2>1, <2>2, <2>3
  <1>3. IsInjective(s) /\ e \notin Range(s) => IsInjective(a)
    BY <1>1 DEF Range, IsInjective
  <1> QED BY <1>1, <1>2, <1>3 DEF a

(* An element inserted at place k of a duplicate-free list: the ones from  *)
(* there on move down and nothing else changes.                            *)
LEMMA InsertAtFacts ==
    ASSUME NEW S, NEW s \in Seq(S), NEW k \in 1 .. Len(s) + 1, NEW e \in S
    PROVE  /\ InsertAt(s, k, e) \in Seq(S)
           /\ DOMAIN InsertAt(s, k, e) = 1 .. Len(s) + 1
           /\ \A i \in 1 .. Len(s) + 1 :
                 InsertAt(s, k, e)[i] = IF i < k THEN s[i] ELSE IF i = k THEN e ELSE s[i - 1]
           /\ Range(InsertAt(s, k, e)) = Range(s) \cup {e}
           /\ IsInjective(s) /\ e \notin Range(s) => IsInjective(InsertAt(s, k, e))
  <1> DEFINE n == Len(s)
             f == SubSeq(s, 1, k - 1)
             g == SubSeq(s, k, n)
             h == f \o <<e>>
             r == h \o g
  <1>1. n \in Nat /\ DOMAIN s = 1 .. n
    OBVIOUS
  <1>2. /\ f \in Seq(S) /\ Len(f) = k - 1
        /\ \A i \in 1 .. k - 1 : f[i] = s[i]
    OBVIOUS
  <1>3. /\ g \in Seq(S) /\ Len(g) = n - k + 1
        /\ \A i \in 1 .. n - k + 1 : g[i] = s[k + i - 1]
    OBVIOUS
  <1> HIDE DEF f, g, n
  <1>4. /\ h \in Seq(S) /\ Len(h) = k
        /\ \A i \in 1 .. k : h[i] = IF i < k THEN s[i] ELSE e
    BY <1>1, <1>2 DEF n
  <1> HIDE DEF h
  <1>5. /\ r \in Seq(S) /\ Len(r) = n + 1
        /\ \A i \in 1 .. n + 1 : r[i] = IF i <= k THEN h[i] ELSE g[i - k]
    <2>1. Len(h) + Len(g) = n + 1
      BY <1>1, <1>3, <1>4 DEF n
    <2>2. r \in Seq(S) /\ Len(r) = Len(h) + Len(g)
      <3>1. h \in Seq(S) /\ g \in Seq(S)
        BY <1>3, <1>4
      <3> QED BY <3>1
    <2>3. \A i \in 1 .. Len(h) + Len(g) : r[i] = IF i <= Len(h) THEN h[i] ELSE g[i - Len(h)]
      BY <1>3, <1>4
    <2> HIDE DEF r
    <2> QED BY <1>4, <2>1, <2>2, <2>3
  <1> HIDE DEF r
  <1>6. \A i \in 1 .. n + 1 : r[i] = IF i < k THEN s[i] ELSE IF i = k THEN e ELSE s[i - 1]
    <2> SUFFICES ASSUME NEW i \in 1 .. n + 1
                 PROVE  r[i] = IF i < k THEN s[i] ELSE IF i = k THEN e ELSE s[i - 1]
      OBVIOUS
    <2>0. k \in 1 .. n + 1
      BY <1>1 DEF n
    <2>1. CASE i <= k
      BY <1>1, <1>4, <1>5, <2>0, <2>1
    <2>2. CASE i > k
      <3>1. i - k \in 1 .. n - k + 1 /\ k + (i - k) - 1 = i - 1
        BY <1>1, <2>0, <2>2
      <3>2. g[i - k] = s[i - 1]
        BY <1>3, <3>1
      <3> QED BY <1>1, <1>5, <2>0, <2>2, <3>2
    <2> QED BY <1>1, <2>0, <2>1, <2>2
  <1>7. k \in 1 .. n + 1 /\ DOMAIN r = 1 .. n + 1
    BY <1>1, <1>5 DEF n
  <1> DEFINE old(i) == IF i < k THEN i ELSE i - 1
  <1>8. \A i \in 1 .. n + 1 : i # k => old(i) \in 1 .. n /\ r[i] = s[old(i)]
    BY <1>1, <1>6, <1>7
  <1>9. r[k] = e
    BY <1>1, <1>6, <1>7
  <1>10. Range(r) = Range(s) \cup {e}
    <2>1. ASSUME NEW x \in Range(r) PROVE x \in Range(s) \cup {e}
      <3>1. PICK i \in 1 .. n + 1 : x = r[i]
        BY <1>7 DEF Range
      <3> QED BY <1>1, <1>8, <1>9, <3>1, Zenon DEF Range
    <2>2. ASSUME NEW x \in Range(s) PROVE x \in Range(r)
      <3>1. PICK j \in 1 .. n : x = s[j]
        BY <1>1 DEF Range
      <3>2. CASE j < k
        <4>1. j \in DOMAIN r /\ r[j] = x
          BY <1>1, <1>6, <1>7, <3>1, <3>2
        <4> QED BY <4>1 DEF Range
      <3>3. CASE ~(j < k)
        <4>1. j + 1 \in DOMAIN r /\ r[j + 1] = x
          BY <1>1, <1>6, <1>7, <3>1, <3>3
        <4> QED BY <4>1 DEF Range
      <3> QED BY <3>2, <3>3
    <2>3. e \in Range(r)
      BY <1>7, <1>9 DEF Range
    <2> QED BY <2>1, <2>2, <2>3
  <1>11. ASSUME IsInjective(s), e \notin Range(s) PROVE IsInjective(r)
    <2> SUFFICES ASSUME NEW a \in 1 .. n + 1, NEW b \in 1 .. n + 1, r[a] = r[b]
                 PROVE  a = b
      BY <1>7 DEF IsInjective
    <2>1. \A i \in 1 .. n + 1 : i # k => r[i] # e
      BY <1>1, <1>8, <1>11, Zenon DEF Range
    <2>2. a = k <=> b = k
      BY <1>9, <2>1
    <2>3. a # k /\ b # k => old(a) = old(b)
      BY <1>1, <1>8, <1>11, Zenon DEF IsInjective
    <2> QED BY <1>1, <1>7, <2>2, <2>3
  <1> QED BY <1>5, <1>6, <1>7, <1>10, <1>11, Zenon DEF r, h, f, g, n, InsertAt

(* A part of a list, and two lists put together.                           *)
LEMMA SubSeqFacts ==
    ASSUME NEW S, NEW s \in Seq(S), NEW m \in 1 .. Len(s) + 1, NEW n \in 0 .. Len(s), m <= n + 1
    PROVE  /\ SubSeq(s, m, n) \in Seq(S)
           /\ Len(SubSeq(s, m, n)) = n - m + 1
           /\ \A i \in 1 .. n - m + 1 : SubSeq(s, m, n)[i] = s[m + i - 1]
  <1>1. SubSeq(s, m, n) \in Seq(S)
    OBVIOUS
  <1>2. Len(SubSeq(s, m, n)) = n - m + 1
    OBVIOUS
  <1>3. \A i \in 1 .. n - m + 1 : SubSeq(s, m, n)[i] = s[m + i - 1]
    OBVIOUS
  <1> QED BY <1>1, <1>2, <1>3

LEMMA ConcatFacts ==
    ASSUME NEW S, NEW f \in Seq(S), NEW g \in Seq(S)
    PROVE  /\ f \o g \in Seq(S)
           /\ Len(f \o g) = Len(f) + Len(g)
           /\ \A i \in 1 .. Len(f) + Len(g) :
                 (f \o g)[i] = IF i <= Len(f) THEN f[i] ELSE g[i - Len(f)]
  <1>1. f \o g \in Seq(S)
    OBVIOUS
  <1>2. Len(f \o g) = Len(f) + Len(g)
    OBVIOUS
  <1>3. \A i \in 1 .. Len(f) + Len(g) :
            (f \o g)[i] = IF i <= Len(f) THEN f[i] ELSE g[i - Len(f)]
    OBVIOUS
  <1> QED BY <1>1, <1>2, <1>3

(* TAILQ_REMOVE of the element at place k of a duplicate-free list: the    *)
(* ones behind it move up and nothing else changes.                        *)
LEMMA RemoveAtFacts ==
    ASSUME NEW S, NEW s \in Seq(S), NEW k \in DOMAIN s, IsInjective(s)
    PROVE  /\ RemoveAt(s, k) \in Seq(S)
           /\ DOMAIN RemoveAt(s, k) = 1 .. Len(s) - 1
           /\ \A i \in 1 .. Len(s) - 1 :
                 RemoveAt(s, k)[i] = IF i < k THEN s[i] ELSE s[i + 1]
           /\ Range(RemoveAt(s, k)) = Range(s) \ {s[k]}
           /\ IsInjective(RemoveAt(s, k))
  <1> DEFINE f == SubSeq(s, 1, k - 1)
             g == SubSeq(s, k + 1, Len(s))
             r == f \o g
  <1>1. Len(s) \in Nat /\ DOMAIN s = 1 .. Len(s) /\ k \in 1 .. Len(s)
    OBVIOUS
  <1>2. \A i \in 1 .. Len(s) : s[i] \in S
    OBVIOUS
  <1>3. /\ f \in Seq(S) /\ Len(f) = k - 1
        /\ \A i \in 1 .. k - 1 : f[i] = s[i]
    BY <1>1, SubSeqFacts
  <1>4. /\ g \in Seq(S) /\ Len(g) = Len(s) - k
        /\ \A i \in 1 .. Len(s) - k : g[i] = s[k + i]
    <2>1. /\ g \in Seq(S) /\ Len(g) = Len(s) - (k + 1) + 1
          /\ \A i \in 1 .. Len(s) - (k + 1) + 1 : g[i] = s[(k + 1) + i - 1]
      BY <1>1, SubSeqFacts
    <2> HIDE DEF g
    <2> QED BY <1>1, <2>1
  <1> HIDE DEF f, g
  <1>5. /\ r \in Seq(S) /\ Len(r) = Len(s) - 1 /\ DOMAIN r = 1 .. Len(s) - 1
        /\ \A i \in 1 .. Len(s) - 1 :
              r[i] = IF i <= k - 1 THEN f[i] ELSE g[i - (k - 1)]
    <2>1. r \in Seq(S) /\ Len(r) = (k - 1) + (Len(s) - k)
      BY <1>3, <1>4, ConcatFacts
    <2>2. \A i \in 1 .. Len(f) + Len(g) : r[i] = IF i <= Len(f) THEN f[i] ELSE g[i - Len(f)]
      BY <1>3, <1>4, ConcatFacts, Zenon
    <2> HIDE DEF r
    <2>3. Len(r) = Len(s) - 1 /\ Len(f) + Len(g) = Len(s) - 1
      BY <1>1, <1>3, <1>4, <2>1
    <2>4. DOMAIN r = 1 .. Len(s) - 1
      BY <2>1, <2>3
    <2> QED BY <1>3, <2>1, <2>2, <2>3, <2>4
  <1> HIDE DEF r
  <1>6. \A i \in 1 .. Len(s) - 1 : r[i] = IF i < k THEN s[i] ELSE s[i + 1]
    <2> SUFFICES ASSUME NEW i \in 1 .. Len(s) - 1
                 PROVE  r[i] = IF i < k THEN s[i] ELSE s[i + 1]
      OBVIOUS
    <2>1. CASE i < k
      BY <2>1, <1>1, <1>3, <1>5
    <2>2. CASE ~(i < k)
      <3>1. i - (k - 1) \in 1 .. Len(s) - k
        BY <2>2, <1>1
      <3>2. g[i - (k - 1)] = s[k + (i - (k - 1))]
        BY <3>1, <1>4
      <3>3. k + (i - (k - 1)) = i + 1
        BY <1>1
      <3> QED BY <2>2, <1>1, <1>5, <3>2, <3>3
    <2> QED BY <2>1, <2>2
  <1>7. Range(r) = Range(s) \ {s[k]}
    <2>1. ASSUME NEW x \in Range(r) PROVE x \in Range(s) \ {s[k]}
      <3>1. PICK i \in 1 .. Len(s) - 1 : x = r[i]
        BY <1>5 DEF Range
      <3>2. PICK j \in 1 .. Len(s) : j # k /\ x = s[j]
        BY <1>1, <1>6, <3>1
      <3> QED BY <1>1, <3>2 DEF Range, IsInjective
    <2>2. ASSUME NEW x \in Range(s) \ {s[k]} PROVE x \in Range(r)
      <3>1. PICK j \in 1 .. Len(s) : x = s[j]
        BY <1>1 DEF Range
      <3>2. CASE j < k
        <4>1. j \in DOMAIN r /\ r[j] = x
          BY <1>1, <1>5, <1>6, <3>1, <3>2
        <4> QED BY <4>1 DEF Range
      <3>3. CASE ~(j < k)
        <4>1. j - 1 \in DOMAIN r /\ r[j - 1] = x
          BY <1>1, <1>5, <1>6, <3>1, <3>3
        <4> QED BY <4>1 DEF Range
      <3> QED BY <3>2, <3>3
    <2> QED BY <2>1, <2>2
  <1>8. IsInjective(r)
    <2> SUFFICES ASSUME NEW a \in 1 .. Len(s) - 1, NEW b \in 1 .. Len(s) - 1,
                        r[a] = r[b]
                 PROVE  a = b
      BY <1>5 DEF IsInjective
    <2> DEFINE old(i) == IF i < k THEN i ELSE i + 1
    <2>1. old(a) \in DOMAIN s /\ old(b) \in DOMAIN s
      BY <1>1
    <2>2. s[old(a)] = s[old(b)]
      BY <1>6
    <2>3. old(a) = old(b)
      BY <2>1, <2>2 DEF IsInjective
    <2> QED BY <1>1, <2>3
  <1> QED BY <1>5, <1>6, <1>7, <1>8, Zenon DEF r, f, g, RemoveAt

(* STAILQ_REMOVE_HEAD: the first element of a duplicate-free list leaves.  *)
LEMMA TailFacts ==
    ASSUME NEW S, NEW s \in Seq(S), s # <<>>, IsInjective(s)
    PROVE  /\ Head(s) \in Range(s)
           /\ Tail(s) \in Seq(S)
           /\ Range(Tail(s)) = Range(s) \ {Head(s)}
           /\ IsInjective(Tail(s))
  <1> DEFINE u == Tail(s)
  <1>1. /\ u \in Seq(S) /\ Len(s) \in Nat \ {0} /\ Len(u) = Len(s) - 1
        /\ DOMAIN s = 1 .. Len(s) /\ DOMAIN u = 1 .. Len(s) - 1
        /\ Head(s) = s[1]
        /\ \A i \in 1 .. Len(s) - 1 : u[i] = s[i + 1]
    <2>1. Len(s) \in Nat \ {0} /\ DOMAIN s = 1 .. Len(s) /\ Head(s) = s[1]
      OBVIOUS
    <2>2. u \in Seq(S) /\ Len(u) = Len(s) - 1 /\ DOMAIN u = 1 .. Len(s) - 1
      OBVIOUS
    <2>3. \A i \in 1 .. Len(s) - 1 : u[i] = s[i + 1]
      OBVIOUS
    <2> QED BY <2>1, <2>2, <2>3
  <1> HIDE DEF u
  <1>2. Range(u) = Range(s) \ {s[1]}
    <2>1. ASSUME NEW x \in Range(u) PROVE x \in Range(s) \ {s[1]}
      BY <1>1 DEF Range, IsInjective
    <2>2. ASSUME NEW x \in Range(s) \ {s[1]} PROVE x \in Range(u)
      <3>1. PICK j \in 1 .. Len(s) : x = s[j]
        BY <1>1 DEF Range
      <3>2. j - 1 \in DOMAIN u /\ u[j - 1] = x
        BY <1>1, <3>1
      <3> QED BY <3>2 DEF Range
    <2> QED BY <2>1, <2>2
  <1>3. IsInjective(u)
    BY <1>1 DEF IsInjective
  <1>4. Head(s) \in Range(s)
    BY <1>1 DEF Range
  <1> QED BY <1>1, <1>2, <1>3, <1>4 DEF u

-----------------------------------------------------------------------------
(* Counting.                                                               *)

(***************************************************************************)
(* What counting rests on: facts of the library's FiniteSetTheorems, here  *)
(* as a hypothesis, because every proof obligation of a module that        *)
(* extends the library carries all of it.  Where the lemmas are used in    *)
(* the end (SegmentsTheorems), Counting is proved.                         *)
(***************************************************************************)
Counting ==
    /\ \A x, n : n \in Nat => IsFiniteSet({x} \X (1..n))
    /\ \A S : IsFiniteSet(S) =>
          /\ Cardinality(S) \in Nat
          /\ Cardinality(S) = 0 <=> S = {}
          /\ \A T \in SUBSET S : IsFiniteSet(T)
          /\ \A T : Cardinality(S \ T) = Cardinality(S) - Cardinality(S \cap T)
          /\ \A x \in S : Cardinality(S \ {x}) = Cardinality(S) - 1
          /\ \A x : x \notin S => Cardinality(S \cup {x}) = Cardinality(S) + 1
    /\ \A S, T : IsFiniteSet(S) /\ IsFiniteSet(T) /\ S \cap T = {} =>
          Cardinality(S \cup T) = Cardinality(S) + Cardinality(T)

(* A set from which the part in I is taken and put back as F.              *)
Recounted(U, B, I, F) ==
    Cardinality(U \ ((B \ I) \cup F)) =
        Cardinality(U \ B) + Cardinality((U \cap B) \cap I) - Cardinality(F)

LEMMA Recount ==
    ASSUME Counting, NEW U, IsFiniteSet(U), NEW B, NEW I, NEW F \in SUBSET (U \cap I)
    PROVE  Recounted(U, B, I, F)
<1> DEFINE V == U \cap B
           W == V \ I
<1>1. IsFiniteSet(V) /\ IsFiniteSet(F) /\ IsFiniteSet(V \cap I)
  <2>1. V \in SUBSET U /\ F \in SUBSET U /\ V \cap I \in SUBSET U
    OBVIOUS
  <2> QED
    BY <2>1, Zenon DEF Counting
<1>2. IsFiniteSet(W) /\ Cardinality(W) = Cardinality(V) - Cardinality(V \cap I)
  <2>1. W \in SUBSET V
    OBVIOUS
  <2> QED
    BY <1>1, <2>1, Zenon DEF Counting
<1>3. W \cap F = {}
  OBVIOUS
<1>4. Cardinality(W \cup F) = Cardinality(W) + Cardinality(F)
  BY <1>1, <1>2, <1>3, Zenon DEF Counting
<1>5. U \cap ((B \ I) \cup F) = W \cup F
  OBVIOUS
<1>6. Cardinality(U \ ((B \ I) \cup F)) = Cardinality(U) - Cardinality(W \cup F)
  <2>1. \A T : Cardinality(U \ T) = Cardinality(U) - Cardinality(U \cap T)
    BY Zenon DEF Counting
  <2> QED
    BY <1>5, <2>1
<1>7. Cardinality(U \ B) = Cardinality(U) - Cardinality(V)
  BY Zenon DEF Counting
<1>8. {Cardinality(U), Cardinality(V), Cardinality(V \cap I), Cardinality(F)} \subseteq Nat
  BY <1>1 DEF Counting
<1> HIDE DEF V, W
<1> QED
  BY <1>2, <1>4, <1>6, <1>7, <1>8 DEF V, Recounted
=============================================================================
