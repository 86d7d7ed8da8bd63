--------------------------- MODULE TaskSetProofs ---------------------------
(***************************************************************************)
(* The safety properties of TaskSet for any number of commands and         *)
(* task-management threads.                                                *)
(***************************************************************************)
EXTENDS TaskSet, DataLemmas, FiniteSetTheorems

(* Most steps need no arithmetic; those that do cite SMT.                  *)
USE Zenon

-----------------------------------------------------------------------------
(* The scan of istate_remove_cmd.                                          *)

(* After n turns of the loop: what is on task_list so far, and what the    *)
(* counters tell of the tasks passed.                                      *)
AllSimple(list, n) == \A k \in 1 .. n : attr[list[k]] = SIMPLE

MayGo(list, j) ==
    /\ list[j] \notin exec
    /\ (j = 1 /\ attr[list[j]] # HEAD) \/ AllSimple(list, j)

Out(list, n) == {list[i] : i \in {j \in 1 .. n : MayGo(list, j)}}

ScanState(list) == [done : BOOLEAN, ordered : Nat, queued : Nat, out : SUBSET Range(list)]

Scanned(list, n, acc) ==
    /\ acc \in ScanState(list)
    /\ acc.out = Out(list, n)
    /\ acc.done => n > 0 /\ ~AllSimple(list, n)
    /\ ~acc.done => acc.queued = n /\ (acc.ordered = 0 <=> AllSimple(list, n))

(* A turn of the loop keeps the kind of its variables.                     *)
LEMMA ScanStepType ==
    ASSUME NEW list, NEW acc \in ScanState(list), NEW t \in Range(list)
    PROVE  ScanStep(acc, t) \in ScanState(list)
  <1> DEFINE simple == attr[t] = SIMPLE
             q == acc.queued + 1
             o == IF simple THEN acc.ordered ELSE acc.ordered + 1
             out == acc.out \cup {t}
             counted == [acc EXCEPT !.queued = q, !.ordered = o]
             started == [acc EXCEPT !.queued = q, !.ordered = o, !.out = out]
             stopped == [acc EXCEPT !.done = TRUE]
  <1>0. q \in Nat /\ o \in Nat /\ out \in SUBSET Range(list)
    BY SMT DEF ScanState
  <1>1. counted \in ScanState(list)
    <2> HIDE DEF q, o
    <2> QED BY <1>0 DEF ScanState
  <1>2. started \in ScanState(list)
    <2> HIDE DEF q, o, out
    <2> QED BY <1>0 DEF ScanState
  <1>3. stopped \in ScanState(list)
    BY DEF ScanState
  <1>4. acc.done \in BOOLEAN
    BY DEF ScanState
  <1>5. ScanStep(acc, t) \in {acc, counted, started, stopped}
    BY <1>4 DEF ScanStep
  <1> QED BY <1>1, <1>2, <1>3, <1>5

(* One turn: task n goes on task_list if and only if Dispatched names it.  *)
LEMMA ScanTurn ==
    ASSUME NEW S, NEW list \in Seq(S), NEW n \in 1 .. Len(list), NEW acc,
           Scanned(list, n - 1, acc)
    PROVE  Scanned(list, n, ScanStep(acc, list[n]))
  <1> DEFINE t == list[n]
             new == ScanStep(acc, t)
             simple == attr[t] = SIMPLE
  <1>1. /\ acc \in ScanState(list)
        /\ acc.out = Out(list, n - 1)
        /\ acc.done => n - 1 > 0 /\ ~AllSimple(list, n - 1)
        /\ ~acc.done => acc.queued = n - 1 /\ (acc.ordered = 0 <=> AllSimple(list, n - 1))
    BY DEF Scanned
  <1>2. t \in Range(list)
    BY SMT DEF Range
  <1>3. new \in ScanState(list)
    BY <1>1, <1>2, ScanStepType
  <1>4. AllSimple(list, n) <=> AllSimple(list, n - 1) /\ simple
    <2>1. \A k : k \in 1 .. n <=> k \in 1 .. n - 1 \/ k = n
      BY SMT
    <2> QED BY <2>1 DEF AllSimple
  <1>5. Out(list, n) = Out(list, n - 1) \cup (IF MayGo(list, n) THEN {t} ELSE {})
    <2>1. \A k : k \in 1 .. n <=> k \in 1 .. n - 1 \/ k = n
      BY SMT
    <2> QED BY <2>1 DEF Out
  <1>6. MayGo(list, n) <=> t \notin exec /\ ((n = 1 /\ attr[t] # HEAD) \/ AllSimple(list, n))
    BY DEF MayGo
  <1>7. n = 1 => AllSimple(list, n - 1)
    BY SMT DEF AllSimple
  <1>8. SIMPLE # HEAD
    BY DEF SIMPLE, HEAD
  <1>9. n \in Nat /\ n >= 1
    BY SMT
  <1> HIDE DEF t, new
  <1>10. CASE acc.done
    <2>1. new = acc
      BY <1>10 DEF new, ScanStep, t
    <2>2. ~MayGo(list, n) /\ ~AllSimple(list, n)
      BY <1>1, <1>4, <1>6, <1>7, <1>10
    <2> QED BY <1>1, <1>3, <1>5, <1>9, <1>10, <2>1, <2>2 DEF Scanned, t, new
  <1>11. CASE ~acc.done /\ t \in exec
    <2>1. new = [acc EXCEPT !.queued = @ + 1, !.ordered = IF simple THEN @ ELSE @ + 1]
      BY <1>11 DEF new, ScanStep, t
    <2>2. /\ new.out = acc.out /\ new.done = acc.done /\ new.queued = n
          /\ new.ordered = 0 <=> acc.ordered = 0 /\ simple
      BY <1>1, <1>9, <1>11, <2>1, SMT DEF ScanState
    <2>3. ~MayGo(list, n)
      BY <1>6, <1>11
    <2> QED BY <1>1, <1>3, <1>4, <1>5, <1>11, <2>2, <2>3 DEF Scanned, t, new
  <1> DEFINE Goes == (simple /\ acc.ordered = 0) \/ (~simple /\ attr[t] # HEAD /\ acc.queued = 0)
  <1>12. CASE ~acc.done /\ t \notin exec /\ Goes
    <2>1. new = [acc EXCEPT !.queued = @ + 1, !.ordered = IF simple THEN @ ELSE @ + 1,
                            !.out = @ \cup {t}]
      BY <1>1, <1>8, <1>12, SMT DEF new, ScanStep, t, ScanState
    <2>2. /\ new.out = acc.out \cup {t} /\ new.done = acc.done /\ new.queued = n
          /\ new.ordered = 0 <=> acc.ordered = 0 /\ simple
      BY <1>1, <1>9, <1>12, <2>1, SMT DEF ScanState
    <2>3. MayGo(list, n)
      BY <1>1, <1>4, <1>6, <1>8, <1>9, <1>12, SMT
    <2> QED BY <1>1, <1>3, <1>4, <1>5, <1>12, <2>2, <2>3 DEF Scanned, t, new
  <1>13. CASE ~acc.done /\ t \notin exec /\ ~Goes
    <2>1. new = [acc EXCEPT !.done = TRUE]
      BY <1>1, <1>8, <1>13, SMT DEF new, ScanStep, t, ScanState
    <2>2. new.out = acc.out /\ new.done
      BY <1>1, <2>1 DEF ScanState
    <2>3. ~AllSimple(list, n)
      BY <1>1, <1>4, <1>13
    <2>4. ~MayGo(list, n)
      BY <1>1, <1>4, <1>6, <1>7, <1>9, <1>13, <2>3, SMT
    <2> QED BY <1>1, <1>3, <1>5, <1>9, <2>2, <2>3, <2>4 DEF Scanned, t, new
  <1> QED BY <1>10, <1>11, <1>12, <1>13

(* For every list the loop puts on task_list what Dispatched names.        *)
LEMMA DispatchedIsScan ==
    ASSUME NEW S, NEW list \in Seq(S)
    PROVE  Dispatched(list) = Scan(list)
  <1> DEFINE N == Len(list)
             base == [done |-> FALSE, ordered |-> 0, queued |-> 0, out |-> {}]
             Body(f) == [n \in 0 .. N |-> IF n = 0 THEN base ELSE ScanStep(f[n - 1], list[n])]
             turn == [x \in ScanState(list) \X (1 .. N) |-> ScanStep(x[1], list[x[2]])]
             acc == CHOOSE f : f = Body(f)
  <1>0. N \in Nat /\ DOMAIN list = 1 .. N
    BY SMT
  <1>1. base \in ScanState(list)
    BY DEF ScanState
  <1>2. turn \in [ScanState(list) \X (1 .. N) -> ScanState(list)]
    <2>1. \A n \in 1 .. N : list[n] \in Range(list)
      BY <1>0 DEF Range
    <2> QED BY <2>1, ScanStepType
  <1>3. PICK f \in [0 .. N -> ScanState(list)] :
            f = [n \in 0 .. N |-> IF n = 0 THEN base ELSE turn[f[n - 1], n]]
    <2> HIDE DEF turn, N, base
    <2>1. \E f \in [0 .. N -> ScanState(list)] : IsLoop(f, base, N, turn)
      BY <1>0, <1>1, <1>2, LoopExists
    <2> QED BY <2>1 DEF IsLoop
  <1>4. f = Body(f)
    <2>1. \A n \in 0 .. N : n # 0 => n \in 1 .. N /\ n - 1 \in 0 .. N
      BY <1>0, SMT
    <2>2. \A n \in 0 .. N : n # 0 => turn[f[n - 1], n] = ScanStep(f[n - 1], list[n])
      BY <1>3, <2>1
    <2> HIDE DEF turn, N, base
    <2> QED BY <1>3, <2>2
  <1>5. acc = Body(acc)
    BY <1>4
  <1>6. Scan(list) = acc[N].out
    BY DEF Scan
  <1> HIDE DEF acc
  <1> DEFINE P == {n \in 0 .. N : Scanned(list, n, acc[n])}
  <1>7. 0 \in P
    <2>1. acc[0] = base
      BY <1>0, <1>5, SMT
    <2>2. AllSimple(list, 0) /\ Out(list, 0) = {}
      BY SMT DEF AllSimple, Out
    <2>3. Scanned(list, 0, base)
      BY <1>1, <2>2 DEF Scanned
    <2> QED BY <1>0, <2>1, <2>3, SMT
  <1>8. ASSUME NEW n \in 1 .. N, n - 1 \in P PROVE n \in P
    <2>0. n \in 0 .. N /\ n # 0
      BY <1>0, SMT
    <2>1. acc[n] = ScanStep(acc[n - 1], list[n])
      BY <1>5, <2>0
    <2>2. Scanned(list, n - 1, acc[n - 1])
      BY <1>8
    <2>3. Scanned(list, n, acc[n])
      BY <2>1, <2>2, ScanTurn
    <2> QED BY <1>0, <2>3, SMT
  <1>9. N \in P
    <2> HIDE DEF P, N
    <2>1. \A n \in 0 .. N : n \in P
      BY <1>0, <1>7, <1>8, InductionUpTo
    <2> QED BY <1>0, <2>1, SMT
  <1>10. Scan(list) = Out(list, N)
    BY <1>6, <1>9 DEF Scanned
  <1> QED BY <1>0, <1>10 DEF Dispatched, Out, MayGo, AllSimple

-----------------------------------------------------------------------------
(***************************************************************************)
(* What makes the properties inductive: a command is on the list once,     *)
(* what executes is on the list, and a HEAD OF QUEUE command never waits   *)
(* (istate_queue_cmd starts it whatever else there is).                    *)
(***************************************************************************)
Shape ==
    /\ IsInjective(queue_list)
    /\ exec \subseteq Live
    /\ \A t \in Waiting : attr[t] # HEAD

IInv ==
    /\ TypeOK
    /\ Shape
    /\ CountersExact
    /\ OldestIsExecuting
    /\ OrderedHasNoElder
    /\ ExecutingOnce

(* The task set is finite, and so is each part of it that is counted.      *)
LEMMA Finite ==
    ASSUME TypeOK
    PROVE  /\ \A S \in SUBSET Tasks : IsFiniteSet(S) /\ Cardinality(S) \in Nat
           /\ Live \in SUBSET Tasks
           /\ DOMAIN queue_list = 1 .. Len(queue_list)
           /\ Len(queue_list) \in Nat
  <1>1. \A S \in SUBSET Tasks : IsFiniteSet(S) /\ Cardinality(S) \in Nat
    BY TasksAssumption, FS_Subset, FS_CardinalityType
  <1>2. Live \in SUBSET Tasks
    BY SMT DEF TypeOK, Live, Range
  <1>3. DOMAIN queue_list = 1 .. Len(queue_list) /\ Len(queue_list) \in Nat
    BY SMT DEF TypeOK
  <1> QED BY <1>1, <1>2, <1>3

(* The empty task set satisfies the invariant.                             *)
LEMMA InitInv == Init => IInv
  <1> SUFFICES ASSUME Init PROVE IInv
    OBVIOUS
  <1>1. TypeOK
    BY SMT DEF Init, TypeOK
  <1>2. Range(<<>>) = {} /\ IsInjective(<<>>)
    BY SMT DEF Range, IsInjective
  <1>3. Shape /\ OldestIsExecuting /\ OrderedHasNoElder /\ ExecutingOnce
    BY <1>2 DEF Init, Shape, Live, Waiting, OldestIsExecuting,
                OrderedHasNoElder, ExecutingOnce
  <1>4. CountersExact
    BY <1>2, FS_EmptySet DEF Init, CountersExact, Waiting, Live, WithAttr
  <1> QED BY <1>1, <1>3, <1>4 DEF IInv

-----------------------------------------------------------------------------
(* istate_queue_cmd keeps the invariant: an ordered command starts only in *)
(* an empty set, and a command that finds the set empty always starts.     *)
LEMMA QueueCmdInv ==
    ASSUME IInv, NEW t \in Tasks, NEW a \in Attrs, istate_queue_cmd(t, a)
    PROVE  IInv'
  <1> DEFINE n == Len(queue_list)
  <1>1. /\ TypeOK /\ Shape /\ CountersExact /\ OldestIsExecuting
        /\ OrderedHasNoElder /\ ExecutingOnce
    BY DEF IInv
  <1>2. /\ \A S \in SUBSET Tasks : IsFiniteSet(S) /\ Cardinality(S) \in Nat
        /\ Live \in SUBSET Tasks
        /\ DOMAIN queue_list = 1 .. n /\ n \in Nat
    BY <1>1, Finite
  <1>3. /\ queue_list' \in Seq(Tasks)
        /\ DOMAIN queue_list' = 1 .. n + 1
        /\ \A i \in 1 .. n : queue_list'[i] = queue_list[i]
        /\ queue_list'[n + 1] = t
        /\ Live' = Live \cup {t}
        /\ IsInjective(queue_list')
    BY <1>1, AppendFacts, SMT DEF istate_queue_cmd, TypeOK, Shape, Live
  <1>4. TypeOK'
    BY <1>1, <1>3, SMT DEF istate_queue_cmd, TypeOK
  <1>5. /\ t \notin exec /\ t \notin Live
        /\ \A u \in Live : attr'[u] = attr[u]
        /\ attr'[t] = a
        /\ a \in {SIMPLE, HEAD, ORDERED, ACA}
    BY <1>1, <1>2, AttrsAssumption DEF istate_queue_cmd, TypeOK, Shape
  <1>6. Shape'
    BY <1>1, <1>3, <1>5 DEF istate_queue_cmd, Shape, Waiting, MayStart
  <1>7. queue_list = <<>> => MayStart(a)
    <2> SUFFICES ASSUME queue_list = <<>> PROVE MayStart(a)
      OBVIOUS
    <2>1. exec = {}
      BY <1>1, SMT DEF Shape, Live, Range
    <2>2. WithAttr(exec, {HEAD}) = {} /\ WithAttr(exec, OrderedLike) = {}
      BY <2>1 DEF WithAttr
    <2>3. queued = 0 /\ head = 0 /\ ordered = 0
      BY <1>1, <2>1, <2>2, FS_EmptySet DEF CountersExact
    <2> QED BY <2>3 DEF MayStart
  <1>8. OldestIsExecuting'
    <2>1. CASE queue_list = <<>>
      BY <1>3, <1>7, <2>1, SMT DEF istate_queue_cmd, OldestIsExecuting
    <2>2. CASE queue_list # <<>>
      <3>1. 1 \in 1 .. n
        BY <1>1, <1>2, <2>2, SMT DEF TypeOK
      <3> QED BY <1>1, <1>3, <2>2, <3>1 DEF istate_queue_cmd, OldestIsExecuting
    <2> QED BY <2>1, <2>2
  <1>9. OrderedHasNoElder'
    <2> SUFFICES ASSUME NEW i \in 1 .. n + 1, queue_list'[i] \in exec',
                        attr'[queue_list'[i]] \in OrderedLike
                 PROVE  i = 1
      BY <1>3 DEF OrderedHasNoElder
    <2>1. CASE i \in 1 .. n
      <3>1. queue_list[i] \in Live
        BY <1>2, <2>1 DEF Live, Range
      <3> QED BY <1>1, <1>2, <1>3, <1>5, <2>1, <3>1
              DEF istate_queue_cmd, OrderedHasNoElder
    <2>2. CASE i = n + 1
      <3>1. MayStart(a) /\ a \in OrderedLike
        BY <1>3, <1>5, <2>2 DEF istate_queue_cmd
      <3>2. queued = 0
        BY <3>1 DEF MayStart, OrderedLike, SIMPLE, HEAD, ORDERED, ACA
      <3>3. exec = {}
        BY <1>1, <1>2, <3>2, FS_EmptySet DEF CountersExact, TypeOK
      <3>4. queue_list = <<>>
        BY <1>1, <3>3 DEF OldestIsExecuting
      <3> QED BY <2>2, <3>4, SMT
    <2> QED BY <1>2, <2>1, <2>2, SMT
  <1>10. CountersExact'
    <2> DEFINE H == WithAttr(exec, {HEAD})
               O == WithAttr(exec, OrderedLike)
    <2>1. /\ exec \in SUBSET Tasks /\ Waiting \in SUBSET Tasks
          /\ H \in SUBSET Tasks /\ O \in SUBSET Tasks
          /\ t \notin Waiting /\ t \notin H /\ t \notin O
      BY <1>1, <1>2, <1>5 DEF TypeOK, Waiting, WithAttr
    <2>2. \A S \in SUBSET Tasks : t \notin S => Cardinality(S \cup {t}) = Cardinality(S) + 1
      BY <1>2, FS_AddElement
    <2>3. CASE ~MayStart(a)
      <3>1. /\ exec' = exec /\ Waiting' = Waiting \cup {t}
            /\ head' = head /\ ordered' = ordered
            /\ queued' = queued /\ pending' = pending + 1
        BY <1>3, <1>5, <2>3 DEF istate_queue_cmd, Waiting, MayStart
      <3>2. H' = H /\ O' = O
        BY <1>1, <1>5, <3>1 DEF WithAttr, Shape
      <3> QED BY <1>1, <2>1, <2>2, <3>1, <3>2 DEF CountersExact
    <2>4. CASE MayStart(a)
      <3>1. /\ exec' = exec \cup {t} /\ Waiting' = Waiting
            /\ head' = IF a = HEAD THEN head + 1 ELSE head
            /\ ordered' = IF a \notin {SIMPLE, HEAD} THEN ordered + 1 ELSE ordered
            /\ queued' = queued + 1 /\ pending' = pending
        BY <1>3, <1>5, <2>4 DEF istate_queue_cmd, Waiting
      <3>2. H' = IF a = HEAD THEN H \cup {t} ELSE H
        BY <1>1, <1>5, <3>1 DEF WithAttr, Shape
      <3>3. O' = IF a \in OrderedLike THEN O \cup {t} ELSE O
        BY <1>1, <1>5, <3>1 DEF WithAttr, Shape, OrderedLike
      <3>4. a \in OrderedLike <=> a \notin {SIMPLE, HEAD}
        BY <1>5 DEF OrderedLike, SIMPLE, HEAD, ORDERED, ACA
      <3>5. Cardinality(H') = head'
        BY <1>1, <2>1, <2>2, <3>1, <3>2 DEF CountersExact
      <3>6. Cardinality(O') = ordered'
        BY <1>1, <2>1, <2>2, <3>1, <3>3, <3>4 DEF CountersExact
      <3> QED BY <1>1, <1>5, <2>1, <2>2, <3>1, <3>5, <3>6 DEF CountersExact
    <2> QED BY <2>3, <2>4
  <1>11. ExecutingOnce'
    BY <1>1, <1>5 DEF istate_queue_cmd, ExecutingOnce
  <1> QED BY <1>4, <1>6, <1>8, <1>9, <1>10, <1>11 DEF IInv

(* istate_remove_cmd keeps the invariant: if the task that becomes the     *)
(* oldest is pending, the scan dispatches it.                              *)
LEMMA RemoveCmdInv ==
    ASSUME IInv, NEW t \in Tasks, istate_remove_cmd(t)
    PROVE  IInv'
  <1> DEFINE n == Len(queue_list)
             k == CHOOSE i \in DOMAIN queue_list : queue_list[i] = t
             rest == RemoveAt(queue_list, k)
             D == IF pending = 0 \/ k # 1 THEN {} ELSE Dispatched(rest)
             OD == {d \in D : attr[d] # SIMPLE}
             H == WithAttr(exec, {HEAD})
             O == WithAttr(exec, OrderedLike)
  <1>1. /\ TypeOK /\ Shape /\ CountersExact /\ OldestIsExecuting
        /\ OrderedHasNoElder /\ ExecutingOnce
    BY DEF IInv
  <1>2. /\ \A S \in SUBSET Tasks : IsFiniteSet(S) /\ Cardinality(S) \in Nat
        /\ Live \in SUBSET Tasks
        /\ DOMAIN queue_list = 1 .. n /\ n \in Nat
    BY <1>1, Finite
  <1>3. t \in running /\ t \in exec /\ t \in Live /\ t \notin Range(devq) /\ t \notin handoff
    BY <1>1 DEF istate_remove_cmd, ExecutingOnce, Shape
  <1>4. k \in 1 .. n /\ queue_list[k] = t
    BY <1>2, <1>3 DEF Live, Range
  <1>5. /\ running' = running \ {t} /\ queue_list' = rest
        /\ aborted' = aborted \ {t} /\ exec' = (exec \ {t}) \cup D
        /\ queued' = queued - 1 + Cardinality(D)
        /\ pending' = pending - Cardinality(D)
        /\ head' = IF attr[t] = HEAD THEN head - 1 ELSE head
        /\ ordered' = (IF attr[t] \in OrderedLike THEN ordered - 1 ELSE ordered)
                      + Cardinality(OD)
        /\ handoff' = handoff \cup D
        /\ UNCHANGED <<attr, blocked, devq, abort>>
    BY DEF istate_remove_cmd
  <1> HIDE DEF k
  <1>6. /\ rest \in Seq(Tasks) /\ DOMAIN rest = 1 .. n - 1
        /\ \A i \in 1 .. n - 1 :
              rest[i] = IF i < k THEN queue_list[i] ELSE queue_list[i + 1]
        /\ Range(rest) = Live \ {t}
        /\ IsInjective(rest)
    BY <1>1, <1>2, <1>4, RemoveAtFacts, SMT DEF TypeOK, Shape, Live
  <1> HIDE DEF rest
  <1>7. /\ D \subseteq Waiting
        /\ \A i \in 1 .. n - 1 : rest[i] \in D => i = 1 \/ attr[rest[i]] = SIMPLE
        /\ \A d \in D : attr[d] # HEAD
    <2>1. ASSUME NEW d \in D
          PROVE  \E j \in 1 .. n - 1 :
                    /\ d = rest[j] /\ d \notin exec
                    /\ j = 1 \/ attr[d] = SIMPLE
      <3>1. d \in Dispatched(rest)
        BY <2>1
      <3>2. PICK j \in DOMAIN rest :
                /\ d = rest[j] /\ d \notin exec
                /\ j = 1 \/ \A h \in 1 .. j : attr[rest[h]] = SIMPLE
        BY <3>1 DEF Dispatched
      <3>3. j \in 1 .. n - 1 /\ j \in 1 .. j
        BY <1>2, <1>6, SMT
      <3> QED BY <3>2, <3>3
    <2>2. D \subseteq Waiting
      BY <1>6, <2>1 DEF Waiting, Range
    <2>3. ASSUME NEW i \in 1 .. n - 1, rest[i] \in D
          PROVE  i = 1 \/ attr[rest[i]] = SIMPLE
      <3>1. PICK j \in 1 .. n - 1 : rest[i] = rest[j] /\ (j = 1 \/ attr[rest[i]] = SIMPLE)
        BY <2>1, <2>3
      <3>2. i = j
        BY <1>6, <3>1 DEF IsInjective
      <3> QED BY <3>1, <3>2
    <2> QED BY <1>1, <2>2, <2>3 DEF Shape
  <1>8. k = 1 /\ n > 1 => rest[1] \in exec \cup D
    <2> SUFFICES ASSUME k = 1, n > 1, rest[1] \notin exec
                 PROVE  rest[1] \in D
      OBVIOUS
    <2>1. 1 \in DOMAIN rest
      BY <1>2, <1>6, SMT
    <2>2. rest[1] \in Waiting
      BY <1>6, <2>1 DEF Waiting, Range
    <2>3. pending # 0
      <3>1. Waiting \in SUBSET Tasks
        BY <1>2 DEF Waiting
      <3> QED BY <1>1, <1>2, <2>2, <3>1, FS_EmptySet DEF CountersExact
    <2>4. attr[rest[1]] # HEAD
      BY <1>1, <2>2 DEF Shape
    <2> QED BY <2>1, <2>3, <2>4 DEF Dispatched
  <1>9. /\ D \in SUBSET Tasks /\ OD \in SUBSET Tasks /\ H \in SUBSET Tasks
        /\ O \in SUBSET Tasks /\ exec \in SUBSET Tasks /\ Waiting \in SUBSET Tasks
        /\ D \cap exec = {}
    BY <1>1, <1>2, <1>7 DEF TypeOK, WithAttr, Waiting
  <1> HIDE DEF D
  <1>10. Shape'
    <2>1. Live' = Live \ {t} /\ IsInjective(queue_list')
      BY <1>5, <1>6 DEF Live
    <2>2. exec' \subseteq Live'
      BY <1>1, <1>3, <1>5, <1>7, <2>1 DEF Shape, Waiting
    <2>3. \A u \in Waiting' : attr'[u] # HEAD
      BY <1>1, <1>3, <1>5, <2>1 DEF Shape, Waiting
    <2> QED BY <2>1, <2>2, <2>3 DEF Shape
  <1>11. OldestIsExecuting'
    <2> SUFFICES ASSUME rest # <<>> PROVE rest[1] \in exec'
      BY <1>5 DEF OldestIsExecuting
    <2>1. n > 1 /\ 1 \in DOMAIN rest
      BY <1>2, <1>6, SMT
    <2>2. rest[1] # t
      BY <1>6, <2>1 DEF Range
    <2>3. CASE k = 1
      BY <1>5, <1>8, <2>1, <2>2, <2>3
    <2>4. CASE k # 1
      <3>1. rest[1] = queue_list[1]
        BY <1>2, <1>4, <1>6, <2>1, <2>4, SMT
      <3>2. queue_list # <<>>
        BY <2>1, SMT
      <3> QED BY <1>1, <1>5, <2>2, <3>1, <3>2 DEF OldestIsExecuting
    <2> QED BY <2>3, <2>4
  <1>12. OrderedHasNoElder'
    <2> SUFFICES ASSUME NEW i \in 1 .. n - 1, rest[i] \in exec',
                        attr[rest[i]] \in OrderedLike
                 PROVE  i = 1
      BY <1>5, <1>6 DEF OrderedHasNoElder
    <2>1. CASE rest[i] \in D
      BY <1>7, <2>1 DEF OrderedLike, SIMPLE, ORDERED, ACA
    <2>2. CASE rest[i] \in exec
      <3>1. CASE i < k
        BY <1>1, <1>2, <1>6, <2>2, <3>1, SMT DEF OrderedHasNoElder
      <3>2. CASE ~(i < k)
        <4>1. i + 1 \in DOMAIN queue_list /\ rest[i] = queue_list[i + 1]
          BY <1>2, <1>4, <1>6, <3>2, SMT
        <4>2. i + 1 = 1
          BY <1>1, <2>2, <4>1 DEF OrderedHasNoElder
        <4> QED BY <4>2, SMT
      <3> QED BY <3>1, <3>2
    <2> QED BY <1>5, <2>1, <2>2
  <1>13. CountersExact'
    <2>1. \A S \in SUBSET Tasks :
             Cardinality(S \ {t}) = IF t \in S THEN Cardinality(S) - 1 ELSE Cardinality(S)
      BY <1>2, FS_RemoveElement
    <2>2. ASSUME NEW S \in SUBSET Tasks, NEW T \in SUBSET Tasks, S \cap T = {}
          PROVE  Cardinality(S \cup T) = Cardinality(S) + Cardinality(T)
      <3>1. Cardinality(S) \in Nat /\ Cardinality(T) \in Nat
        BY <1>2
      <3>2. Cardinality(S \cup T) = Cardinality(S) + Cardinality(T) - 0
        BY <1>2, <2>2, FS_Union, FS_EmptySet
      <3> QED BY <3>1, <3>2, SMT
    <2>3. queued' = Cardinality(exec')
      <3>1. (exec \ {t}) \cap D = {} /\ exec \ {t} \in SUBSET Tasks
        BY <1>9
      <3>2. Cardinality(exec') = Cardinality(exec \ {t}) + Cardinality(D)
        BY <1>5, <1>9, <2>2, <3>1
      <3>3. Cardinality(exec \ {t}) = Cardinality(exec) - 1
        BY <1>3, <1>9, <2>1
      <3> QED BY <1>1, <1>5, <3>2, <3>3 DEF CountersExact
    <2>4. pending' = Cardinality(Waiting')
      <3>1. Waiting' = Waiting \ D /\ Waiting = (Waiting \ D) \cup D
        BY <1>3, <1>5, <1>6, <1>7 DEF Waiting, Live
      <3>2. Cardinality(Waiting) = Cardinality(Waiting \ D) + Cardinality(D)
        BY <1>9, <2>2, <3>1
      <3>3. pending' = Cardinality(Waiting) - Cardinality(D)
        BY <1>1, <1>5 DEF CountersExact
      <3>4. Cardinality(Waiting \ D) \in Nat /\ Cardinality(D) \in Nat
        BY <1>2, <1>9
      <3>5. pending' = Cardinality(Waiting \ D)
        BY <3>2, <3>3, <3>4, SMT
      <3> QED BY <3>1, <3>5
    <2>5. head' = Cardinality(WithAttr(exec, {HEAD})')
      <3>1. WithAttr(exec, {HEAD})' = H \ {t} /\ (t \in H <=> attr[t] = HEAD)
        BY <1>3, <1>5, <1>7 DEF WithAttr
      <3> QED BY <1>1, <1>5, <1>9, <2>1, <3>1 DEF CountersExact
    <2>6. ordered' = Cardinality(WithAttr(exec, OrderedLike)')
      <3>1. \A d \in D : attr[d] # SIMPLE <=> attr[d] \in OrderedLike
        BY <1>1, <1>7, <1>9, AttrsAssumption
        DEF TypeOK, OrderedLike, SIMPLE, HEAD, ORDERED, ACA
      <3>2. /\ WithAttr(exec, OrderedLike)' = (O \ {t}) \cup OD
            /\ (O \ {t}) \cap OD = {} /\ O \ {t} \in SUBSET Tasks
            /\ t \in O <=> attr[t] \in OrderedLike
        BY <1>3, <1>5, <1>9, <3>1 DEF WithAttr
      <3>3. Cardinality((O \ {t}) \cup OD) = Cardinality(O \ {t}) + Cardinality(OD)
        BY <1>9, <2>2, <3>2
      <3> QED BY <1>1, <1>2, <1>5, <1>9, <2>1, <3>2, <3>3 DEF CountersExact
    <2> QED BY <2>3, <2>4, <2>5, <2>6 DEF CountersExact
  <1>14. ExecutingOnce'
    BY <1>1, <1>3, <1>5, <1>9 DEF ExecutingOnce
  <1>15. TypeOK'
    <2>1. \A S \in SUBSET Tasks : Cardinality(S) \in Nat
      BY <1>2
    <2>2. exec' \in SUBSET Tasks /\ Live' \in SUBSET Tasks
      BY <1>2, <1>5, <1>6, <1>9 DEF Live
    <2>3. /\ Waiting' \in SUBSET Tasks /\ WithAttr(exec, {HEAD})' \in SUBSET Tasks
          /\ WithAttr(exec, OrderedLike)' \in SUBSET Tasks
      BY <2>2 DEF Waiting, WithAttr
    <2>4. head' \in Nat /\ ordered' \in Nat /\ queued' \in Nat /\ pending' \in Nat
      BY <1>13, <2>1, <2>2, <2>3 DEF CountersExact
    <2> QED BY <1>1, <1>5, <1>6, <1>9, <2>2, <2>4 DEF TypeOK
  <1> QED BY <1>10, <1>11, <1>12, <1>13, <1>14, <1>15 DEF IInv

(* Handing a task to the device and taking it off the device's queue move  *)
(* it from one place to the next; neither touches the task set itself.     *)
LEMMA DeviceQueueInv ==
    ASSUME IInv, (\E t \in Tasks : devq_insert_ccb(t)) \/ devq_process_queue
    PROVE  IInv'
  <1>1. /\ TypeOK /\ Shape /\ CountersExact /\ OldestIsExecuting
        /\ OrderedHasNoElder /\ ExecutingOnce
    BY DEF IInv
  <1>2. UNCHANGED <<queue_list, attr, exec, head, ordered, queued, pending,
                    blocked, aborted, abort>>
    BY DEF devq_insert_ccb, devq_process_queue
  <1>3. (Shape /\ CountersExact /\ OldestIsExecuting /\ OrderedHasNoElder)'
    BY <1>1, <1>2 DEF Shape, CountersExact, OldestIsExecuting,
                      OrderedHasNoElder, Live, Waiting, WithAttr
  <1>4. CASE \E t \in Tasks : devq_insert_ccb(t)
    <2> PICK t \in Tasks : devq_insert_ccb(t)
      BY <1>4
    <2>1. /\ devq' \in Seq(Tasks) /\ Range(devq') = Range(devq) \cup {t}
          /\ IsInjective(devq')
      BY <1>1, AppendFacts, SMT DEF devq_insert_ccb, TypeOK, ExecutingOnce
    <2>2. TypeOK' /\ ExecutingOnce'
      BY <1>1, <1>2, <2>1 DEF devq_insert_ccb, TypeOK, ExecutingOnce
    <2> QED BY <1>3, <2>2 DEF IInv
  <1>5. CASE devq_process_queue
    <2>1. /\ devq' \in Seq(Tasks) /\ Head(devq) \in Range(devq)
          /\ Range(devq') = Range(devq) \ {Head(devq)} /\ IsInjective(devq')
      BY <1>1, <1>5, TailFacts DEF devq_process_queue, TypeOK, ExecutingOnce
    <2>2. Range(devq) \subseteq Tasks
      BY <1>1, SMT DEF TypeOK, Range
    <2>3. TypeOK' /\ ExecutingOnce'
      BY <1>1, <1>2, <1>5, <2>1, <2>2 DEF devq_process_queue, TypeOK, ExecutingOnce
    <2> QED BY <1>3, <2>3 DEF IInv
  <1> QED BY <1>4, <1>5

(* An abort flags tasks and blocks or unblocks the queue; it never removes *)
(* a task or changes what is executing.                                    *)
LEMMA AbortInv ==
    ASSUME IInv,
           \/ \E a \in Aborters, t \in Tasks : istate_abort_task(a, t)
           \/ \E a \in Aborters : istate_abort_task_set(a)
           \/ \E a \in Aborters : unblock(a)
           \/ preempt_abort
    PROVE  IInv'
  <1>1. /\ TypeOK /\ Shape /\ CountersExact /\ OldestIsExecuting
        /\ OrderedHasNoElder /\ ExecutingOnce
    BY DEF IInv
  <1>2. UNCHANGED <<queue_list, attr, exec, head, ordered, queued, pending,
                    handoff, devq, running>>
    BY DEF istate_abort_task, istate_abort_task_set, unblock, preempt_abort
  <1>3. (Shape /\ CountersExact /\ OldestIsExecuting /\ OrderedHasNoElder /\ ExecutingOnce)'
    BY <1>1, <1>2 DEF Shape, CountersExact, OldestIsExecuting, OrderedHasNoElder,
                      ExecutingOnce, Live, Waiting, WithAttr
  <1>4. Live \in SUBSET Tasks
    BY <1>1, Finite
  <1>5. TypeOK'
    BY <1>1, <1>2, <1>4
    DEF TypeOK, istate_abort_task, istate_abort_task_set, unblock, preempt_abort
  <1> QED BY <1>3, <1>5 DEF IInv

-----------------------------------------------------------------------------
(* Every reachable state of the task set satisfies the invariant.          *)
THEOREM Invariance == Spec => []IInv
  <1>1. IInv /\ [Next]_vars => IInv'
    <2> SUFFICES ASSUME IInv, [Next]_vars PROVE IInv'
      OBVIOUS
    <2>1. CASE \E t \in Tasks, a \in Attrs : istate_queue_cmd(t, a)
      BY <2>1, QueueCmdInv
    <2>2. CASE \E t \in Tasks : istate_remove_cmd(t)
      BY <2>2, RemoveCmdInv
    <2>3. CASE (\E t \in Tasks : devq_insert_ccb(t)) \/ devq_process_queue
      BY <2>3, DeviceQueueInv
    <2>4. CASE \/ \E a \in Aborters, t \in Tasks : istate_abort_task(a, t)
               \/ \E a \in Aborters : istate_abort_task_set(a)
               \/ \E a \in Aborters : unblock(a)
               \/ preempt_abort
      BY <2>4, AbortInv
    <2>5. CASE UNCHANGED vars
      BY <2>5 DEF vars, IInv, TypeOK, Shape, CountersExact, OldestIsExecuting,
                  OrderedHasNoElder, ExecutingOnce, Live, Waiting, WithAttr
    <2> QED BY <2>1, <2>2, <2>3, <2>4, <2>5 DEF Next
  <1> QED BY InitInv, <1>1, PTL DEF Spec

(* The variables of the task set always have their types.                  *)
THEOREM TypeCorrect == Spec => []TypeOK
  BY Invariance, PTL DEF IInv

(* The counters head, ordered, queued and pending of struct                *)
(* initiator_state never drift from the list they summarise.               *)
THEOREM CountersAreExact == Spec => []CountersExact
  BY Invariance, PTL DEF IInv

(* The oldest command of a task set is always with the device, so a        *)
(* completion that dispatches the pending ones is always still to come.    *)
THEOREM OldestAlwaysExecutes == Spec => []OldestIsExecuting
  BY Invariance, PTL DEF IInv

(* An ordered command never executes beside an older one.                  *)
THEOREM OrderedCommandsWait == Spec => []OrderedHasNoElder
  BY Invariance, PTL DEF IInv

(* A started command is in exactly one of the three places between its     *)
(* start and its answer, so it is executed and answered once.              *)
THEOREM ExecutedOnce == Spec => []ExecutingOnce
  BY Invariance, PTL DEF IInv

(* In every reachable state the tasks the model dispatches when the oldest *)
(* one completes are those the loop of istate_remove_cmd puts on           *)
(* task_list.                                                              *)
THEOREM DispatchIsAlwaysScan == Spec => []DispatchIsScan
  <1>1. TypeOK => DispatchIsScan
    <2> SUFFICES ASSUME TypeOK, queue_list # <<>>
                 PROVE  Dispatched(Tail(queue_list)) = Scan(Tail(queue_list))
      BY DEF DispatchIsScan
    <2>1. Tail(queue_list) \in Seq(Tasks)
      BY SMT DEF TypeOK
    <2> QED BY <2>1, DispatchedIsScan
  <1> QED BY <1>1, TypeCorrect, PTL

-----------------------------------------------------------------------------
(* Which tasks start.                                                      *)

(* A command that may start when it arrives finds executing tasks only if  *)
(* it is a head-of-queue command, or simple like all of them.              *)
LEMMA MayStartMeans ==
    ASSUME IInv, NEW a \in Attrs, MayStart(a), a # HEAD, NEW u \in exec
    PROVE  a = SIMPLE /\ attr[u] = SIMPLE
  <1>1. TypeOK /\ CountersExact
    BY DEF IInv
  <1>2. exec \in SUBSET Tasks /\ u \in Tasks /\ attr[u] \in {SIMPLE, HEAD, ORDERED, ACA}
    BY <1>1, AttrsAssumption DEF TypeOK
  <1>3. \A S \in SUBSET Tasks : Cardinality(S) = 0 => S = {}
    BY <1>1, Finite, FS_EmptySet
  <1>4. queued # 0
    BY <1>1, <1>2, <1>3 DEF CountersExact
  <1>5. a = SIMPLE /\ ordered = 0 /\ head = 0
    BY <1>4 DEF MayStart
  <1>6. WithAttr(exec, {HEAD}) = {} /\ WithAttr(exec, OrderedLike) = {}
    BY <1>1, <1>2, <1>3, <1>5 DEF CountersExact, WithAttr
  <1> QED BY <1>2, <1>5, <1>6 DEF WithAttr, OrderedLike

(***************************************************************************)
(* However commands arrive, complete and are aborted, a command starts in  *)
(* its turn (istate_queue_cmd, istate_remove_cmd) and stays started until  *)
(* it leaves the task set.                                                 *)
(***************************************************************************)
THEOREM TasksStartInTurn == Spec => StartsInTurn
  <1> DEFINE InTurn(i) ==
                 \/ attr'[queue_list'[i]] = HEAD
                 \/ \A j \in 1..(i - 1) : queue_list'[j] \in exec' =>
                        attr'[queue_list'[j]] = SIMPLE /\ attr'[queue_list'[i]] = SIMPLE
             Turns == /\ exec \ exec' \subseteq Live \ Live'
                      /\ \A i \in DOMAIN queue_list' :
                             queue_list'[i] \in exec' \ exec => InTurn(i)
  <1>1. ASSUME IInv, NEW t \in Tasks, NEW a \in Attrs, istate_queue_cmd(t, a)
        PROVE  Turns
    <2> DEFINE n == Len(queue_list)
    <2>1. TypeOK /\ Shape
      BY <1>1 DEF IInv
    <2>2. /\ n \in Nat /\ DOMAIN queue_list' = 1 .. n + 1
          /\ \A i \in 1 .. n : queue_list'[i] = queue_list[i] /\ queue_list[i] \in Live
          /\ queue_list'[n + 1] = t
      BY <1>1, <2>1, AppendFacts, SMT DEF istate_queue_cmd, TypeOK, Live, Range
    <2>3. /\ t \notin Live /\ attr'[t] = a
          /\ \A u \in exec : attr'[u] = attr[u]
          /\ exec' = IF MayStart(a) THEN exec \cup {t} ELSE exec
      BY <1>1, <2>1 DEF istate_queue_cmd, TypeOK, Shape
    <2>4. ASSUME NEW i \in 1 .. n + 1, queue_list'[i] \in exec' \ exec, a # HEAD,
                 NEW j \in 1 .. i - 1, queue_list'[j] \in exec'
          PROVE  attr'[queue_list'[j]] = SIMPLE /\ attr'[queue_list'[i]] = SIMPLE
      <3>1. queue_list'[i] = t /\ MayStart(a)
        BY <2>3, <2>4
      <3>2. j \in 1 .. n
        BY <2>2, <2>4, SMT
      <3>3. queue_list'[j] \in exec
        BY <2>2, <2>3, <2>4, <3>2
      <3> QED BY <1>1, <2>3, <2>4, <3>1, <3>3, MayStartMeans
    <2>5. ASSUME NEW i \in 1 .. n + 1, queue_list'[i] \in exec' \ exec PROVE InTurn(i)
      <3>1. queue_list'[i] = t
        BY <2>3, <2>5
      <3> QED BY <2>3, <2>4, <2>5, <3>1
    <2> QED BY <2>2, <2>3, <2>5
  <1>2. ASSUME IInv, NEW t \in Tasks, istate_remove_cmd(t)
        PROVE  Turns
    <2> DEFINE k == CHOOSE i \in DOMAIN queue_list : queue_list[i] = t
               rest == RemoveAt(queue_list, k)
    <2>1. TypeOK /\ Shape /\ ExecutingOnce
      BY <1>2 DEF IInv
    <2>2. /\ t \in exec /\ t \in Live /\ queue_list' = rest /\ attr' = attr
          /\ exec' \subseteq (exec \ {t}) \cup Dispatched(rest) /\ exec \ {t} \subseteq exec'
      BY <1>2, <2>1 DEF istate_remove_cmd, ExecutingOnce, Shape
    <2>3. k \in DOMAIN queue_list /\ queue_list[k] = t
      BY <2>2 DEF Live, Range
    <2> HIDE DEF k
    <2>4. rest \in Seq(Tasks) /\ Range(rest) = Live \ {t} /\ IsInjective(rest)
      BY <2>1, <2>3, RemoveAtFacts, SMT DEF TypeOK, Shape, Live
    <2>5. DOMAIN rest = 1 .. Len(rest) /\ Len(rest) \in Nat
      BY <2>4, SMT
    <2> HIDE DEF rest
    <2>6. exec \ exec' \subseteq Live \ Live'
      BY <2>2, <2>4 DEF Live
    <2>7. ASSUME NEW i \in DOMAIN rest, rest[i] \in exec' \ exec,
                 NEW j \in 1 .. i - 1, rest[j] \in exec'
          PROVE  attr[rest[j]] = SIMPLE /\ attr[rest[i]] = SIMPLE
      <3>1. rest[i] \in Dispatched(rest)
        BY <2>2, <2>7
      <3>2. PICK m \in DOMAIN rest : /\ rest[i] = rest[m]
                                     /\ m = 1 \/ \A h \in 1..m : attr[rest[h]] = SIMPLE
        BY <3>1 DEF Dispatched
      <3>3. i = m
        BY <2>4, <3>2 DEF IsInjective
      <3>4. i # 1 /\ j \in 1 .. i /\ i \in 1 .. i
        BY <2>5, <2>7, SMT
      <3> QED BY <3>2, <3>3, <3>4
    <2> QED BY <2>2, <2>6, <2>7
  <1>3. ASSUME UNCHANGED <<queue_list, exec>> PROVE Turns
    BY <1>3
  <1>4. IInv /\ [Next]_vars => [Turns]_vars
    BY <1>1, <1>2, <1>3 DEF Next, devq_process_queue, devq_insert_ccb, istate_abort_task,
                            istate_abort_task_set, unblock, preempt_abort, vars
  <1> QED BY <1>4, Invariance, PTL DEF Spec, StartsInTurn
=============================================================================
