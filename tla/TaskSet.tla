------------------------------- MODULE TaskSet -------------------------------
(***************************************************************************)
(* The SCSI task set one initiator has at one virtual device               *)
(* (core/vdevdefs.h, struct initiator_state): every command is put on      *)
(* queue_list, and either handed to the device at once or kept pending     *)
(* until a completion dispatches it.  Commands are executed by the         *)
(* device's devq thread (core/devq.c), completed by the transport, and may *)
(* be flagged by ABORT TASK and ABORT TASK SET (core/vdevdefs.c).          *)
(*                                                                         *)
(* Every action is one critical section of the code: istate_lock protects  *)
(* the queue and its counters, devq_wait the device queue.                 *)
(***************************************************************************)
EXTENDS Integers, FiniteSets, Lists

CONSTANTS
    Tasks,      \* command slots (struct qsio_scsiio) of this initiator
    Attrs,      \* the task attributes its transport uses
    Aborters    \* threads that run task-management functions

SIMPLE  == "SIMPLE"
HEAD    == "HEAD"
ORDERED == "ORDERED"
ACA     == "ACA"

(***************************************************************************)
(* The local and the iSCSI transport turn every other attribute into       *)
(* SIMPLE before they queue a command.                                     *)
(***************************************************************************)
ASSUME AttrsAssumption == Attrs \subseteq {SIMPLE, HEAD, ORDERED, ACA}
ASSUME TasksAssumption == IsFiniteSet(Tasks)

VARIABLES
    queue_list, \* the task set in arrival order
    attr,       \* ctio->task_attr of each task
    exec,       \* tasks whose ctio->queued is set: given to the device
    head, ordered, queued, pending, \* the counters of the initiator state
    blocked,    \* new commands wait
    aborted,    \* tasks with QSIO_CTIO_ABORTED
    handoff,    \* executing, but not yet on the device queue
    devq,       \* the device's pending_queue
    running,    \* taken off the device queue, not yet completed
    abort       \* what each aborter is doing: "idle", "unblock" or "drain"

vars == <<queue_list, attr, exec, head, ordered, queued, pending, blocked,
          aborted, handoff, devq, running, abort>>

Live == Range(queue_list)
Waiting == Live \ exec
OrderedLike == {ORDERED, ACA}
WithAttr(S, A) == {t \in S : attr[t] \in A}

Init ==
    /\ queue_list = <<>>
    /\ attr \in [Tasks -> Attrs]
    /\ exec = {}
    /\ head = 0 /\ ordered = 0 /\ queued = 0 /\ pending = 0
    /\ blocked = 0
    /\ aborted = {}
    /\ handoff = {} /\ devq = <<>> /\ running = {}
    /\ abort = [a \in Aborters |-> "idle"]

-----------------------------------------------------------------------------
(* Faulty: a head-of-queue task waits for another one.                     *)
MayStart_HeadWaits(a) ==
    \/ a = SIMPLE /\ ordered = 0 /\ head = 0
    \/ a = HEAD /\ head = 0
    \/ a \notin {SIMPLE, HEAD} /\ queued = 0

(* Faulty: an ordered task waits for ordered tasks only.                   *)
MayStart_OrderedOnly(a) ==
    \/ a = SIMPLE /\ ordered = 0 /\ head = 0
    \/ a = HEAD
    \/ a \notin {SIMPLE, HEAD} /\ ordered = 0

(* May a command of attribute a start at once?                             *)
MayStart(a) ==
    \/ a = SIMPLE /\ ordered = 0 /\ head = 0
    \/ a = HEAD
    \/ a \notin {SIMPLE, HEAD} /\ queued = 0

(***************************************************************************)
(* istate_queue_cmd: a command with attribute a arrives; it waits while    *)
(* the queue is blocked, is counted and put at the tail of the list.  If   *)
(* it may start, the caller (device_queue_ctio) gives it to the device     *)
(* after the lock is released.                                             *)
(***************************************************************************)
istate_queue_cmd(t, a) ==
    LET starts == MayStart(a) IN
    /\ t \notin Live
    /\ blocked = 0
    /\ attr' = [attr EXCEPT ![t] = a]
    /\ queue_list' = Append(queue_list, t)
    /\ exec' = IF starts THEN exec \cup {t} ELSE exec
    /\ head' = IF a = HEAD THEN head + 1 ELSE head
    /\ ordered' = IF starts /\ a \notin {SIMPLE, HEAD} THEN ordered + 1 ELSE ordered
    /\ queued' = IF starts THEN queued + 1 ELSE queued
    /\ pending' = IF starts THEN pending ELSE pending + 1
    /\ handoff' = IF starts THEN handoff \cup {t} ELSE handoff
    /\ UNCHANGED <<blocked, aborted, devq, running, abort>>

(***************************************************************************)
(* devq_process_queue: the device thread takes the next command.           *)
(***************************************************************************)
devq_process_queue ==
    /\ devq # <<>>
    /\ running' = running \cup {Head(devq)}
    /\ devq' = Tail(devq)
    /\ UNCHANGED <<queue_list, attr, exec, head, ordered, queued, pending,
                   blocked, aborted, handoff, abort>>

(* Faulty: only simple tasks are dispatched.                               *)
Dispatched_SimpleOnly(list) ==
    {list[i] : i \in {j \in DOMAIN list :
        list[j] \notin exec /\ \A k \in 1..j : attr[list[k]] = SIMPLE}}

(* Faulty: ctio->queued is not looked at.                                  *)
Dispatched_Again(list) ==
    {list[i] : i \in {j \in DOMAIN list :
        \/ j = 1 /\ attr[list[j]] # HEAD
        \/ \A k \in 1..j : attr[list[k]] = SIMPLE}}

(* Faulty: a head-of-queue task before it does not hold up a simple one.   *)
Dispatched_PastHead(list) ==
    {list[i] : i \in {j \in DOMAIN list :
        /\ list[j] \notin exec
        /\ \/ j = 1 /\ attr[list[j]] # HEAD
           \/ /\ attr[list[j]] = SIMPLE
              /\ \A k \in 1..j : attr[list[k]] \in {SIMPLE, HEAD}}}

(***************************************************************************)
(* The pending tasks of list that a completion dispatches.  The code scans *)
(* the list, counting what is already executing, and stops at the first    *)
(* task that may not start: an ordered one starts only with nothing before *)
(* it, a simple one only with nothing but simple tasks before it.          *)
(***************************************************************************)
Dispatched(list) ==
    {list[i] : i \in {j \in DOMAIN list :
        /\ list[j] \notin exec
        /\ \/ j = 1 /\ attr[list[j]] # HEAD
           \/ \A k \in 1..j : attr[list[k]] = SIMPLE}}

(***************************************************************************)
(* One round of the loop over queue_list: acc holds the loop's variables   *)
(* done, ordered and queued, and the tasks put on task_list so far.  Scan  *)
(* runs the loop; it is the reference for Dispatched.                      *)
(***************************************************************************)
ScanStep(acc, t) ==
    LET simple == attr[t] = SIMPLE
        Start  == [acc EXCEPT !.queued = @ + 1,
                              !.ordered = IF simple THEN @ ELSE @ + 1,
                              !.out = @ \cup {t}]
        Stop   == [acc EXCEPT !.done = TRUE]
    IN
    CASE acc.done         -> acc
      [] ~acc.done /\ t \in exec ->
             [acc EXCEPT !.queued = @ + 1, !.ordered = IF simple THEN @ ELSE @ + 1]
      [] ~acc.done /\ t \notin exec /\ simple ->
             IF acc.ordered > 0 THEN Stop ELSE Start
      [] ~acc.done /\ t \notin exec /\ attr[t] = HEAD -> Stop
      [] OTHER -> IF acc.queued > 0 THEN Stop ELSE Start

Scan(list) ==
    LET acc[n \in 0..Len(list)] ==
            IF n = 0 THEN [done |-> FALSE, ordered |-> 0, queued |-> 0, out |-> {}]
                     ELSE ScanStep(acc[n - 1], list[n])
    IN acc[Len(list)].out

(***************************************************************************)
(* istate_remove_cmd, called by device_remove_ctio when the transport      *)
(* sends the command's status: the counters go down, and when the oldest   *)
(* task leaves and others are pending, the list is scanned for tasks to    *)
(* dispatch.                                                               *)
(***************************************************************************)
istate_remove_cmd(t) ==
    LET k    == CHOOSE i \in DOMAIN queue_list : queue_list[i] = t
        rest == RemoveAt(queue_list, k)
        D    == IF pending = 0 \/ k # 1 THEN {} ELSE Dispatched(rest)
    IN
    /\ t \in running
    /\ running' = running \ {t}
    /\ queue_list' = rest
    /\ aborted' = aborted \ {t}
    /\ exec' = (exec \ {t}) \cup D
    /\ queued' = queued - 1 + Cardinality(D)
    /\ pending' = pending - Cardinality(D)
    /\ head' = IF attr[t] = HEAD THEN head - 1 ELSE head
    /\ ordered' = (IF attr[t] \in OrderedLike THEN ordered - 1 ELSE ordered)
                  + Cardinality({d \in D : attr[d] # SIMPLE})
    /\ handoff' = handoff \cup D
    /\ UNCHANGED <<attr, blocked, devq, abort>>

(***************************************************************************)
(* devq_insert_ccb: the submitting thread (device_queue_ctio), or the      *)
(* completing one once it has answered its command                         *)
(* (device_queue_ctio_list), puts a task on the device queue.              *)
(***************************************************************************)
devq_insert_ccb(t) ==
    /\ t \in handoff
    /\ handoff' = handoff \ {t}
    /\ devq' = Append(devq, t)
    /\ UNCHANGED <<queue_list, attr, exec, head, ordered, queued, pending,
                   blocked, aborted, running, abort>>

-----------------------------------------------------------------------------
(***************************************************************************)
(* istate_abort_task: the queue is blocked and the task, if it is there,   *)
(* flagged; with an empty queue nothing happens.  The caller,              *)
(* __device_istate_abort_task, unblocks the queue afterwards in any case.  *)
(***************************************************************************)
istate_abort_task(a, t) ==
    /\ abort[a] = "idle"
    /\ abort' = [abort EXCEPT ![a] = "unblock"]
    /\ blocked' = IF queue_list # <<>> THEN 1 ELSE blocked
    /\ aborted' = IF t \in Live THEN aborted \cup {t} ELSE aborted
    /\ UNCHANGED <<queue_list, attr, exec, head, ordered, queued, pending,
                   handoff, devq, running>>

(***************************************************************************)
(* istate_abort_task_set: every task is flagged; the caller,               *)
(* __device_istate_abort_task_set, then waits for the queue to drain.      *)
(***************************************************************************)
istate_abort_task_set(a) ==
    /\ abort[a] = "idle"
    /\ abort' = [abort EXCEPT ![a] = "drain"]
    /\ blocked' = IF queue_list # <<>> THEN 1 ELSE blocked
    /\ aborted' = Live
    /\ UNCHANGED <<queue_list, attr, exec, head, ordered, queued, pending,
                   handoff, devq, running>>

(***************************************************************************)
(* istate_abort_tasks_other_initiators: PREEMPT AND ABORT of another       *)
(* initiator flags this one's tasks, without blocking or waiting.          *)
(***************************************************************************)
preempt_abort ==
    /\ aborted # Live
    /\ aborted' = Live
    /\ UNCHANGED <<queue_list, attr, exec, head, ordered, queued, pending,
                   blocked, handoff, devq, running, abort>>

(* Faulty: nobody wakes up ABORT TASK SET when the queue is empty.         *)
unblock_NoWakeup(a) ==
    /\ abort[a] = "unblock"
    /\ abort' = [abort EXCEPT ![a] = "idle"]
    /\ blocked' = 0
    /\ UNCHANGED <<queue_list, attr, exec, head, ordered, queued, pending,
                   aborted, handoff, devq, running>>

(* The end of both functions: new commands may enter again.                *)
unblock(a) ==
    /\ \/ abort[a] = "unblock"
       \/ abort[a] = "drain" /\ queue_list = <<>>
    /\ abort' = [abort EXCEPT ![a] = "idle"]
    /\ blocked' = 0
    /\ UNCHANGED <<queue_list, attr, exec, head, ordered, queued, pending,
                   aborted, handoff, devq, running>>

-----------------------------------------------------------------------------
Next ==
    \/ \E t \in Tasks, a \in Attrs : istate_queue_cmd(t, a)
    \/ devq_process_queue
    \/ \E t \in Tasks : istate_remove_cmd(t)
    \/ \E t \in Tasks : devq_insert_ccb(t)
    \/ \E a \in Aborters, t \in Tasks : istate_abort_task(a, t)
    \/ \E a \in Aborters : istate_abort_task_set(a)
    \/ \E a \in Aborters : unblock(a)
    \/ preempt_abort

(***************************************************************************)
(* The device thread drains its queue, every command it takes is answered, *)
(* a thread that started a command hands it on, and a                      *)
(* task-management thread whose wait is over goes on.  Nothing makes the   *)
(* initiator send commands or aborts.                                      *)
(***************************************************************************)
Fairness ==
    /\ WF_vars(devq_process_queue)
    /\ \A t \in Tasks : WF_vars(istate_remove_cmd(t))
    /\ \A t \in Tasks : WF_vars(devq_insert_ccb(t))
    /\ \A a \in Aborters : WF_vars(unblock(a))

Spec == Init /\ [][Next]_vars
LiveSpec == Spec /\ Fairness

-----------------------------------------------------------------------------
(* Every variable has its type; the counters of struct initiator_state     *)
(* never go below zero and blocked is a flag.                              *)
TypeOK ==
    /\ queue_list \in Seq(Tasks)
    /\ attr \in [Tasks -> Attrs]
    /\ exec \in SUBSET Tasks
    /\ head \in Nat /\ ordered \in Nat /\ queued \in Nat /\ pending \in Nat
    /\ blocked \in {0, 1}
    /\ aborted \in SUBSET Tasks
    /\ handoff \in SUBSET Tasks
    /\ devq \in Seq(Tasks)
    /\ running \in SUBSET Tasks
    /\ abort \in [Aborters -> {"idle", "unblock", "drain"}]

(***************************************************************************)
(* What the model dispatches when the oldest task completes is what the    *)
(* loop of istate_remove_cmd puts on task_list.                            *)
(***************************************************************************)
DispatchIsScan ==
    queue_list # <<>> => Dispatched(Tail(queue_list)) = Scan(Tail(queue_list))

(***************************************************************************)
(* The four counters, kept up by hand on every path of istate_queue_cmd    *)
(* and istate_remove_cmd, count what their names say; a drift would stop   *)
(* commands for ever or let them overtake.                                 *)
(***************************************************************************)
CountersExact ==
    /\ queued = Cardinality(exec)
    /\ pending = Cardinality(Waiting)
    /\ head = Cardinality(WithAttr(exec, {HEAD}))
    /\ ordered = Cardinality(WithAttr(exec, OrderedLike))

(***************************************************************************)
(* The oldest task of a non-empty set is with the device.  Pending tasks   *)
(* are only ever dispatched when the oldest one completes, so without this *)
(* the task set would be stuck for ever.                                   *)
(***************************************************************************)
OldestIsExecuting == queue_list # <<>> => queue_list[1] \in exec

(***************************************************************************)
(* An executing ordered task has no older task beside it: it started when  *)
(* everything that arrived before it was gone.                             *)
(***************************************************************************)
OrderedHasNoElder ==
    \A i \in DOMAIN queue_list :
        queue_list[i] \in exec /\ attr[queue_list[i]] \in OrderedLike => i = 1

(***************************************************************************)
(* A task marked as executing is in exactly one place of the device's      *)
(* path, so it is answered once: the completion that dispatched it, the    *)
(* device queue and the device never hold it together, nor lose it.        *)
(***************************************************************************)
ExecutingOnce ==
    /\ exec = handoff \cup Range(devq) \cup running
    /\ handoff \cap Range(devq) = {}
    /\ handoff \cap running = {}
    /\ Range(devq) \cap running = {}
    /\ IsInjective(devq)

(***************************************************************************)
(* A task starts in its turn and stays started until it is answered.  One  *)
(* that starts beside older tasks that execute is a head-of-queue task, or *)
(* simple like all of them.                                                *)
(***************************************************************************)
StartsInTurn ==
    [][/\ exec \ exec' \subseteq Live \ Live'
       /\ \A i \in DOMAIN queue_list' :
              queue_list'[i] \in exec' \ exec =>
                  \/ attr'[queue_list'[i]] = HEAD
                  \/ \A j \in 1..(i - 1) : queue_list'[j] \in exec' =>
                         attr'[queue_list'[j]] = SIMPLE /\ attr'[queue_list'[i]] = SIMPLE]_vars

(***************************************************************************)
(* Every command that entered the task set leaves it, whatever keeps       *)
(* arriving behind it: no pending command is overtaken for ever.           *)
(***************************************************************************)
EveryTaskLeaves == \A t \in Tasks : t \in Live ~> t \notin Live

(***************************************************************************)
(* ABORT TASK returns, and so does an ABORT TASK SET that blocked the      *)
(* queue.  One that found the queue empty blocks nothing and still waits   *)
(* for an empty queue: commands that keep arriving can hold it up.         *)
(***************************************************************************)
AbortsReturn ==
    \A a \in Aborters :
        abort[a] = "unblock" \/ (abort[a] = "drain" /\ blocked = 1) ~> abort[a] = "idle"
=============================================================================
