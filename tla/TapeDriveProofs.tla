-------------------------- MODULE TapeDriveProofs --------------------------
(***************************************************************************)
(* For any initiators, lengths, sizes and modes: the write thread always   *)
(* has its cartridge, prevention of removal holds, and an initiator is     *)
(* told of a WRITE that failed behind its back.                            *)
(***************************************************************************)
EXTENDS TapeDrive, DataLemmas

(* Most steps need no arithmetic; those that do cite SMT.                  *)
USE Zenon

Entries == {"attention", "deferred"}

(* What the other conjuncts need of the types.                             *)
Shape ==
    /\ writer \in {"idle", "busy", "done"}
    /\ buffered \in BOOLEAN
    /\ write_devq \in Seq(QueueCmd)
    /\ writer # "idle" => current \in QueueCmd
    /\ dev.pc = "room" => dev.arg \in WriteCmd
    /\ owed \subseteq Initiators
    /\ sense \in [Initiators -> Seq(Entries)]

(* Who holds the lock.  Between the check for prevention and the end of    *)
(* the wait nobody can start to prevent removal, and between the check of  *)
(* a WRITE and its insertion nobody can take the cartridge.                *)
Holder ==
    /\ lock = "dev" \/ dev = Idle
    /\ lock = "mover" \/ mover = NoInitiator
    /\ lock = "mover" => loaded /\ prevent \subseteq {mover}
    /\ dev.pc = "unload" => prevent = {}
    /\ dev.pc = "room" => tape /\ loaded

IInv == Shape /\ Holder /\ WriterHasTape /\ FailureTold

-----------------------------------------------------------------------------
(* A sense list after device_add_sense ends with the new entry; it has     *)
(* lost its first one if it was full.                                      *)
LEMMA AddSense ==
    ASSUME Shape, NEW i \in Initiators, NEW e \in Entries, device_add_sense(i, e)
    PROVE  /\ sense' \in [Initiators -> Seq(Entries)]
           /\ \A j \in Initiators \ {i} : sense'[j] = sense[j]
           /\ e \in Range(sense'[i])
           /\ Len(sense[i]) # MAX_UNIT_ATTENTIONS => Range(sense[i]) \subseteq Range(sense'[i])
           /\ Len(sense[i]) = MAX_UNIT_ATTENTIONS => Range(Tail(sense[i])) \subseteq Range(sense'[i])
<1> DEFINE old == IF Len(sense[i]) = MAX_UNIT_ATTENTIONS THEN Tail(sense[i]) ELSE sense[i]
<1>1. sense[i] \in Seq(Entries)
  BY DEF Shape
<1>2. Len(sense[i]) = MAX_UNIT_ATTENTIONS => sense[i] # <<>>
  BY <1>1, SizesAssumption
<1>3. old \in Seq(Entries)
  BY <1>1, <1>2, SMT
<1>4. sense' = [sense EXCEPT ![i] = Append(old, e)]
  BY DEF device_add_sense
<1>5. sense'[i] = Append(old, e)
  BY <1>4 DEF Shape
<1> HIDE DEF old
<1>6. Append(old, e) \in Seq(Entries) /\ Range(Append(old, e)) = Range(old) \cup {e}
  BY <1>3, AppendFacts, SMT
<1>7. \A j \in Initiators \ {i} : sense'[j] = sense[j]
  BY <1>4 DEF Shape
<1>8. sense' \in [Initiators -> Seq(Entries)]
  BY <1>4, <1>6 DEF Shape
<1>9. e \in Range(sense'[i]) /\ Range(old) \subseteq Range(sense'[i])
  BY <1>5, <1>6
<1> QED
  BY <1>7, <1>8, <1>9 DEF old

-----------------------------------------------------------------------------
(* A drive that was just attached is empty and idle.                       *)
THEOREM InitIInv == Init => IInv
<1> SUFFICES ASSUME Init PROVE IInv
  OBVIOUS
<1>1. Shape
  BY SMT DEF Init, Shape, Idle, Entries
<1>2. Holder
  BY DEF Init, Holder, Idle
<1>3. WriterHasTape
  BY SMT DEF Init, WriterHasTape, pending_cmds
<1>4. FailureTold
  BY DEF Init, FailureTold
<1> QED
  BY <1>1, <1>2, <1>3, <1>4 DEF IInv

(* A command that is started, and everything the device thread and a mover *)
(* do after their wait, leaves the sense lists alone.                      *)
LEMMA SenseFrame ==
    ASSUME FailureTold, UNCHANGED sensevars
    PROVE  FailureTold'
BY DEF FailureTold, sensevars

(* A failed command leaves its initiator an error to come.                 *)
LEMMA ErrorTold ==
    ASSUME IInv, writer # "idle", UNCHANGED sensevars \/ write_error(current)
    PROVE  FailureTold' /\ owed' \subseteq Initiators /\ sense' \in [Initiators -> Seq(Entries)]
<1>1. CASE UNCHANGED sensevars
  BY <1>1, SenseFrame DEF IInv, Shape, sensevars
<1>2. CASE write_error(current) /\ ~UNCHANGED sensevars
  <2> DEFINE i == current.i
  <2>1. i \in Initiators
    BY DEF IInv, Shape, QueueCmd, WriteCmd, MarkCmd
  <2>2. device_add_sense(i, "deferred") /\ owed' = owed \cup {i}
    BY <1>2 DEF write_error
  <2>3. "deferred" \in Entries
    BY DEF Entries
  <2> HIDE DEF i
  <2>4. /\ sense' \in [Initiators -> Seq(Entries)]
        /\ \A j \in Initiators \ {i} : sense'[j] = sense[j]
        /\ "deferred" \in Range(sense'[i])
    BY <2>1, <2>2, <2>3, AddSense DEF IInv
  <2>5. owed' \subseteq Initiators
    BY <2>1, <2>2 DEF IInv, Shape
  <2>6. ASSUME NEW j \in owed' PROVE "deferred" \in Range(sense'[j])
    BY <2>2, <2>4, <2>5, <2>6 DEF IInv, FailureTold
  <2> QED
    BY <2>4, <2>5, <2>6 DEF FailureTold
<1> QED
  BY <1>1, <1>2

-----------------------------------------------------------------------------
(* The steps that put a command on the queue or take one off.              *)
LEMMA InsertWriteStep ==
    ASSUME IInv, insert_write
    PROVE  IInv'
<1>1. dev.arg \in WriteCmd /\ dev.arg \in QueueCmd
  BY DEF IInv, Shape, insert_write, QueueCmd
<1>2. write_devq' \in Seq(QueueCmd)
  BY <1>1, SMT DEF IInv, Shape, insert_write
<1>3. dev' = Idle \/ dev'.pc = "wait"
  BY SMT DEF insert_write, Finish, Wait
<1>4. Shape'
  BY <1>2, <1>3, SMT DEF IInv, Shape, insert_write, Idle, sensevars, modevars
<1>5. Holder'
  BY <1>3, SMT DEF IInv, Holder, insert_write, Finish, Wait, Idle, cartvars
<1>6. WriterHasTape'
  BY DEF IInv, Holder, WriterHasTape, insert_write, cartvars
<1> QED
  BY <1>4, <1>5, <1>6, SenseFrame DEF IInv, insert_write

(* WRITE FILEMARKS is queued without waiting for room.                     *)
LEMMA FilemarksStep ==
    ASSUME IInv, NEW i \in Initiators, NEW immed \in BOOLEAN,
           tdrive_cmd_validate_write_filemarks(i, immed)
    PROVE  IInv'
<1> DEFINE m == [op |-> "WRITE FILEMARKS", i |-> i, buf |-> immed]
<1>1. m \in QueueCmd
  BY DEF QueueCmd, MarkCmd
<1>2. write_devq' = Append(write_devq, m)
  BY DEF tdrive_cmd_validate_write_filemarks
<1> HIDE DEF m
<1>3. write_devq' \in Seq(QueueCmd)
  BY <1>1, <1>2, SMT DEF IInv, Shape
<1>4. lock = "free" /\ dev = Idle
  BY DEF tdrive_cmd_validate_write_filemarks, IInv, Holder, Start
<1>5. (lock' = lock /\ dev' = dev) \/ Wait(i, "wait", <<>>)
  BY DEF tdrive_cmd_validate_write_filemarks
<1>6. Wait(i, "wait", <<>>) => lock' = "dev" /\ dev'.pc = "wait"
  BY SMT DEF Wait
<1>7. (lock' = lock /\ dev' = dev) \/ (lock' = "dev" /\ dev'.pc = "wait")
  BY <1>5, <1>6
<1>8. UNCHANGED <<mover, cartvars, prevent, sensevars, modevars, current, writer>> /\ Ready
  BY DEF tdrive_cmd_validate_write_filemarks
<1>9. Shape'
  BY <1>3, <1>7, <1>4, <1>8 DEF IInv, Shape, Idle, sensevars, modevars
<1>10. Holder'
  BY <1>7, <1>4, <1>8 DEF IInv, Holder, Idle, cartvars
<1>11. WriterHasTape'
  BY <1>8 DEF WriterHasTape, Ready, cartvars
<1> QED
  BY <1>9, <1>10, <1>11, <1>8, SenseFrame DEF IInv

(* The write thread is at most one command further.                        *)
LEMMA WriteThreadStep ==
    ASSUME IInv, WriteThread
    PROVE  IInv'
<1> USE DEF IInv
<1>1. CASE get_next_ccb
  <2>1. write_devq # <<>> /\ Head(write_devq) \in QueueCmd /\ Tail(write_devq) \in Seq(QueueCmd)
        /\ Len(write_devq) > 0
    BY <1>1, SMT DEF get_next_ccb, Shape
  <2>2. Shape'
    BY <1>1, <2>1 DEF get_next_ccb, Shape, sensevars, modevars
  <2>3. Holder'
    BY <1>1 DEF get_next_ccb, Holder, cartvars
  <2>4. WriterHasTape'
    BY <1>1, <2>1, SMT DEF get_next_ccb, WriterHasTape, pending_cmds, cartvars
  <2> QED
    BY <1>1, <2>2, <2>3, <2>4, SenseFrame DEF get_next_ccb
<1>2. CASE tdrive_cmd_write6 \/ tdrive_cmd_write_filemarks
  <2>1. UNCHANGED sensevars \/ write_error(current)
    BY <1>2 DEF tdrive_cmd_write6, tdrive_cmd_write_filemarks
  <2>2. /\ writer = "busy" /\ writer' = "done"
        /\ UNCHANGED <<lock, dev, mover, cartvars, prevent, modevars, write_devq, current>>
    BY <1>2 DEF tdrive_cmd_write6, tdrive_cmd_write_filemarks
  <2>3. FailureTold' /\ owed' \subseteq Initiators /\ sense' \in [Initiators -> Seq(Entries)]
    BY <2>1, <2>2, ErrorTold
  <2>4. Shape'
    BY <2>2, <2>3 DEF Shape, modevars
  <2>5. Holder'
    BY <2>2 DEF Holder, cartvars
  <2>6. WriterHasTape'
    BY <2>2 DEF WriterHasTape, pending_cmds, cartvars
  <2> QED
    BY <2>3, <2>4, <2>5, <2>6
<1>3. CASE devq_process_queue
  <2>1. Shape'
    BY <1>3 DEF devq_process_queue, Shape, sensevars, modevars
  <2>2. Holder'
    BY <1>3 DEF devq_process_queue, Holder, cartvars
  <2>3. WriterHasTape'
    BY <1>3, SMT DEF devq_process_queue, WriterHasTape, pending_cmds, Shape, cartvars
  <2> QED
    BY <1>3, <2>1, <2>2, <2>3, SenseFrame DEF devq_process_queue
<1> QED
  BY <1>1, <1>2, <1>3 DEF WriteThread

-----------------------------------------------------------------------------
(* The steps on the sense lists.                                           *)
LEMMA AttentionStep ==
    ASSUME IInv, NEW i \in Initiators, device_unit_attention(i)
    PROVE  IInv'
<1> USE DEF IInv
<1>1. device_add_sense(i, "attention") /\ "attention" \in Entries
  BY DEF device_unit_attention, Entries
<1>2. /\ sense' \in [Initiators -> Seq(Entries)]
      /\ \A j \in Initiators \ {i} : sense'[j] = sense[j]
      /\ Len(sense[i]) # MAX_UNIT_ATTENTIONS => Range(sense[i]) \subseteq Range(sense'[i])
      /\ Len(sense[i]) = MAX_UNIT_ATTENTIONS => Range(Tail(sense[i])) \subseteq Range(sense'[i])
  BY <1>1, AddSense
<1>3. owed' \subseteq owed /\ owed \subseteq Initiators
  BY DEF device_unit_attention, Shape
<1>4. ASSUME NEW j \in owed' PROVE "deferred" \in Range(sense'[j])
  <2>1. CASE j # i
    BY <1>2, <1>3, <1>4, <2>1 DEF FailureTold
  <2>2. CASE j = i /\ Len(sense[i]) # MAX_UNIT_ATTENTIONS
    BY <1>2, <1>3, <1>4, <2>2 DEF FailureTold
  <2>3. CASE j = i /\ Len(sense[i]) = MAX_UNIT_ATTENTIONS
    <3>1. "deferred" \in Range(Tail(sense[i]))
      BY <1>4, <2>3 DEF device_unit_attention
    <3> QED
      BY <3>1, <2>3, <1>2
  <2> QED
    BY <2>1, <2>2, <2>3
<1>5. Shape'
  BY <1>2, <1>3 DEF device_unit_attention, Shape, queuevars, modevars
<1>6. Holder' /\ WriterHasTape'
  BY DEF device_unit_attention, Holder, WriterHasTape, pending_cmds, cartvars, queuevars
<1> QED
  BY <1>4, <1>5, <1>6 DEF FailureTold

(* Reporting the oldest entry ends the debt with the last error.           *)
LEMMA GetSenseStep ==
    ASSUME IInv, NEW i \in Initiators, device_get_sense(i)
    PROVE  IInv'
<1> USE DEF IInv
<1>1. sense[i] \in Seq(Entries) /\ sense[i] # <<>>
  BY DEF device_get_sense, Shape
<1>2. Tail(sense[i]) \in Seq(Entries)
  BY <1>1, SMT
<1>3. /\ sense' \in [Initiators -> Seq(Entries)]
      /\ sense'[i] = Tail(sense[i])
      /\ \A j \in Initiators \ {i} : sense'[j] = sense[j]
  BY <1>2 DEF device_get_sense, Shape
<1>4. owed' \subseteq owed /\ owed \subseteq Initiators
  BY DEF device_get_sense, Shape
<1>5. ASSUME NEW j \in owed' PROVE "deferred" \in Range(sense'[j])
  <2>1. CASE j # i
    BY <1>3, <1>4, <1>5, <2>1 DEF FailureTold
  <2>2. CASE j = i
    <3>1. "deferred" \in Range(Tail(sense[i]))
      BY <1>5, <2>2 DEF device_get_sense
    <3> QED
      BY <3>1, <2>2, <1>3
  <2> QED
    BY <2>1, <2>2
<1>6. Shape'
  BY <1>3, <1>4 DEF device_get_sense, Shape, queuevars, modevars
<1>7. Holder' /\ WriterHasTape'
  BY DEF device_get_sense, Holder, WriterHasTape, pending_cmds, cartvars, queuevars
<1> QED
  BY <1>5, <1>6, <1>7 DEF FailureTold

-----------------------------------------------------------------------------
(* The steps of the device thread and of movers other than those.  None    *)
(* touches queue or sense; WaitStart and Quiet say what is left to show.   *)
LEMMA WaitStart ==
    ASSUME IInv, NEW i \in Initiators, NEW pc, NEW arg,
           Start(i), Wait(i, pc, arg),
           pc = "room" => arg \in WriteCmd /\ tape /\ loaded,
           pc = "unload" => prevent = {},
           loaded' \in {loaded, TRUE}, buffered' \in BOOLEAN,
           UNCHANGED <<mover, tape, prevent, sensevars, queuevars>>
    PROVE  IInv'
<1> USE DEF IInv
<1>1. dev'.pc = pc /\ dev'.arg = arg /\ lock' = "dev" /\ lock = "free"
  BY DEF Wait, Start
<1>2. Shape'
  BY <1>1 DEF Shape, sensevars, queuevars
<1>3. Holder'
  BY <1>1 DEF Holder
<1>4. WriterHasTape'
  BY DEF WriterHasTape, pending_cmds, queuevars
<1> QED
  BY <1>2, <1>3, <1>4, SenseFrame

(* No command starts, and the cartridge goes only when nothing is pending. *)
LEMMA Quiet ==
    ASSUME IInv, Holder', buffered' \in BOOLEAN,
           dev' \in {dev, Idle},
           (tape' = tape /\ loaded' = loaded) \/ pending_cmds = 0 \/ (tape' /\ loaded'),
           UNCHANGED <<sensevars, queuevars>>
    PROVE  IInv'
<1> USE DEF IInv
<1>1. Shape'
  BY SMT DEF Shape, sensevars, queuevars, Idle
<1>2. WriterHasTape'
  BY SMT DEF WriterHasTape, pending_cmds, queuevars
<1> QED
  BY <1>1, <1>2, SenseFrame

(* An initiator's command.                                                 *)
LEMMA CommandStep ==
    ASSUME IInv, NEW i \in Initiators, Command(i)
    PROVE  IInv'
<1>1. CASE \E fixed \in BOOLEAN, len \in Lengths : tdrive_cmd_validate_write6(i, fixed, len)
  <2>1. PICK fixed \in BOOLEAN, len \in Lengths : tdrive_cmd_validate_write6(i, fixed, len)
    BY <1>1
  <2> DEFINE w == [op |-> "WRITE", i |-> i, fixed |-> fixed, len |-> len, buf |-> buffered]
  <2>2. buffered \in BOOLEAN
    BY DEF IInv, Shape
  <2>3. w \in WriteCmd
    BY <2>2 DEF WriteCmd
  <2>4. /\ Start(i) /\ Ready /\ Wait(i, "room", w)
        /\ UNCHANGED <<mover, cartvars, prevent, sensevars, modevars, queuevars>>
    BY <2>1 DEF tdrive_cmd_validate_write6
  <2> HIDE DEF w
  <2> QED
    BY <2>2, <2>3, <2>4, WaitStart DEF Ready, cartvars, modevars
<1>2. CASE \E immed \in BOOLEAN : tdrive_cmd_validate_write_filemarks(i, immed)
  BY <1>2, FilemarksStep
<1>3. CASE tdrive_empty_write_queue(i)
  BY <1>3, WaitStart DEF tdrive_empty_write_queue, cartvars, modevars, IInv, Shape
<1>4. CASE tdrive_cmd_load(i)
  BY <1>4, WaitStart DEF tdrive_cmd_load, modevars, IInv, Shape
<1>5. CASE tdrive_cmd_unload(i)
  BY <1>5, WaitStart DEF tdrive_cmd_unload, cartvars, modevars, IInv, Shape
<1>6. CASE \E mode \in Modes, len \in BlockLengths \cup {NoDescriptor} :
             tdrive_cmd_mode_select(i, mode, len)
  <2>1. PICK mode \in Modes, len \in BlockLengths \cup {NoDescriptor} :
             tdrive_cmd_mode_select(i, mode, len)
    BY <1>6
  <2>2. mode \in BOOLEAN
    BY SizesAssumption
  <2>3. buffered' \in BOOLEAN
    BY <2>1, <2>2 DEF tdrive_cmd_mode_select
  <2>4. Start(i) /\ UNCHANGED <<mover, cartvars, prevent, sensevars, queuevars>>
    BY <2>1 DEF tdrive_cmd_mode_select
  <2>5. Wait(i, "mode", len) \/ UNCHANGED <<lock, dev>>
    BY <2>1 DEF tdrive_cmd_mode_select
  <2>6. CASE Wait(i, "mode", len)
    BY <2>3, <2>4, <2>6, WaitStart DEF cartvars
  <2>7. CASE UNCHANGED <<lock, dev>>
    <3>1. Holder'
      BY <2>4, <2>7 DEF IInv, Holder, cartvars
    <3> QED
      BY <3>1, <2>3, <2>4, <2>7, Quiet DEF cartvars
  <2> QED
    BY <2>5, <2>6, <2>7
<1>7. CASE tdrive_cmd_format_medium(i)
  BY <1>7, WaitStart DEF tdrive_cmd_format_medium, cartvars, modevars, IInv, Shape
<1>8. CASE \E p \in BOOLEAN : tdrive_cmd_prevent_allow_medium_removal(i, p)
  <2>1. lock = "free" /\ UNCHANGED <<lock, dev, mover, cartvars, sensevars, modevars, queuevars>>
    BY <1>8 DEF tdrive_cmd_prevent_allow_medium_removal, Start
  <2>2. Holder'
    BY <2>1, SMT DEF IInv, Holder, cartvars, Idle
  <2> QED
    BY <2>1, <2>2, Quiet DEF cartvars, modevars, IInv, Shape
<1> QED
  BY <1>1, <1>2, <1>3, <1>4, <1>5, <1>6, <1>7, <1>8 DEF Command

(* The end of a command that has waited.                                   *)
LEMMA DeviceThreadStep ==
    ASSUME IInv, DeviceThread
    PROVE  IInv'
<1>1. CASE insert_write
  BY <1>1, InsertWriteStep
<1>2. CASE ~insert_write
  <2>1. /\ dev.pc \in {"wait", "unload", "mode", "format"}
        /\ Finish /\ pending_cmds = 0
        /\ UNCHANGED <<mover, prevent, sensevars, buffered, queuevars>>
    BY <1>2 DEF DeviceThread, wait_end, unload_end, tdrive_update_block_descriptor,
       format_end, tdrive_wait_for_write_queue, modevars
  <2>2. Holder'
    BY <2>1, SMT DEF IInv, Holder, Finish, Idle
  <2> QED
    BY <2>1, <2>2, Quiet DEF Finish, IInv, Shape
<1> QED
  BY <1>1, <1>2

(* Resets, and cartridges in and out.                                      *)
LEMMA CartridgeStep ==
    ASSUME IInv,
           \/ tdrive_reset \/ tdrive_load_tape \/ unload_tape_end
           \/ \E m \in Initiators \cup {NoInitiator} : tdrive_unload_tape(m)
    PROVE  IInv'
<1>1. CASE tdrive_reset
  <2>1. Holder'
    BY <1>1 DEF tdrive_reset, IInv, Holder, cartvars
  <2> QED
    BY <1>1, <2>1, Quiet DEF tdrive_reset, cartvars, modevars, IInv, Shape
<1>2. CASE tdrive_load_tape
  <2>1. Holder'
    BY <1>2 DEF tdrive_load_tape, IInv, Holder, Idle
  <2> QED
    BY <1>2, <2>1, Quiet DEF tdrive_load_tape, modevars, IInv, Shape
<1>3. CASE unload_tape_end
  <2>1. lock = "mover" /\ dev = Idle /\ lock' = "free" /\ mover' = NoInitiator
    BY <1>3 DEF unload_tape_end, IInv, Holder
  <2>2. Holder'
    BY <1>3, <2>1 DEF unload_tape_end, Holder, Idle
  <2> QED
    BY <1>3, <2>2, Quiet DEF unload_tape_end, tdrive_wait_for_write_queue, modevars, IInv, Shape
<1>4. CASE \E m \in Initiators \cup {NoInitiator} : tdrive_unload_tape(m)
  <2>1. PICK m \in Initiators \cup {NoInitiator} : tdrive_unload_tape(m)
    BY <1>4
  <2>2. lock = "free" /\ dev = Idle /\ dev' = dev /\ prevent' = prevent
        /\ UNCHANGED <<sensevars, modevars, queuevars>> /\ loaded' = loaded
    BY <2>1 DEF tdrive_unload_tape, IInv, Holder, cartvars
  <2>3. CASE loaded
    <3>1. Holder'
      BY <2>1, <2>2, <2>3, SMT DEF tdrive_unload_tape, Holder, Idle, cartvars
    <3> QED
      BY <2>1, <2>2, <2>3, <3>1, Quiet DEF tdrive_unload_tape, cartvars, modevars, IInv, Shape
  <2>4. CASE ~loaded
    <3>1. Holder'
      BY <2>1, <2>2, <2>4 DEF tdrive_unload_tape, IInv, Holder, Idle
    <3>2. pending_cmds = 0
      BY <2>4, SMT DEF IInv, WriterHasTape, pending_cmds, Shape
    <3> QED
      BY <2>2, <3>1, <3>2, Quiet DEF modevars, IInv, Shape
  <2> QED
    BY <2>3, <2>4
<1> QED
  BY <1>1, <1>2, <1>3, <1>4

(* IInv is inductive.                                                      *)
THEOREM StepIInv == IInv /\ [Next]_vars => IInv'
<1> SUFFICES ASSUME IInv, [Next]_vars PROVE IInv'
  OBVIOUS
<1>1. CASE UNCHANGED vars
  <2>1. Holder'
    BY <1>1 DEF vars, IInv, Holder, cartvars
  <2> QED
    BY <1>1, <2>1, Quiet DEF vars, cartvars, modevars, IInv, Shape
<1>2. CASE Next
  BY <1>2, CommandStep, AttentionStep, GetSenseStep, DeviceThreadStep, WriteThreadStep,
     CartridgeStep DEF Next
<1> QED
  BY <1>1, <1>2

(* Hence IInv always holds.                                                *)
THEOREM Invariance == Spec => []IInv
BY InitIInv, StepIInv, PTL DEF Spec

(* The write thread, which uses tdrive->tape without the lock, always has  *)
(* a loaded cartridge for the commands that wait for it.                   *)
THEOREM WriterHasTapeAlways == Spec => []WriterHasTape
<1>1. IInv => WriterHasTape
  BY DEF IInv
<1> QED
  BY <1>1, Invariance, PTL

(* Nobody but displacement by newer sense takes a deferred error from the  *)
(* initiator it is for (device_add_sense, device_get_sense).               *)
THEOREM FailureToldAlways == Spec => []FailureTold
<1>1. IInv => FailureTold
  BY DEF IInv
<1> QED
  BY <1>1, Invariance, PTL

(* Every unload of a cartridge, by LOAD UNLOAD or by the changer, happens  *)
(* while no other initiator prevents it.                                   *)
THEOREM PreventionAlways == Spec => PreventionHolds
<1>1. IInv /\ [Next]_vars => [loaded /\ ~loaded' => prevent \subseteq {mover}]_vars
  <2> SUFFICES ASSUME IInv, Next, loaded, ~loaded' PROVE prevent \subseteq {mover}
    OBVIOUS
  <2>1. ASSUME NEW i \in Initiators, Command(i) PROVE FALSE
    BY <2>1 DEF Command, tdrive_cmd_validate_write6, tdrive_cmd_validate_write_filemarks,
       tdrive_empty_write_queue, tdrive_cmd_load, tdrive_cmd_unload, tdrive_cmd_mode_select,
       tdrive_cmd_format_medium, tdrive_cmd_prevent_allow_medium_removal, cartvars
  <2>2. ASSUME NEW i \in Initiators, device_unit_attention(i) \/ device_get_sense(i) PROVE FALSE
    BY <2>2 DEF device_unit_attention, device_get_sense, cartvars
  <2>3. CASE DeviceThread
    <3>1. unload_end
      BY <2>3 DEF DeviceThread, insert_write, wait_end, tdrive_update_block_descriptor,
         format_end, cartvars
    <3> QED
      BY <3>1 DEF unload_end, IInv, Holder
  <2>4. CASE WriteThread
    BY <2>4 DEF WriteThread, get_next_ccb, tdrive_cmd_write6, tdrive_cmd_write_filemarks,
       devq_process_queue, cartvars
  <2>5. CASE tdrive_reset \/ tdrive_load_tape
    BY <2>5 DEF tdrive_reset, tdrive_load_tape, cartvars
  <2>6. ASSUME NEW m, tdrive_unload_tape(m) PROVE FALSE
    BY <2>6 DEF tdrive_unload_tape, cartvars
  <2>7. CASE unload_tape_end
    BY <2>7 DEF unload_tape_end, IInv, Holder
  <2> QED
    BY <2>1, <2>2, <2>3, <2>4, <2>5, <2>6, <2>7 DEF Next
<1> QED
  BY <1>1, Invariance, PTL DEF Spec, PreventionHolds

-----------------------------------------------------------------------------
(* Sums.                                                                   *)

(* A sum of naturals is one, and grows by its last term.                   *)
LEMMA SumIs ==
    ASSUME NEW N \in Nat, NEW f \in [1..N -> Nat]
    PROVE  /\ SumTo(f, 0) = 0
           /\ \A n \in 0..N : SumTo(f, n) \in Nat
           /\ \A n \in 1..N : SumTo(f, n) = SumTo(f, n - 1) + f[n]
<1> DEFINE step == [x \in Nat \X (1..N) |-> x[1] + f[x[2]]]
<1>1. PICK s \in [0..N -> Nat] :
          s = [n \in 0..N |-> IF n = 0 THEN 0 ELSE step[s[n - 1], n]]
  <2>1. step \in [Nat \X (1..N) -> Nat]
    BY SMT
  <2> HIDE DEF step
  <2>2. \E s \in [0..N -> Nat] : IsLoop(s, 0, N, step)
    BY <2>1, LoopExists
  <2> QED
    BY <2>2 DEF IsLoop
<1>2. s[0] = 0 /\ \A n \in 1..N : s[n] = s[n - 1] + f[n]
  <2>1. \A n \in 1..N : n \in 0..N /\ n # 0 /\ n - 1 \in 0..N
    BY SMT
  <2>2. \A n \in 1..N : step[s[n - 1], n] = s[n - 1] + f[n]
    BY <2>1
  <2>3. 0 \in 0..N
    BY SMT
  <2> HIDE DEF step
  <2>4. s[0] = 0
    BY <1>1, <2>3
  <2>5. \A n \in 1..N : s[n] = step[s[n - 1], n]
    BY <1>1, <2>1
  <2> QED
    BY <2>2, <2>4, <2>5
<1> HIDE DEF step
<1>3. ASSUME NEW k \in 0..N PROVE SumTo(f, k) = s[k]
  <2> DEFINE Body(g) == [n \in 0..k |-> IF n = 0 THEN 0 ELSE g[n - 1] + f[n]]
             sum == CHOOSE g : g = Body(g)
             r == [n \in 0..k |-> s[n]]
  <2>1. r = Body(r)
    <3>1. \A n \in 0..k : n # 0 => n \in 1..N /\ n - 1 \in 0..k
      BY SMT
    <3>2. \A n \in 0..k : r[n] = IF n = 0 THEN 0 ELSE r[n - 1] + f[n]
      BY <1>2, <3>1
    <3> QED
      BY <3>2
  <2>2. sum = Body(sum)
    BY <2>1
  <2>3. SumTo(f, k) = sum[k]
    BY DEF SumTo
  <2> HIDE DEF sum
  <2> DEFINE P == {n \in 0..k : sum[n] = s[n]}
  <2>4. 0 \in P
    BY <1>2, <2>2, SMT
  <2>5. ASSUME NEW n \in 1..k, n - 1 \in P PROVE n \in P
    <3>1. n \in 0..k /\ n # 0 /\ n \in 1..N
      BY SMT
    <3>2. sum[n] = sum[n - 1] + f[n]
      BY <2>2, <3>1
    <3>3. sum[n - 1] = s[n - 1]
      BY <2>5
    <3> QED
      BY <1>2, <3>1, <3>2, <3>3
  <2>6. \A n \in 0..k : n \in P
    <3> HIDE DEF P
    <3>1. k \in Nat
      BY SMT
    <3> QED
      BY <2>4, <2>5, <3>1, InductionUpTo
  <2>7. k \in P
    BY <2>6, SMT
  <2> QED
    BY <2>3, <2>7
<1>4. \A n \in 1..N : n \in 0..N /\ n - 1 \in 0..N
  BY SMT
<1>5. 0 \in 0..N
  BY SMT
<1> QED
  BY <1>2, <1>3, <1>4, <1>5

(* It does not depend on what comes later.                                 *)
LEMMA SumPrefix ==
    ASSUME NEW N \in Nat, NEW M \in Nat, N <= M, NEW f \in [1..N -> Nat], NEW g \in [1..M -> Nat],
           \A j \in 1..N : g[j] = f[j]
    PROVE  \A n \in 0..N : SumTo(g, n) = SumTo(f, n)
<1> DEFINE P == {n \in 0..N : SumTo(g, n) = SumTo(f, n)}
<1>1. 0 \in P
  <2>1. SumTo(f, 0) = 0 /\ SumTo(g, 0) = 0
    BY SumIs
  <2> QED
    BY <2>1, SMT
<1>2. ASSUME NEW n \in 1..N, n - 1 \in P PROVE n \in P
  <2>1. n \in 1..M
    BY SMT
  <2>2. SumTo(g, n) = SumTo(g, n - 1) + g[n]
    BY <2>1, SumIs
  <2>3. SumTo(f, n) = SumTo(f, n - 1) + f[n]
    BY SumIs
  <2> QED
    BY <1>2, <2>2, <2>3, SMT
<1>3. \A n \in 0..N : n \in P
  <2> HIDE DEF P
  <2> QED
    BY <1>1, <1>2, InductionUpTo
<1> QED
  BY <1>3

(* The first term may be taken out.                                        *)
LEMMA SumShift ==
    ASSUME NEW N \in Nat, NEW f \in [1..(N + 1) -> Nat], NEW g \in [1..N -> Nat],
           \A j \in 1..N : g[j] = f[j + 1]
    PROVE  \A n \in 0..N : SumTo(f, n + 1) = f[1] + SumTo(g, n)
<1> DEFINE P == {n \in 0..N : SumTo(f, n + 1) = f[1] + SumTo(g, n)}
<1>0. N + 1 \in Nat
  BY SMT
<1>1. /\ SumTo(f, 0) = 0
      /\ \A n \in 0..(N + 1) : SumTo(f, n) \in Nat
      /\ \A n \in 1..(N + 1) : SumTo(f, n) = SumTo(f, n - 1) + f[n]
  BY <1>0, SumIs
<1>2. /\ SumTo(g, 0) = 0
      /\ \A n \in 0..N : SumTo(g, n) \in Nat
      /\ \A n \in 1..N : SumTo(g, n) = SumTo(g, n - 1) + g[n]
  BY SumIs
<1>3. 0 \in P
  <2>1. 1 \in 1..(N + 1) /\ 1 - 1 = 0 /\ 0 + 1 = 1 /\ 0 \in 0..N /\ f[1] \in Nat
    BY SMT
  <2>2. SumTo(f, 1) = SumTo(f, 1 - 1) + f[1]
    BY <1>1, <2>1
  <2>3. SumTo(f, 1) = f[1]
    BY <1>1, <2>1, <2>2, SMT
  <2> QED
    BY <1>2, <2>1, <2>3, SMT
<1>4. ASSUME NEW n \in 1..N, n - 1 \in P PROVE n \in P
  <2>1. n + 1 \in 1..(N + 1) /\ (n + 1) - 1 = n /\ (n - 1) + 1 = n /\ n \in 0..N
    BY SMT
  <2>2. SumTo(f, n + 1) = SumTo(f, n) + f[n + 1]
    BY <1>1, <2>1
  <2>3. SumTo(f, n) = f[1] + SumTo(g, n - 1)
    BY <1>4, <2>1
  <2>4. SumTo(g, n) = SumTo(g, n - 1) + f[n + 1]
    BY <1>2
  <2>5. SumTo(g, n - 1) \in Nat /\ f[1] \in Nat /\ f[n + 1] \in Nat
    BY <1>2, <2>1, SMT
  <2> QED
    BY <2>1, <2>2, <2>3, <2>4, <2>5, SMT
<1>5. \A n \in 0..N : n \in P
  <2> HIDE DEF P
  <2> QED
    BY <1>3, <1>4, InductionUpTo
<1> QED
  BY <1>5

-----------------------------------------------------------------------------
(* What waits for the write thread.                                        *)

(* Every command has a size and a number of blocks.                        *)
LEMMA SizeType ==
    ASSUME block_length \in Nat, NEW w \in QueueCmd
    PROVE  Size(w) \in Nat /\ Blocks(w) \in Nat
<1>1. CASE w \in WriteCmd
  <2>1. w.len \in Nat /\ w.fixed \in BOOLEAN
    BY <1>1, SizesAssumption DEF WriteCmd
  <2>2. block_size(w) \in Nat /\ num_blocks(w) \in Nat
    BY <2>1 DEF block_size, num_blocks
  <2>3. block_size(w) * num_blocks(w) \in Nat
    BY <2>2, SMT
  <2> QED
    BY <2>2, <2>3 DEF Size, Blocks
<1>2. CASE w \in MarkCmd
  BY <1>2 DEF MarkCmd, Size, Blocks
<1> QED
  BY <1>1, <1>2 DEF QueueCmd

(* And so does every queue of commands.                                    *)
LEMMA QueueType ==
    ASSUME block_length \in Nat, NEW q \in Seq(QueueCmd)
    PROVE  /\ Len(q) \in Nat /\ DOMAIN q = 1..Len(q)
           /\ Sizes(q) \in [1..Len(q) -> Nat] /\ Counts(q) \in [1..Len(q) -> Nat]
           /\ \A j \in 1..Len(q) : Sizes(q)[j] = Size(q[j]) /\ Counts(q)[j] = Blocks(q[j])
<1>1. Len(q) \in Nat /\ DOMAIN q = 1..Len(q) /\ \A j \in 1..Len(q) : q[j] \in QueueCmd
  BY SMT
<1> QED
  BY <1>1, SizeType DEF Sizes, Counts

(* Sums over a queue are naturals, and zero over none of it.               *)
LEMMA QueueSums ==
    ASSUME block_length \in Nat, NEW q \in Seq(QueueCmd)
    PROVE  /\ SumTo(Sizes(q), 0) = 0 /\ SumTo(Counts(q), 0) = 0
           /\ \A n \in 0..Len(q) : SumTo(Sizes(q), n) \in Nat /\ SumTo(Counts(q), n) \in Nat
<1>1. /\ Len(q) \in Nat
      /\ Sizes(q) \in [1..Len(q) -> Nat] /\ Counts(q) \in [1..Len(q) -> Nat]
  BY QueueType
<1>2. SumTo(Sizes(q), 0) = 0 /\ \A n \in 0..Len(q) : SumTo(Sizes(q), n) \in Nat
  BY <1>1, SumIs
<1>3. SumTo(Counts(q), 0) = 0 /\ \A n \in 0..Len(q) : SumTo(Counts(q), n) \in Nat
  BY <1>1, SumIs
<1> QED
  BY <1>2, <1>3

(* A command at the end of the queue adds its size, and changes nothing    *)
(* before it.                                                              *)
LEMMA QueueAppend ==
    ASSUME block_length \in Nat, NEW q \in Seq(QueueCmd), NEW w \in QueueCmd
    PROVE  LET r == Append(q, w) IN
           /\ \A n \in 0..Len(q) : /\ SumTo(Sizes(r), n) = SumTo(Sizes(q), n)
                                   /\ SumTo(Counts(r), n) = SumTo(Counts(q), n)
           /\ SumTo(Sizes(r), Len(q) + 1) = SumTo(Sizes(q), Len(q)) + Size(w)
           /\ SumTo(Counts(r), Len(q) + 1) = SumTo(Counts(q), Len(q)) + Blocks(w)
<1> DEFINE r == Append(q, w)
           N == Len(q)
<1>1. /\ N \in Nat /\ DOMAIN q = 1..N
      /\ Sizes(q) \in [1..N -> Nat] /\ Counts(q) \in [1..N -> Nat]
      /\ \A j \in 1..N : Sizes(q)[j] = Size(q[j]) /\ Counts(q)[j] = Blocks(q[j])
  BY QueueType
<1>2. /\ r \in Seq(QueueCmd) /\ Len(r) = N + 1
      /\ \A j \in 1..N : r[j] = q[j]
      /\ r[N + 1] = w
  BY SMT
<1> HIDE DEF r, N
<1>3. /\ Sizes(r) \in [1..(N + 1) -> Nat] /\ Counts(r) \in [1..(N + 1) -> Nat]
      /\ \A j \in 1..(N + 1) : Sizes(r)[j] = Size(r[j]) /\ Counts(r)[j] = Blocks(r[j])
  BY <1>2, QueueType
<1>4. \A j \in 1..N : Sizes(r)[j] = Sizes(q)[j] /\ Counts(r)[j] = Counts(q)[j]
  <2>1. \A j \in 1..N : j \in 1..(N + 1)
    BY <1>1, SMT
  <2> QED
    BY <1>1, <1>2, <1>3, <2>1
<1>5. N + 1 \in Nat /\ N <= N + 1 /\ N + 1 \in 1..(N + 1) /\ (N + 1) - 1 = N /\ N \in 0..N
  BY <1>1, SMT
<1>6. \A n \in 0..N : SumTo(Sizes(r), n) = SumTo(Sizes(q), n)
  BY <1>1, <1>3, <1>4, <1>5, SumPrefix
<1>7. \A n \in 0..N : SumTo(Counts(r), n) = SumTo(Counts(q), n)
  BY <1>1, <1>3, <1>4, <1>5, SumPrefix
<1>8. SumTo(Sizes(r), N + 1) = SumTo(Sizes(r), N) + Sizes(r)[N + 1]
  <2>1. \A n \in 1..(N + 1) : SumTo(Sizes(r), n) = SumTo(Sizes(r), n - 1) + Sizes(r)[n]
    BY <1>3, <1>5, SumIs
  <2> QED
    BY <1>5, <2>1
<1>9. SumTo(Counts(r), N + 1) = SumTo(Counts(r), N) + Counts(r)[N + 1]
  <2>1. \A n \in 1..(N + 1) : SumTo(Counts(r), n) = SumTo(Counts(r), n - 1) + Counts(r)[n]
    BY <1>3, <1>5, SumIs
  <2> QED
    BY <1>5, <2>1
<1>10. Sizes(r)[N + 1] = Size(w) /\ Counts(r)[N + 1] = Blocks(w)
  BY <1>2, <1>3, <1>5
<1>11. /\ SumTo(Sizes(r), N + 1) = SumTo(Sizes(q), N) + Size(w)
       /\ SumTo(Counts(r), N + 1) = SumTo(Counts(q), N) + Blocks(w)
  BY <1>5, <1>6, <1>7, <1>8, <1>9, <1>10
<1> QED
  BY <1>6, <1>7, <1>11 DEF r, N

(* The command that the write thread takes is the first term of the sum.   *)
LEMMA QueueTail ==
    ASSUME block_length \in Nat, NEW q \in Seq(QueueCmd), q # <<>>
    PROVE  \A n \in 0..Len(Tail(q)) :
              /\ SumTo(Sizes(q), n + 1) = Size(Head(q)) + SumTo(Sizes(Tail(q)), n)
              /\ SumTo(Counts(q), n + 1) = Blocks(Head(q)) + SumTo(Counts(Tail(q)), n)
<1> DEFINE r == Tail(q)
           N == Len(r)
<1>1. /\ r \in Seq(QueueCmd) /\ N \in Nat /\ Len(q) = N + 1
      /\ \A j \in 1..N : r[j] = q[j + 1]
      /\ Head(q) = q[1]
  BY SMT
<1> HIDE DEF r
<1>2. /\ Sizes(q) \in [1..Len(q) -> Nat] /\ Counts(q) \in [1..Len(q) -> Nat]
      /\ \A j \in 1..Len(q) : Sizes(q)[j] = Size(q[j]) /\ Counts(q)[j] = Blocks(q[j])
  BY QueueType
<1>3. /\ Sizes(r) \in [1..N -> Nat] /\ Counts(r) \in [1..N -> Nat]
      /\ \A j \in 1..N : Sizes(r)[j] = Size(r[j]) /\ Counts(r)[j] = Blocks(r[j])
  BY <1>1, QueueType
<1> HIDE DEF N
<1>4. \A j \in 1..N : j + 1 \in 1..Len(q)
  BY <1>1, SMT
<1>5. \A j \in 1..N : Sizes(r)[j] = Sizes(q)[j + 1] /\ Counts(r)[j] = Counts(q)[j + 1]
  BY <1>1, <1>2, <1>3, <1>4, SMT
<1>6. 1 \in 1..Len(q)
  BY <1>1, SMT
<1>7. Sizes(q)[1] = Size(Head(q)) /\ Counts(q)[1] = Blocks(Head(q))
  BY <1>1, <1>2, <1>6
<1>8. Sizes(q) \in [1..(N + 1) -> Nat] /\ Counts(q) \in [1..(N + 1) -> Nat]
  BY <1>1, <1>2
<1>9. \A n \in 0..N : SumTo(Sizes(q), n + 1) = Sizes(q)[1] + SumTo(Sizes(r), n)
  BY <1>1, <1>3, <1>5, <1>8, SumShift
<1>10. \A n \in 0..N : SumTo(Counts(q), n + 1) = Counts(q)[1] + SumTo(Counts(r), n)
  BY <1>1, <1>3, <1>5, <1>8, SumShift
<1> QED
  BY <1>7, <1>9, <1>10 DEF N, r

-----------------------------------------------------------------------------
(***************************************************************************)
(* What IInv leaves open of the types, and the bounds on the counts.       *)
(***************************************************************************)
DevOK ==
    \/ dev = Idle
    \/ dev \in [pc : {"room"}, i : Initiators, arg : WriteCmd]
    \/ dev \in [pc : {"wait", "unload", "format"}, i : Initiators, arg : {<<>>}]
    \/ dev \in [pc : {"mode"}, i : Initiators, arg : BlockLengths]

SenseBounded == \A i \in Initiators : Len(sense[i]) <= MAX_UNIT_ATTENTIONS

Rest ==
    /\ lock \in {"free", "dev", "mover"}
    /\ DevOK
    /\ mover \in Initiators \cup {NoInitiator}
    /\ tape \in BOOLEAN /\ loaded \in BOOLEAN
    /\ prevent \subseteq Initiators
    /\ SenseBounded
    /\ block_length \in Nat
    /\ writer = "idle" => current = <<>>
    /\ pending_size \in Nat /\ pending_writes \in Nat

Accounts == Rest /\ PendingCovers /\ CacheBounded

(* Together with IInv this is what TypeOK says.                            *)
LEMMA TypesFollow == IInv /\ Accounts => TypeOK
BY DEF IInv, Accounts, Shape, Rest, DevOK, SenseBounded, TypeOK, Entries

(* What waits has a size in every state.                                   *)
LEMMA SizeOfType ==
    ASSUME IInv, Accounts
    PROVE  \A k \in 0..Len(write_devq) : SizeOf(k) \in Nat /\ BlocksOf(k) \in Nat
<1>1. /\ block_length \in Nat /\ write_devq \in Seq(QueueCmd)
      /\ writer = "busy" => current \in QueueCmd
  BY DEF IInv, Shape, Accounts, Rest
<1>2. \A n \in 0..Len(write_devq) :
          SumTo(Sizes(write_devq), n) \in Nat /\ SumTo(Counts(write_devq), n) \in Nat
  BY <1>1, QueueSums
<1>3. writer = "busy" => Size(current) \in Nat /\ Blocks(current) \in Nat
  BY <1>1, SizeType
<1> QED
  BY <1>2, <1>3, SMT DEF SizeOf, BlocksOf

(* A step that leaves the queue alone, and changes the block length or the *)
(* counts only while nothing waits, keeps the bounds.                      *)
LEMMA SameQueue ==
    ASSUME IInv, Accounts, UNCHANGED queuevars,
           \/ block_length' = block_length /\ UNCHANGED countvars
           \/ /\ pending_cmds = 0
              /\ block_length' \in Nat /\ pending_size' \in Nat /\ pending_writes' \in Nat
    PROVE  PendingCovers' /\ CacheBounded'
<1>0. write_devq' = write_devq /\ writer' = writer /\ current' = current
  BY DEF queuevars
<1>1. CASE block_length' = block_length /\ UNCHANGED countvars
  <2>1. \A k : SizeOf(k)' = SizeOf(k) /\ BlocksOf(k)' = BlocksOf(k)
    BY <1>0, <1>1 DEF SizeOf, BlocksOf, Sizes, Counts, Size, Blocks, block_size, num_blocks
  <2>2. UNCHANGED <<pending_size, pending_writes>>
    BY <1>1 DEF countvars
  <2> QED
    BY <1>0, <2>1, <2>2 DEF Accounts, PendingCovers, CacheBounded
<1>2. CASE /\ pending_cmds = 0
           /\ block_length' \in Nat /\ pending_size' \in Nat /\ pending_writes' \in Nat
  <2>1. write_devq \in Seq(QueueCmd) /\ writer \in {"idle", "busy", "done"}
    BY DEF IInv, Shape
  <2>2. writer = "idle" /\ Len(write_devq) = 0 /\ write_devq = <<>>
    BY <1>2, <2>1, SMT DEF pending_cmds
  <2>3. Sizes(<<>>)' = <<>> /\ Counts(<<>>)' = <<>>
    BY SMT DEF Sizes, Counts
  <2>4. SumTo(<<>>, 0) = 0
    <3>1. 0 \in Nat /\ <<>> \in [1..0 -> Nat]
      BY SMT
    <3> QED
      BY <3>1, SumIs
  <2>5. SizeOf(0)' = 0 /\ BlocksOf(0)' = 0
    BY <1>0, <2>2, <2>3, <2>4, SMT DEF SizeOf, BlocksOf
  <2>6. PendingCovers'
    BY <1>0, <1>2, <2>2, <2>5, SMT DEF PendingCovers
  <2>7. CacheBounded'
    BY <1>0, <2>2, SMT DEF CacheBounded
  <2> QED
    BY <2>6, <2>7
<1> QED
  BY <1>1, <1>2

(* A command that is queued is counted; a WRITE is queued when the counts  *)
(* leave it room (tdrive_incr_pending_writes).                             *)
LEMMA QueuedCounts ==
    ASSUME IInv, Accounts, NEW w \in QueueCmd,
           write_devq' = Append(write_devq, w),
           UNCHANGED <<current, writer, block_length>>,
           pending_size' = pending_size + Size(w),
           pending_writes' = pending_writes + Blocks(w),
           w.op = "WRITE" => pending_size <= TDRIVE_WRITE_CACHE_SIZE
    PROVE  /\ PendingCovers' /\ CacheBounded'
           /\ pending_size' \in Nat /\ pending_writes' \in Nat
<1>0. PICK N \in Nat : N = Len(write_devq)
  BY SMT DEF IInv, Shape
<1>1. /\ block_length \in Nat /\ write_devq \in Seq(QueueCmd)
      /\ pending_size \in Nat /\ pending_writes \in Nat
      /\ pending_size >= SizeOf(N) /\ pending_writes >= BlocksOf(N)
  BY <1>0 DEF IInv, Shape, Accounts, Rest, PendingCovers
<1>2. Size(w) \in Nat /\ Blocks(w) \in Nat
  BY <1>1, SizeType
<1>3. \A k \in 0..N : SizeOf(k) \in Nat /\ BlocksOf(k) \in Nat
  BY <1>0, SizeOfType
<1>4. /\ \A n \in 0..N : /\ SumTo(Sizes(write_devq'), n) = SumTo(Sizes(write_devq), n)
                         /\ SumTo(Counts(write_devq'), n) = SumTo(Counts(write_devq), n)
      /\ SumTo(Sizes(write_devq'), N + 1) = SumTo(Sizes(write_devq), N) + Size(w)
      /\ SumTo(Counts(write_devq'), N + 1) = SumTo(Counts(write_devq), N) + Blocks(w)
  BY <1>0, <1>1, QueueAppend
<1>5. /\ Len(write_devq') = N + 1
      /\ \A k \in 1..N : write_devq'[k] = write_devq[k]
      /\ write_devq'[N + 1] = w
  BY <1>0, <1>1, SMT
<1>6. \A k : /\ SizeOf(k)' = (IF writer = "busy" THEN Size(current) ELSE 0)
                             + SumTo(Sizes(write_devq'), k)
             /\ BlocksOf(k)' = (IF writer = "busy" THEN Blocks(current) ELSE 0)
                               + SumTo(Counts(write_devq'), k)
  BY DEF SizeOf, BlocksOf, Sizes, Counts, Size, Blocks, block_size, num_blocks
<1>7. \A k \in 0..N : SizeOf(k)' = SizeOf(k) /\ BlocksOf(k)' = BlocksOf(k)
  BY <1>4, <1>6 DEF SizeOf, BlocksOf
<1>8. SizeOf(N + 1)' = SizeOf(N) + Size(w) /\ BlocksOf(N + 1)' = BlocksOf(N) + Blocks(w)
  <2>1. writer = "busy" => current \in QueueCmd
    BY DEF IInv, Shape, Accounts, Rest
  <2>2. writer = "busy" => Size(current) \in Nat /\ Blocks(current) \in Nat
    BY <1>1, <2>1, SizeType
  <2>3. SumTo(Sizes(write_devq), N) \in Nat /\ SumTo(Counts(write_devq), N) \in Nat
    BY <1>0, <1>1, QueueSums, SMT
  <2> QED
    BY <1>2, <1>4, <1>6, <2>2, <2>3, SMT DEF SizeOf, BlocksOf
<1>9. PendingCovers'
  <2>1. N \in 0..N
    BY SMT
  <2>2. Len(write_devq)' = N + 1
    BY <1>5
  <2>3. /\ SizeOf(Len(write_devq))' = SizeOf(N + 1)'
        /\ BlocksOf(Len(write_devq))' = BlocksOf(N + 1)'
    BY <2>2 DEF SizeOf, BlocksOf
  <2>4. SizeOf(N) \in Nat /\ BlocksOf(N) \in Nat
    BY <1>3, <2>1
  <2>5. /\ pending_size + Size(w) >= SizeOf(N) + Size(w)
        /\ pending_writes + Blocks(w) >= BlocksOf(N) + Blocks(w)
    BY <1>1, <1>2, <2>4, SMT
  <2> QED
    BY <1>8, <2>3, <2>5 DEF PendingCovers
<1>10. CacheBounded'
  <2> SUFFICES ASSUME NEW k \in 1..(N + 1), write_devq'[k].op = "WRITE"
               PROVE  SizeOf(k - 1)' <= TDRIVE_WRITE_CACHE_SIZE
    BY <1>5 DEF CacheBounded
  <2>1. k - 1 \in 0..N /\ (k \in 1..N \/ k = N + 1) /\ N \in 0..N
    BY SMT
  <2>2. SizeOf(k - 1)' = SizeOf(k - 1)
    BY <1>7, <2>1
  <2>3. CASE k \in 1..N
    BY <1>0, <1>5, <2>2, <2>3 DEF Accounts, CacheBounded
  <2>4. CASE k = N + 1
    <3>1. w.op = "WRITE" /\ k - 1 = N
      BY <1>5, <2>4, SMT
    <3>2. SizeOf(N) <= pending_size /\ pending_size <= TDRIVE_WRITE_CACHE_SIZE
      BY <1>1, <1>3, <2>1, <3>1
    <3> QED
      BY <1>1, <1>3, <2>1, <2>2, <3>1, <3>2, SizesAssumption, SMT
  <2> QED
    BY <2>1, <2>3, <2>4
<1> QED
  BY <1>1, <1>2, <1>9, <1>10, SMT

(* The write thread takes the first command.                               *)
LEMMA TakenCounts ==
    ASSUME IInv, Accounts, get_next_ccb
    PROVE  PendingCovers' /\ CacheBounded'
<1>0. /\ write_devq \in Seq(QueueCmd) /\ write_devq # <<>> /\ block_length \in Nat
      /\ writer = "idle"
  BY DEF IInv, Shape, Accounts, Rest, get_next_ccb
<1>1. PICK q \in Seq(QueueCmd), N \in Nat, w \in QueueCmd :
          /\ q = Tail(write_devq) /\ N = Len(q) /\ w = Head(write_devq)
          /\ Len(write_devq) = N + 1
          /\ \A k \in 1..N : q[k] = write_devq[k + 1]
  <2> DEFINE q == Tail(write_devq)
  <2>1. /\ q \in Seq(QueueCmd) /\ Len(q) \in Nat /\ Head(write_devq) \in QueueCmd
        /\ Len(write_devq) = Len(q) + 1
        /\ \A k \in 1..Len(q) : q[k] = write_devq[k + 1]
    BY <1>0, SMT
  <2> HIDE DEF q
  <2>2. \E N \in Nat, w \in QueueCmd :
            /\ N = Len(q) /\ w = Head(write_devq)
            /\ Len(write_devq) = N + 1
            /\ \A k \in 1..N : q[k] = write_devq[k + 1]
    BY <2>1
  <2> QED
    BY <2>1, <2>2 DEF q
<1>2. /\ write_devq' = q /\ current' = w /\ writer' = "busy"
      /\ UNCHANGED <<block_length, pending_size, pending_writes>>
  BY <1>1 DEF get_next_ccb, modevars, countvars
<1>3. \A n \in 0..N :
          /\ SumTo(Sizes(write_devq), n + 1) = Size(w) + SumTo(Sizes(q), n)
          /\ SumTo(Counts(write_devq), n + 1) = Blocks(w) + SumTo(Counts(q), n)
  BY <1>0, <1>1, QueueTail
<1>4. \A k : /\ SizeOf(k)' = Size(w) + SumTo(Sizes(q), k)
             /\ BlocksOf(k)' = Blocks(w) + SumTo(Counts(q), k)
  BY <1>2 DEF SizeOf, BlocksOf, Sizes, Counts, Size, Blocks, block_size, num_blocks
<1>5. \A k : /\ SizeOf(k) = 0 + SumTo(Sizes(write_devq), k)
             /\ BlocksOf(k) = 0 + SumTo(Counts(write_devq), k)
  BY <1>0 DEF SizeOf, BlocksOf
<1>6. \A n \in 0..N : SizeOf(n)' = SizeOf(n + 1) /\ BlocksOf(n)' = BlocksOf(n + 1)
  <2> SUFFICES ASSUME NEW n \in 0..N
               PROVE  SizeOf(n)' = SizeOf(n + 1) /\ BlocksOf(n)' = BlocksOf(n + 1)
    OBVIOUS
  <2>1. SumTo(Sizes(write_devq), n + 1) \in Nat /\ SumTo(Counts(write_devq), n + 1) \in Nat
    <3>1. n + 1 \in 0..Len(write_devq)
      BY <1>1, SMT
    <3> QED
      BY <1>0, <3>1, QueueSums
  <2> QED
    BY <1>3, <1>4, <1>5, <2>1, SMT
<1>7. PendingCovers'
  <2>1. Len(write_devq)' = N /\ N \in 0..N
    BY <1>1, <1>2, SMT
  <2>2. SizeOf(Len(write_devq))' = SizeOf(N)' /\ BlocksOf(Len(write_devq))' = BlocksOf(N)'
    BY <2>1 DEF SizeOf, BlocksOf
  <2>3. pending_size >= SizeOf(N + 1) /\ pending_writes >= BlocksOf(N + 1)
    BY <1>1 DEF Accounts, PendingCovers
  <2> QED
    BY <1>2, <1>6, <2>1, <2>2, <2>3 DEF PendingCovers
<1>8. CacheBounded'
  <2> SUFFICES ASSUME NEW k \in 1..N, q[k].op = "WRITE"
               PROVE  SizeOf(k - 1)' <= TDRIVE_WRITE_CACHE_SIZE
    BY <1>1, <1>2 DEF CacheBounded
  <2>1. k - 1 \in 0..N /\ (k - 1) + 1 = k /\ (k + 1) - 1 = k /\ k + 1 \in 1..Len(write_devq)
    BY <1>1, SMT
  <2>2. SizeOf(k - 1)' = SizeOf(k)
    BY <1>6, <2>1
  <2>3. write_devq[k + 1].op = "WRITE"
    BY <1>1
  <2> QED
    BY <2>1, <2>2, <2>3 DEF Accounts, CacheBounded
<1> QED
  BY <1>7, <1>8

(* The write thread has written its command, or failed to: what waits is   *)
(* less by its size, and the counts, if at all, by as much.                *)
LEMMA WrittenCounts ==
    ASSUME IInv, Accounts, tdrive_cmd_write6 \/ tdrive_cmd_write_filemarks
    PROVE  /\ PendingCovers' /\ CacheBounded'
           /\ pending_size' \in Nat /\ pending_writes' \in Nat
<1>0. PICK N \in Nat : N = Len(write_devq)
  BY SMT DEF IInv, Shape
<1>1. /\ writer = "busy" /\ writer' = "done" /\ current \in QueueCmd
      /\ block_length \in Nat /\ write_devq \in Seq(QueueCmd)
      /\ UNCHANGED <<write_devq, current, block_length>>
  BY DEF IInv, Shape, Accounts, Rest, tdrive_cmd_write6, tdrive_cmd_write_filemarks, modevars
<1>2. Size(current) \in Nat /\ Blocks(current) \in Nat
  BY <1>1, SizeType
<1>3. \A k \in 0..N :
          SumTo(Sizes(write_devq), k) \in Nat /\ SumTo(Counts(write_devq), k) \in Nat
  BY <1>0, <1>1, QueueSums
<1>4. \A k : /\ SizeOf(k) = Size(current) + SumTo(Sizes(write_devq), k)
             /\ BlocksOf(k) = Blocks(current) + SumTo(Counts(write_devq), k)
  BY <1>1 DEF SizeOf, BlocksOf
<1>5. \A k : /\ SizeOf(k)' = 0 + SumTo(Sizes(write_devq), k)
             /\ BlocksOf(k)' = 0 + SumTo(Counts(write_devq), k)
  BY <1>1 DEF SizeOf, BlocksOf, Sizes, Counts, Size, Blocks, block_size, num_blocks
<1>6. \/ pending_size' = pending_size /\ pending_writes' = pending_writes
      \/ /\ pending_size' = pending_size - Size(current)
         /\ pending_writes' = pending_writes - Blocks(current)
  BY DEF tdrive_cmd_write6, tdrive_cmd_write_filemarks, tdrive_decr_pending_writes, countvars,
     Size, Blocks
<1>7. /\ pending_size \in Nat /\ pending_writes \in Nat
      /\ pending_size >= SizeOf(N) /\ pending_writes >= BlocksOf(N)
  BY <1>0 DEF Accounts, Rest, PendingCovers
<1>8. N \in 0..N
  BY SMT
<1>9. /\ pending_size' \in Nat /\ pending_writes' \in Nat
      /\ pending_size' >= SizeOf(N)' /\ pending_writes' >= BlocksOf(N)'
  BY <1>2, <1>3, <1>4, <1>5, <1>6, <1>7, <1>8, SMT
<1>10. PendingCovers'
  <2>1. Len(write_devq)' = N
    BY <1>0, <1>1
  <2>2. SizeOf(Len(write_devq))' = SizeOf(N)' /\ BlocksOf(Len(write_devq))' = BlocksOf(N)'
    BY <2>1 DEF SizeOf, BlocksOf
  <2> QED
    BY <1>9, <2>2 DEF PendingCovers
<1>11. CacheBounded'
  <2> SUFFICES ASSUME NEW k \in 1..N, write_devq[k].op = "WRITE"
               PROVE  SizeOf(k - 1)' <= TDRIVE_WRITE_CACHE_SIZE
    BY <1>0, <1>1 DEF CacheBounded
  <2>1. k - 1 \in 0..N
    BY SMT
  <2>2. SizeOf(k - 1) <= TDRIVE_WRITE_CACHE_SIZE
    BY <1>0 DEF Accounts, CacheBounded
  <2> QED
    BY <1>2, <1>3, <1>4, <1>5, <2>1, <2>2, SizesAssumption, SMT
<1> QED
  BY <1>9, <1>10, <1>11

-----------------------------------------------------------------------------
(* Steps that only start a command, or end one.                            *)
LEMMA StartAccounts ==
    ASSUME IInv, Accounts, NEW i \in Initiators, NEW p, NEW arg, Wait(i, p, arg),
           \/ p = "room" /\ arg \in WriteCmd
           \/ p \in {"wait", "unload", "format"} /\ arg = <<>>
           \/ p = "mode" /\ arg \in BlockLengths,
           loaded' \in {loaded, TRUE},
           UNCHANGED <<mover, tape, prevent, sensevars, block_length, queuevars, countvars>>
    PROVE  Accounts'
<1>1. DevOK' /\ lock' = "dev"
  BY DEF Wait, DevOK
<1>2. Rest'
  BY <1>1 DEF Accounts, Rest, SenseBounded, sensevars, queuevars, countvars
<1> QED
  BY <1>2, SameQueue DEF Accounts

(* The other steps that leave queue and sense alone.                       *)
LEMMA QuietAccounts ==
    ASSUME IInv, Accounts,
           lock' \in {"free", "dev", "mover"}, dev' \in {dev, Idle},
           mover' \in Initiators \cup {NoInitiator},
           tape' \in BOOLEAN, loaded' \in BOOLEAN, prevent' \subseteq Initiators,
           UNCHANGED <<sensevars, queuevars>>,
           \/ block_length' = block_length /\ UNCHANGED countvars
           \/ /\ pending_cmds = 0
              /\ block_length' \in Nat /\ pending_size' \in Nat /\ pending_writes' \in Nat
    PROVE  Accounts'
<1>1. DevOK'
  BY DEF Accounts, Rest, DevOK
<1>2. block_length' \in Nat /\ pending_size' \in Nat /\ pending_writes' \in Nat
  BY DEF Accounts, Rest, countvars
<1>3. Rest'
  BY <1>1, <1>2 DEF Accounts, Rest, SenseBounded, sensevars, queuevars
<1> QED
  BY <1>3, SameQueue DEF Accounts

(* Sense is added within its limit (device_add_sense).                     *)
LEMMA SenseLimit ==
    ASSUME IInv, Accounts, NEW i \in Initiators, NEW e \in Entries, device_add_sense(i, e)
    PROVE  SenseBounded'
<1> DEFINE M == MAX_UNIT_ATTENTIONS
           old == IF Len(sense[i]) = M THEN Tail(sense[i]) ELSE sense[i]
<1>1. sense \in [Initiators -> Seq(Entries)] /\ sense[i] \in Seq(Entries)
  BY DEF IInv, Shape
<1>2. Len(sense[i]) <= M /\ M \in Nat \ {0}
  BY SizesAssumption DEF Accounts, Rest, SenseBounded
<1>3. old \in Seq(Entries) /\ Len(old) + 1 <= M
  <2>1. CASE Len(sense[i]) = M
    <3>1. sense[i] # <<>>
      BY <1>1, <1>2, <2>1
    <3>2. Tail(sense[i]) \in Seq(Entries) /\ Len(Tail(sense[i])) = Len(sense[i]) - 1
      BY <1>1, <3>1, SMT
    <3> QED
      BY <1>2, <2>1, <3>2, SMT
  <2>2. CASE Len(sense[i]) # M
    BY <1>1, <1>2, <2>2, SMT
  <2> QED
    BY <2>1, <2>2
<1>4. sense' = [sense EXCEPT ![i] = Append(old, e)]
  BY DEF device_add_sense
<1> HIDE DEF old
<1>5. Len(Append(old, e)) <= M
  BY <1>3, SMT
<1>6. \A j \in Initiators : Len(sense'[j]) <= M
  BY <1>1, <1>4, <1>5 DEF Accounts, Rest, SenseBounded
<1> QED
  BY <1>6 DEF SenseBounded

(* An initiator's command.                                                 *)
LEMMA CommandAccounts ==
    ASSUME IInv, Accounts, NEW i \in Initiators, Command(i)
    PROVE  Accounts'
<1>0. /\ lock \in {"free", "dev", "mover"} /\ mover \in Initiators \cup {NoInitiator}
      /\ tape \in BOOLEAN /\ loaded \in BOOLEAN /\ prevent \subseteq Initiators
      /\ buffered \in BOOLEAN
  BY DEF Accounts, Rest, IInv, Shape
<1>1. CASE \E fixed \in BOOLEAN, len \in Lengths : tdrive_cmd_validate_write6(i, fixed, len)
  <2>1. PICK fixed \in BOOLEAN, len \in Lengths : tdrive_cmd_validate_write6(i, fixed, len)
    BY <1>1
  <2> DEFINE w == [op |-> "WRITE", i |-> i, fixed |-> fixed, len |-> len, buf |-> buffered]
  <2>2. w \in WriteCmd
    BY <1>0 DEF WriteCmd
  <2>3. /\ Wait(i, "room", w)
        /\ UNCHANGED <<mover, cartvars, prevent, sensevars, modevars, queuevars, countvars>>
    BY <2>1 DEF tdrive_cmd_validate_write6
  <2> HIDE DEF w
  <2> QED
    BY <2>2, <2>3, StartAccounts DEF cartvars, modevars
<1>2. CASE \E immed \in BOOLEAN : tdrive_cmd_validate_write_filemarks(i, immed)
  <2>1. PICK immed \in BOOLEAN : tdrive_cmd_validate_write_filemarks(i, immed)
    BY <1>2
  <2> DEFINE m == [op |-> "WRITE FILEMARKS", i |-> i, buf |-> immed]
  <2>2. m \in QueueCmd
    BY DEF QueueCmd, MarkCmd
  <2>3. m.op # "WRITE" /\ Size(m) = 0 /\ Blocks(m) = 0
    BY DEF Size, Blocks
  <2>4. write_devq' = Append(write_devq, m)
    BY <2>1 DEF tdrive_cmd_validate_write_filemarks
  <2>5. UNCHANGED <<mover, cartvars, prevent, sensevars, modevars, current, writer, countvars>>
    BY <2>1 DEF tdrive_cmd_validate_write_filemarks
  <2>6. UNCHANGED <<lock, dev>> \/ Wait(i, "wait", <<>>)
    BY <2>1 DEF tdrive_cmd_validate_write_filemarks
  <2> HIDE DEF m
  <2>7. pending_size \in Nat /\ pending_writes \in Nat
    BY DEF Accounts, Rest
  <2>8. /\ UNCHANGED <<current, writer, block_length>>
        /\ pending_size' = pending_size + Size(m)
        /\ pending_writes' = pending_writes + Blocks(m)
    BY <2>3, <2>5, <2>7, SMT DEF modevars, countvars
  <2>9. PendingCovers' /\ CacheBounded' /\ pending_size' \in Nat /\ pending_writes' \in Nat
    BY <2>2, <2>3, <2>4, <2>8, QueuedCounts
  <2>10. DevOK' /\ lock' \in {"free", "dev", "mover"}
    BY <2>6, SMT DEF Wait, DevOK, Accounts, Rest
  <2>11. Rest'
    BY <2>5, <2>9, <2>10 DEF Accounts, Rest, SenseBounded, cartvars, sensevars, modevars
  <2> QED
    BY <2>9, <2>11 DEF Accounts
<1>3. CASE tdrive_empty_write_queue(i)
  BY <1>3, StartAccounts DEF tdrive_empty_write_queue, cartvars, modevars
<1>4. CASE tdrive_cmd_load(i)
  BY <1>4, StartAccounts DEF tdrive_cmd_load, modevars
<1>5. CASE tdrive_cmd_unload(i)
  BY <1>5, StartAccounts DEF tdrive_cmd_unload, cartvars, modevars
<1>6. CASE \E mode \in Modes, len \in BlockLengths \cup {NoDescriptor} :
             tdrive_cmd_mode_select(i, mode, len)
  <2>1. PICK mode \in Modes, len \in BlockLengths \cup {NoDescriptor} :
             tdrive_cmd_mode_select(i, mode, len)
    BY <1>6
  <2>2. UNCHANGED <<mover, cartvars, prevent, sensevars, block_length, queuevars, countvars>>
    BY <2>1 DEF tdrive_cmd_mode_select
  <2>3. (len \in BlockLengths /\ Wait(i, "mode", len)) \/ UNCHANGED <<lock, dev>>
    BY <2>1 DEF tdrive_cmd_mode_select
  <2>4. CASE len \in BlockLengths /\ Wait(i, "mode", len)
    BY <2>2, <2>4, StartAccounts DEF cartvars
  <2>5. CASE UNCHANGED <<lock, dev>>
    BY <1>0, <2>2, <2>5, QuietAccounts DEF cartvars
  <2> QED
    BY <2>3, <2>4, <2>5
<1>7. CASE tdrive_cmd_format_medium(i)
  BY <1>7, StartAccounts DEF tdrive_cmd_format_medium, cartvars, modevars
<1>8. CASE \E p \in BOOLEAN : tdrive_cmd_prevent_allow_medium_removal(i, p)
  <2>1. /\ UNCHANGED <<lock, dev, mover, cartvars, sensevars, modevars, queuevars, countvars>>
        /\ prevent' \subseteq Initiators
    BY <1>0, <1>8 DEF tdrive_cmd_prevent_allow_medium_removal
  <2> QED
    BY <1>0, <2>1, QuietAccounts DEF cartvars, modevars
<1> QED
  BY <1>1, <1>2, <1>3, <1>4, <1>5, <1>6, <1>7, <1>8 DEF Command

(* The device thread: a WRITE that finds room is counted and queued with   *)
(* the block length it was counted with.                                   *)
LEMMA DeviceAccounts ==
    ASSUME IInv, Accounts, DeviceThread
    PROVE  Accounts'
<1>0. /\ mover \in Initiators \cup {NoInitiator} /\ prevent \subseteq Initiators
      /\ tape \in BOOLEAN /\ loaded \in BOOLEAN /\ block_length \in Nat
      /\ pending_size \in Nat /\ pending_writes \in Nat
  BY DEF Accounts, Rest
<1>1. CASE insert_write
  <2>1. PICK w \in WriteCmd, i \in Initiators : dev.arg = w /\ dev.i = i
    BY <1>1, SMT DEF insert_write, Accounts, Rest, DevOK, Idle
  <2>2. w \in QueueCmd /\ w.op = "WRITE"
    BY DEF QueueCmd, WriteCmd
  <2>3. Size(w) = block_size(w) * num_blocks(w) /\ Blocks(w) = num_blocks(w)
    BY <2>2 DEF Size, Blocks
  <2>4. /\ pending_size <= TDRIVE_WRITE_CACHE_SIZE
        /\ pending_size' = pending_size + Size(w)
        /\ pending_writes' = pending_writes + Blocks(w)
    BY <1>1, <2>1, <2>3 DEF insert_write, tdrive_incr_pending_writes
  <2>5. /\ write_devq' = Append(write_devq, w)
        /\ UNCHANGED <<mover, cartvars, prevent, sensevars, modevars, current, writer>>
    BY <1>1, <2>1 DEF insert_write
  <2>6. PendingCovers' /\ CacheBounded' /\ pending_size' \in Nat /\ pending_writes' \in Nat
    <3>1. UNCHANGED <<current, writer, block_length>>
      BY <2>5 DEF modevars
    <3> QED
      BY <2>2, <2>4, <2>5, <3>1, QueuedCounts
  <2>7. DevOK' /\ lock' \in {"free", "dev", "mover"}
    BY <1>1, <2>1, SMT DEF insert_write, Finish, Wait, DevOK
  <2>8. Rest'
    BY <2>5, <2>6, <2>7 DEF Accounts, Rest, SenseBounded, cartvars, sensevars, modevars
  <2> QED
    BY <2>6, <2>8 DEF Accounts
<1>2. CASE wait_end
  BY <1>0, <1>2, QuietAccounts DEF wait_end, Finish, cartvars, modevars
<1>3. CASE unload_end
  BY <1>0, <1>3, QuietAccounts DEF unload_end, Finish, modevars
<1>4. CASE tdrive_update_block_descriptor
  <2>1. dev.arg \in Nat
    <3>1. dev.pc = "mode" /\ DevOK
      BY <1>4 DEF tdrive_update_block_descriptor, Accounts, Rest
    <3>2. dev.arg \in BlockLengths
      BY <3>1, SMT DEF DevOK, Idle
    <3> QED
      BY <3>2, SizesAssumption
  <2> QED
    BY <1>0, <1>4, <2>1, QuietAccounts
       DEF tdrive_update_block_descriptor, tdrive_wait_for_write_queue, Finish, cartvars, countvars
<1>5. CASE format_end
  BY <1>0, <1>5, QuietAccounts, SMT
     DEF format_end, tdrive_wait_for_write_queue, tape_partition_invalidate_pointers, Finish,
         cartvars, modevars, countvars
<1> QED
  BY <1>1, <1>2, <1>3, <1>4, <1>5 DEF DeviceThread

(* The write thread.                                                       *)
LEMMA WriteAccounts ==
    ASSUME IInv, Accounts, WriteThread
    PROVE  Accounts'
<1>1. CASE get_next_ccb
  <2>1. Rest'
    BY <1>1 DEF get_next_ccb, Accounts, Rest, DevOK, SenseBounded, cartvars, sensevars, modevars,
       countvars
  <2> QED
    BY <1>1, <2>1, TakenCounts DEF Accounts
<1>2. CASE tdrive_cmd_write6 \/ tdrive_cmd_write_filemarks
  <2>1. PendingCovers' /\ CacheBounded' /\ pending_size' \in Nat /\ pending_writes' \in Nat
    BY <1>2, WrittenCounts
  <2>2. /\ writer = "busy" /\ writer' = "done"
        /\ UNCHANGED <<lock, dev, mover, cartvars, prevent, modevars, write_devq, current>>
        /\ UNCHANGED sensevars \/ write_error(current)
    BY <1>2 DEF tdrive_cmd_write6, tdrive_cmd_write_filemarks
  <2>3. SenseBounded'
    <3>1. CASE UNCHANGED sensevars
      BY <3>1 DEF Accounts, Rest, SenseBounded, sensevars
    <3>2. CASE write_error(current) /\ ~UNCHANGED sensevars
      <4>1. PICK i \in Initiators : i = current.i
        BY <2>2 DEF IInv, Shape, QueueCmd, WriteCmd, MarkCmd
      <4>2. device_add_sense(i, "deferred") /\ "deferred" \in Entries
        BY <3>2, <4>1 DEF write_error, Entries
      <4> QED
        BY <4>2, SenseLimit
    <3> QED
      BY <2>2, <3>1, <3>2
  <2>4. Rest'
    BY <2>1, <2>2, <2>3 DEF Accounts, Rest, DevOK, cartvars, modevars
  <2> QED
    BY <2>1, <2>4 DEF Accounts
<1>3. CASE devq_process_queue
  <2>1. Rest'
    BY <1>3 DEF devq_process_queue, Accounts, Rest, DevOK, SenseBounded, cartvars, sensevars,
       modevars, countvars
  <2>2. \A k : SizeOf(k)' = SizeOf(k) /\ BlocksOf(k)' = BlocksOf(k)
    BY <1>3 DEF devq_process_queue, modevars, SizeOf, BlocksOf, Sizes, Counts, Size, Blocks,
       block_size, num_blocks
  <2>3. UNCHANGED <<write_devq, pending_size, pending_writes>>
    BY <1>3 DEF devq_process_queue, countvars
  <2>4. PendingCovers' /\ CacheBounded'
    BY <2>2, <2>3 DEF Accounts, PendingCovers, CacheBounded
  <2> QED
    BY <2>1, <2>4 DEF Accounts
<1> QED
  BY <1>1, <1>2, <1>3 DEF WriteThread

(* Sense that comes and goes.                                              *)
LEMMA SenseAccounts ==
    ASSUME IInv, Accounts, NEW i \in Initiators, device_unit_attention(i) \/ device_get_sense(i)
    PROVE  Accounts'
<1>1. UNCHANGED <<lock, dev, mover, cartvars, prevent, modevars, queuevars, countvars>>
  BY DEF device_unit_attention, device_get_sense
<1>2. SenseBounded'
  <2>1. CASE device_unit_attention(i)
    <3>1. device_add_sense(i, "attention") /\ "attention" \in Entries
      BY <2>1 DEF device_unit_attention, Entries
    <3> QED
      BY <3>1, SenseLimit
  <2>2. CASE device_get_sense(i)
    <3>1. /\ sense \in [Initiators -> Seq(Entries)] /\ sense[i] \in Seq(Entries)
          /\ sense[i] # <<>>
      BY <2>2 DEF device_get_sense, IInv, Shape
    <3>2. Len(Tail(sense[i])) <= MAX_UNIT_ATTENTIONS
      BY <3>1, SizesAssumption, SMT DEF Accounts, Rest, SenseBounded
    <3>3. sense' = [sense EXCEPT ![i] = Tail(sense[i])]
      BY <2>2 DEF device_get_sense
    <3>4. \A j \in Initiators : Len(sense'[j]) <= MAX_UNIT_ATTENTIONS
      BY <3>1, <3>2, <3>3 DEF Accounts, Rest, SenseBounded
    <3> QED
      BY <3>4 DEF SenseBounded
  <2> QED
    BY <2>1, <2>2
<1>3. Rest'
  BY <1>1, <1>2 DEF Accounts, Rest, DevOK, cartvars, modevars, queuevars, countvars
<1>4. block_length' = block_length /\ UNCHANGED countvars /\ UNCHANGED queuevars
  BY <1>1 DEF modevars
<1> QED
  BY <1>3, <1>4, SameQueue DEF Accounts

(* Resets, and cartridges in and out: a cartridge comes with counts of its *)
(* own only into a drive for which nothing waits.                          *)
LEMMA CartridgeAccounts ==
    ASSUME IInv, Accounts,
           \/ tdrive_reset \/ tdrive_load_tape \/ unload_tape_end
           \/ \E m \in Initiators \cup {NoInitiator} : tdrive_unload_tape(m)
    PROVE  Accounts'
<1>0. /\ lock \in {"free", "dev", "mover"}
      /\ mover \in Initiators \cup {NoInitiator} /\ prevent \subseteq Initiators
      /\ tape \in BOOLEAN /\ loaded \in BOOLEAN /\ block_length \in Nat
      /\ pending_size \in Nat /\ pending_writes \in Nat
  BY DEF Accounts, Rest
<1>1. CASE tdrive_reset
  BY <1>0, <1>1, QuietAccounts DEF tdrive_reset, cartvars, modevars
<1>2. CASE tdrive_load_tape
  <2>1. pending_cmds = 0
    BY <1>2, SMT DEF tdrive_load_tape, IInv, WriterHasTape, pending_cmds, Shape
  <2> QED
    BY <1>0, <1>2, <2>1, QuietAccounts, SMT DEF tdrive_load_tape, modevars, countvars
<1>3. CASE unload_tape_end
  BY <1>0, <1>3, QuietAccounts DEF unload_tape_end, cartvars, modevars
<1>4. CASE \E m \in Initiators \cup {NoInitiator} : tdrive_unload_tape(m)
  <2>1. PICK m \in Initiators \cup {NoInitiator} : tdrive_unload_tape(m)
    BY <1>4
  <2> QED
    BY <1>0, <2>1, QuietAccounts DEF tdrive_unload_tape, cartvars, modevars
<1> QED
  BY <1>1, <1>2, <1>3, <1>4

(* The accounts of an empty drive.                                         *)
LEMMA InitAccounts == Init => Accounts
<1> SUFFICES ASSUME Init PROVE Accounts
  OBVIOUS
<1>1. Rest
  <2>1. SenseBounded
    BY SizesAssumption, SMT DEF Init, SenseBounded
  <2>2. DevOK
    BY DEF Init, DevOK
  <2> QED
    BY <2>1, <2>2 DEF Init, Rest
<1>2. SumTo(<<>>, 0) = 0
  <2>1. 0 \in Nat /\ <<>> \in [1..0 -> Nat]
    BY SMT
  <2> QED
    BY <2>1, SumIs
<1>3. Sizes(<<>>) = <<>> /\ Counts(<<>>) = <<>>
  BY SMT DEF Sizes, Counts
<1>4. SizeOf(0) = 0 /\ BlocksOf(0) = 0
  BY <1>2, <1>3, SMT DEF Init, SizeOf, BlocksOf
<1>5. PendingCovers
  BY <1>4, SMT DEF Init, PendingCovers
<1>6. CacheBounded
  BY SMT DEF Init, CacheBounded
<1> QED
  BY <1>1, <1>5, <1>6 DEF Accounts

(* Together with IInv, Accounts is inductive.                              *)
LEMMA StepAccounts == IInv /\ Accounts /\ [Next]_vars => Accounts'
<1> SUFFICES ASSUME IInv, Accounts, [Next]_vars PROVE Accounts'
  OBVIOUS
<1>1. CASE UNCHANGED vars
  <2>1. /\ lock \in {"free", "dev", "mover"}
        /\ mover \in Initiators \cup {NoInitiator} /\ prevent \subseteq Initiators
        /\ tape \in BOOLEAN /\ loaded \in BOOLEAN
    BY DEF Accounts, Rest
  <2> QED
    BY <1>1, <2>1, QuietAccounts DEF vars, cartvars, modevars
<1>2. CASE Next
  BY <1>2, CommandAccounts, SenseAccounts, DeviceAccounts, WriteAccounts, CartridgeAccounts DEF Next
<1> QED
  BY <1>1, <1>2

(* Hence it always holds.                                                  *)
THEOREM AccountsKept == Spec => []Accounts
BY Invariance, InitAccounts, StepAccounts, PTL DEF Spec

(* The types of the variables; no sense list outgrows its limit            *)
(* (device_add_sense), and the counts never go below zero                  *)
(* (tdrive_decr_pending_writes).                                           *)
THEOREM TypesKept == Spec => []TypeOK
BY Invariance, AccountsKept, TypesFollow, PTL

(* The counts by which a WRITE is given room, and checked against the      *)
(* capacity of the tape, never fall short of what waits for the write      *)
(* thread, however often MODE SELECT changes the block length and FORMAT   *)
(* MEDIUM or another cartridge starts the counts afresh.                   *)
THEOREM PendingAlwaysCovers == Spec => []PendingCovers
<1>1. Accounts => PendingCovers
  BY DEF Accounts
<1> QED
  BY <1>1, AccountsKept, PTL

(* What waits before a queued WRITE always fits in the write cache         *)
(* (tdrive_incr_pending_writes).                                           *)
THEOREM CacheAlwaysBounded == Spec => []CacheBounded
<1>1. Accounts => CacheBounded
  BY DEF Accounts
<1> QED
  BY <1>1, AccountsKept, PTL
=============================================================================
