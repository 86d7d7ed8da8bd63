------------------------------ MODULE TapeDrive ------------------------------
(***************************************************************************)
(* A tape drive (core/tdrive.c).  The device thread executes one command   *)
(* at a time with tdrive_lock held.  A WRITE or WRITE FILEMARKS is only    *)
(* checked there and put on write_devq, from which the write thread takes  *)
(* it without that lock; every command that needs the tape itself waits    *)
(* until the write thread has nothing left.  The changer and the           *)
(* management ioctls put a cartridge in and take it out, under the same    *)
(* lock.                                                                   *)
(*                                                                         *)
(* What is on the tape is TapePartition's business.  A command that is     *)
(* refused changes nothing and has no step.  The reservation checks, and   *)
(* the sense that other commands cause, are in Reservation.                *)
(***************************************************************************)
EXTENDS Integers, FiniteSets, Sequences, Functions

CONSTANTS
    Initiators,
    NoInitiator,             \* the mover when management takes a cartridge out
    Lengths,                 \* transfer lengths of WRITE
    BlockLengths,            \* block lengths MODE SELECT sets
    NoDescriptor,            \* MODE SELECT without a block descriptor
    Modes,                   \* buffered modes MODE SELECT sets
    TDRIVE_MAX_BLOCK_SIZE,
    TDRIVE_WRITE_CACHE_SIZE,
    TapeSize,                \* tape->size
    MAX_UNIT_ATTENTIONS,     \* entries in the sense list of an initiator
    MaxQueue,                \* bound: commands on write_devq
    MaxPending               \* bound: pending_writes when a WRITE arrives

ASSUME InitiatorsAssumption == NoInitiator \notin Initiators
ASSUME SizesAssumption ==
    /\ Lengths \subseteq Nat /\ BlockLengths \subseteq Nat /\ Modes \subseteq BOOLEAN
    /\ TDRIVE_WRITE_CACHE_SIZE \in Nat /\ TDRIVE_MAX_BLOCK_SIZE \in Nat
    /\ TapeSize \in Nat /\ MaxQueue \in Nat /\ MaxPending \in Nat
    /\ MAX_UNIT_ATTENTIONS \in Nat \ {0}

VARIABLES
    lock,            \* who holds tdrive_lock: "free", "dev" or "mover"
    dev,             \* the command of the device thread, and what it waits for
    mover,           \* the initiator for which a cartridge is being taken out
    tape,            \* a cartridge is in the drive
    loaded,          \* TDRIVE_FLAGS_TAPE_LOADED
    prevent,         \* initiators with prevent_medium_removal set
    sense,           \* pending sense of each initiator
    owed,            \* initiators not yet told of a WRITE that failed behind them
    buffered,        \* the buffered mode of the mode header
    block_length,    \* of the block descriptor
    write_devq,      \* commands for the write thread
    current,         \* the one it has taken
    writer,          \* the write thread: "idle", "busy" or "done"
    pending_size, pending_writes  \* of the current partition

cartvars == <<tape, loaded>>
modevars == <<buffered, block_length>>
sensevars == <<sense, owed>>
queuevars == <<write_devq, current, writer>>
countvars == <<pending_size, pending_writes>>
vars == <<lock, dev, mover, cartvars, prevent, sensevars, modevars, queuevars, countvars>>

WriteCmd == [op : {"WRITE"}, i : Initiators, fixed : BOOLEAN, len : Lengths, buf : BOOLEAN]
MarkCmd == [op : {"WRITE FILEMARKS"}, i : Initiators, buf : BOOLEAN]
QueueCmd == WriteCmd \cup MarkCmd
Idle == [pc |-> "idle"]

block_size(w) == IF w.fixed THEN block_length ELSE w.len
num_blocks(w) == IF w.fixed THEN w.len ELSE 1

(* The commands the write thread has not finished.                         *)
pending_cmds == Len(write_devq) + (IF writer = "idle" THEN 0 ELSE 1)

(* Other commands are answered with NOT READY.                             *)
Ready == tape /\ loaded

Init ==
    /\ lock = "free" /\ dev = Idle /\ mover = NoInitiator
    /\ tape = FALSE /\ loaded = FALSE
    /\ prevent = {}
    /\ sense = [i \in Initiators |-> <<>>] /\ owed = {}
    /\ buffered = TRUE /\ block_length = 0
    /\ write_devq = <<>> /\ current = <<>> /\ writer = "idle"
    /\ pending_size = 0 /\ pending_writes = 0

-----------------------------------------------------------------------------
(***************************************************************************)
(* Pending sense.  A list that is full loses its oldest entry.             *)
(***************************************************************************)
(* Faulty: the list grows without limit.                                   *)
device_add_sense_NoLimit(i, s) ==
    sense' = [sense EXCEPT ![i] = Append(@, s)]

(* Faulty: a list that is full takes nothing more.                         *)
device_add_sense_DropsNew(i, s) ==
    sense' = [sense EXCEPT ![i] =
                IF Len(@) = MAX_UNIT_ATTENTIONS THEN @ ELSE Append(@, s)]

device_add_sense(i, s) ==
    sense' = [sense EXCEPT ![i] =
                Append(IF Len(@) = MAX_UNIT_ATTENTIONS THEN Tail(@) ELSE @, s)]

(* A unit attention from elsewhere: a reservation, a reset, another        *)
(* initiator.  It may displace an error that nobody was told of.           *)
device_unit_attention(i) ==
    /\ device_add_sense(i, "attention")
    /\ owed' = IF Len(sense[i]) = MAX_UNIT_ATTENTIONS /\ "deferred" \notin Range(Tail(sense[i]))
               THEN owed \ {i} ELSE owed
    /\ UNCHANGED <<lock, dev, mover, cartvars, prevent, modevars, queuevars, countvars>>

(* A command that finds pending sense is answered with it and not          *)
(* executed; REQUEST SENSE returns it as data.                             *)
device_get_sense(i) ==
    /\ lock = "free"
    /\ sense[i] # <<>>
    /\ sense' = [sense EXCEPT ![i] = Tail(@)]
    /\ owed' = IF "deferred" \in Range(Tail(sense[i])) THEN owed ELSE owed \ {i}
    /\ UNCHANGED <<lock, dev, mover, cartvars, prevent, modevars, queuevars, countvars>>

-----------------------------------------------------------------------------
(***************************************************************************)
(* The device thread.  Start takes the lock for a command that is          *)
(* executed, and Finish answers it.                                        *)
(***************************************************************************)
Start(i) == lock = "free" /\ sense[i] = <<>>

Wait(i, pc, arg) ==
    /\ lock' = "dev"
    /\ dev' = [pc |-> pc, i |-> i, arg |-> arg]

Finish == lock' = "free" /\ dev' = Idle

tdrive_wait_for_write_queue == pending_cmds = 0

(* The capacity check counts what is pending, here against an empty tape.  *)
tape_partition_validate_write(size) ==
    pending_size + size < TapeSize

(* WRITE: beyond the early warning it is still executed, beyond the        *)
(* capacity refused.                                                       *)
tdrive_cmd_validate_write6(i, fixed, len) ==
    LET w == [op |-> "WRITE", i |-> i, fixed |-> fixed, len |-> len, buf |-> buffered] IN
    /\ Start(i) /\ Ready
    /\ block_size(w) <= TDRIVE_MAX_BLOCK_SIZE
    /\ tape_partition_validate_write(block_size(w) * num_blocks(w))
    /\ Len(write_devq) < MaxQueue /\ pending_writes < MaxPending
    /\ Wait(i, "room", w)
    /\ UNCHANGED <<mover, cartvars, prevent, sensevars, modevars, queuevars, countvars>>

(* Faulty: a WRITE does not wait for room.                                 *)
tdrive_incr_pending_writes_NoWait(w) ==
    /\ pending_size' = pending_size + block_size(w) * num_blocks(w)
    /\ pending_writes' = pending_writes + num_blocks(w)

(* It waits until the cache has room for it, with the lock held.           *)
tdrive_incr_pending_writes(w) ==
    /\ pending_size <= TDRIVE_WRITE_CACHE_SIZE
    /\ pending_size' = pending_size + block_size(w) * num_blocks(w)
    /\ pending_writes' = pending_writes + num_blocks(w)

(* In buffered mode it is answered now, else when the queue is empty.      *)
insert_write ==
    /\ dev.pc = "room"
    /\ tdrive_incr_pending_writes(dev.arg)
    /\ write_devq' = Append(write_devq, dev.arg)
    /\ IF dev.arg.buf THEN Finish ELSE Wait(dev.i, "wait", <<>>)
    /\ UNCHANGED <<mover, cartvars, prevent, sensevars, modevars, current, writer>>

(* WRITE FILEMARKS is queued at once, and answered when the queue is empty *)
(* unless its immed bit is set.                                            *)
tdrive_cmd_validate_write_filemarks(i, immed) ==
    /\ Start(i) /\ Ready
    /\ tape_partition_validate_write(0)
    /\ Len(write_devq) < MaxQueue
    /\ write_devq' = Append(write_devq, [op |-> "WRITE FILEMARKS", i |-> i, buf |-> immed])
    /\ IF immed THEN UNCHANGED <<lock, dev>> ELSE Wait(i, "wait", <<>>)
    /\ UNCHANGED <<mover, cartvars, prevent, sensevars, modevars, current, writer, countvars>>

(* READ, READ POSITION, SPACE, LOCATE, REWIND and ERASE go to the tape     *)
(* when the queue is empty.                                                *)
tdrive_empty_write_queue(i) ==
    /\ Start(i) /\ Ready
    /\ Wait(i, "wait", <<>>)
    /\ UNCHANGED <<mover, cartvars, prevent, sensevars, modevars, queuevars, countvars>>

wait_end ==
    /\ dev.pc = "wait"
    /\ tdrive_wait_for_write_queue
    /\ Finish
    /\ UNCHANGED <<mover, cartvars, prevent, sensevars, modevars, queuevars, countvars>>

(* The load half of LOAD UNLOAD: tape_cmd_load for a cartridge that was    *)
(* unloaded, then a rewind.                                                *)
tdrive_cmd_load(i) ==
    /\ Start(i) /\ tape
    /\ loaded' = TRUE
    /\ Wait(i, "wait", <<>>)
    /\ UNCHANGED <<mover, tape, prevent, sensevars, modevars, queuevars, countvars>>

(* The other half is refused while any initiator prevents removal.         *)
tdrive_cmd_unload(i) ==
    /\ Start(i) /\ Ready
    /\ prevent = {}
    /\ Wait(i, "unload", <<>>)
    /\ UNCHANGED <<mover, cartvars, prevent, sensevars, modevars, queuevars, countvars>>

(* tape_cmd_unload fails when it cannot flush or rewind.                   *)
unload_end ==
    /\ dev.pc = "unload"
    /\ tdrive_wait_for_write_queue
    /\ loaded' \in {loaded, FALSE}
    /\ Finish
    /\ UNCHANGED <<mover, tape, prevent, sensevars, modevars, queuevars, countvars>>

(* MODE SELECT, also without a cartridge.  The header takes effect at      *)
(* once; the block descriptor waits for the WRITEs that still use the old  *)
(* block length.                                                           *)
tdrive_cmd_mode_select(i, mode, len) ==
    /\ Start(i)
    /\ buffered' = mode
    /\ IF len \in BlockLengths /\ len <= TDRIVE_MAX_BLOCK_SIZE
       THEN Wait(i, "mode", len)
       ELSE UNCHANGED <<lock, dev>>
    /\ UNCHANGED <<mover, cartvars, prevent, sensevars, block_length, queuevars, countvars>>

(* Faulty: the block length changes at once.                               *)
tdrive_update_block_descriptor_Now ==
    /\ dev.pc = "mode"
    /\ block_length' = dev.arg
    /\ Finish
    /\ UNCHANGED <<mover, cartvars, prevent, sensevars, buffered, queuevars, countvars>>

tdrive_update_block_descriptor ==
    /\ dev.pc = "mode"
    /\ tdrive_wait_for_write_queue
    /\ block_length' = dev.arg
    /\ Finish
    /\ UNCHANGED <<mover, cartvars, prevent, sensevars, buffered, queuevars, countvars>>

tape_partition_invalidate_pointers ==
    pending_size' = 0 /\ pending_writes' = 0

(* FORMAT MEDIUM and SET CAPACITY: refused away from the beginning of the  *)
(* tape or with wrong parameters, else the partition starts afresh.        *)
tdrive_cmd_format_medium(i) ==
    /\ Start(i) /\ Ready
    /\ Wait(i, "format", <<>>)
    /\ UNCHANGED <<mover, cartvars, prevent, sensevars, modevars, queuevars, countvars>>

format_end ==
    /\ dev.pc = "format"
    /\ tdrive_wait_for_write_queue
    /\ tape_partition_invalidate_pointers \/ UNCHANGED countvars
    /\ Finish
    /\ UNCHANGED <<mover, cartvars, prevent, sensevars, modevars, queuevars>>

(* Faulty: it does not wait for the lock.                                  *)
tdrive_cmd_prevent_allow_medium_removal_NoLock(i, p) ==
    /\ prevent' = IF p THEN prevent \cup {i} ELSE prevent \ {i}
    /\ UNCHANGED <<lock, dev, mover, cartvars, sensevars, modevars, queuevars, countvars>>

tdrive_cmd_prevent_allow_medium_removal(i, p) ==
    /\ Start(i)
    /\ prevent' = IF p THEN prevent \cup {i} ELSE prevent \ {i}
    /\ UNCHANGED <<lock, dev, mover, cartvars, sensevars, modevars, queuevars, countvars>>

(* A reset clears the prevention after it has given up the lock again.     *)
tdrive_reset ==
    /\ prevent' = {}
    /\ UNCHANGED <<lock, dev, mover, cartvars, sensevars, modevars, queuevars, countvars>>

-----------------------------------------------------------------------------
(***************************************************************************)
(* The write thread.                                                       *)
(***************************************************************************)
get_next_ccb ==
    /\ writer = "idle" /\ write_devq # <<>>
    /\ current' = Head(write_devq) /\ write_devq' = Tail(write_devq)
    /\ writer' = "busy"
    /\ UNCHANGED <<lock, dev, mover, cartvars, prevent, sensevars, modevars, countvars>>

(* Faulty: the size is not taken back.                                     *)
tdrive_decr_pending_writes_NoSize(w) ==
    /\ pending_writes' = pending_writes - num_blocks(w)
    /\ UNCHANGED pending_size

tdrive_decr_pending_writes(w) ==
    /\ pending_size' = pending_size - block_size(w) * num_blocks(w)
    /\ pending_writes' = pending_writes - num_blocks(w)

(* A WRITE or WRITE FILEMARKS that fails after it was answered leaves a    *)
(* deferred error; one that is waited for is answered with the error.      *)
write_error(w) ==
    IF w.buf THEN device_add_sense(w.i, "deferred") /\ owed' = owed \cup {w.i}
             ELSE UNCHANGED sensevars

tdrive_cmd_write6 ==
    /\ writer = "busy" /\ current.op = "WRITE"
    /\ writer' = "done"
    /\ IF current.len = 0
       THEN UNCHANGED <<countvars, sensevars>>
       ELSE /\ IF current.buf THEN tdrive_decr_pending_writes(current)
                              ELSE UNCHANGED countvars
            /\ UNCHANGED sensevars \/ write_error(current)
    /\ UNCHANGED <<lock, dev, mover, cartvars, prevent, modevars, write_devq, current>>

tdrive_cmd_write_filemarks ==
    /\ writer = "busy" /\ current.op = "WRITE FILEMARKS"
    /\ writer' = "done"
    /\ UNCHANGED sensevars \/ write_error(current)
    /\ UNCHANGED <<lock, dev, mover, cartvars, prevent, modevars, write_devq, current, countvars>>

(* The command counts as pending until here.                               *)
devq_process_queue ==
    /\ writer = "done"
    /\ writer' = "idle" /\ current' = <<>>
    /\ UNCHANGED <<lock, dev, mover, cartvars, prevent, sensevars, modevars, write_devq, countvars>>

-----------------------------------------------------------------------------
(***************************************************************************)
(* Cartridges in and out.                                                  *)
(***************************************************************************)
(* The cartridge that was in the drive before, with its counts, or one     *)
(* that was just read from disk or created, without any.                   *)
tdrive_load_tape ==
    /\ lock = "free" /\ ~tape
    /\ tape' = TRUE /\ loaded' = TRUE
    /\ UNCHANGED countvars \/ (pending_size' = 0 /\ pending_writes' = 0)
    /\ UNCHANGED <<lock, dev, mover, prevent, sensevars, modevars, queuevars>>

(* For initiator m of the changer, or for management.  A cartridge that an *)
(* initiator has unloaded goes at once.                                    *)
tdrive_unload_tape(m) ==
    /\ lock = "free" /\ tape
    /\ IF loaded
       THEN /\ prevent \subseteq {m}
            /\ lock' = "mover" /\ mover' = m
            /\ UNCHANGED cartvars
       ELSE /\ tape' = FALSE
            /\ UNCHANGED <<lock, mover, loaded>>
    /\ UNCHANGED <<dev, prevent, sensevars, modevars, queuevars, countvars>>

(* Faulty: the cartridge goes while WRITEs for it wait.                    *)
unload_tape_end_NoWait ==
    /\ lock = "mover"
    /\ lock' = "free" /\ mover' = NoInitiator
    /\ tape' = FALSE /\ loaded' = FALSE
    /\ UNCHANGED <<dev, prevent, sensevars, modevars, queuevars, countvars>>

(* tape_cmd_unload may fail here too.                                      *)
unload_tape_end ==
    /\ lock = "mover"
    /\ tdrive_wait_for_write_queue
    /\ lock' = "free" /\ mover' = NoInitiator
    /\ UNCHANGED cartvars \/ (tape' = FALSE /\ loaded' = FALSE)
    /\ UNCHANGED <<dev, prevent, sensevars, modevars, queuevars, countvars>>

-----------------------------------------------------------------------------
Command(i) ==
    \/ \E fixed \in BOOLEAN, len \in Lengths : tdrive_cmd_validate_write6(i, fixed, len)
    \/ \E immed \in BOOLEAN : tdrive_cmd_validate_write_filemarks(i, immed)
    \/ tdrive_empty_write_queue(i)
    \/ tdrive_cmd_load(i)
    \/ tdrive_cmd_unload(i)
    \/ \E mode \in Modes, len \in BlockLengths \cup {NoDescriptor} :
          tdrive_cmd_mode_select(i, mode, len)
    \/ tdrive_cmd_format_medium(i)
    \/ \E p \in BOOLEAN : tdrive_cmd_prevent_allow_medium_removal(i, p)

DeviceThread ==
    \/ insert_write
    \/ wait_end
    \/ unload_end
    \/ tdrive_update_block_descriptor
    \/ format_end

WriteThread ==
    \/ get_next_ccb
    \/ tdrive_cmd_write6
    \/ tdrive_cmd_write_filemarks
    \/ devq_process_queue

Next ==
    \/ \E i \in Initiators : Command(i) \/ device_unit_attention(i) \/ device_get_sense(i)
    \/ DeviceThread
    \/ WriteThread
    \/ tdrive_reset
    \/ tdrive_load_tape
    \/ \E m \in Initiators \cup {NoInitiator} : tdrive_unload_tape(m)
    \/ unload_tape_end

(* The kernel's threads run when they can; nothing makes an initiator send *)
(* a command, or the changer move a cartridge.                             *)
Fairness == WF_vars(DeviceThread) /\ WF_vars(WriteThread) /\ WF_vars(unload_tape_end)

Spec == Init /\ [][Next]_vars
FairSpec == Spec /\ Fairness

-----------------------------------------------------------------------------
(* f[1] + ... + f[k].                                                      *)
SumTo(f, k) ==
    LET sum[n \in 0..k] == IF n = 0 THEN 0 ELSE sum[n - 1] + f[n]
    IN sum[k]

(* What the write thread has yet to count down: the one WRITE it is at,    *)
(* and those on the queue up to the k-th.                                  *)
Size(w) == IF w.op = "WRITE" THEN block_size(w) * num_blocks(w) ELSE 0
Blocks(w) == IF w.op = "WRITE" THEN num_blocks(w) ELSE 0
Sizes(q) == [j \in DOMAIN q |-> Size(q[j])]
Counts(q) == [j \in DOMAIN q |-> Blocks(q[j])]
SizeOf(k) == (IF writer = "busy" THEN Size(current) ELSE 0) + SumTo(Sizes(write_devq), k)
BlocksOf(k) == (IF writer = "busy" THEN Blocks(current) ELSE 0) + SumTo(Counts(write_devq), k)

(* The types of the variables; in particular the sense list of no          *)
(* initiator outgrows its limit (device_add_sense), and the counts do not  *)
(* go below zero.                                                          *)
TypeOK ==
    /\ lock \in {"free", "dev", "mover"}
    /\ \/ dev = Idle
       \/ dev \in [pc : {"room"}, i : Initiators, arg : WriteCmd]
       \/ dev \in [pc : {"wait", "unload", "format"}, i : Initiators, arg : {<<>>}]
       \/ dev \in [pc : {"mode"}, i : Initiators, arg : BlockLengths]
    /\ mover \in Initiators \cup {NoInitiator}
    /\ tape \in BOOLEAN /\ loaded \in BOOLEAN
    /\ prevent \subseteq Initiators
    /\ \A i \in Initiators :
          /\ sense[i] \in Seq({"attention", "deferred"})
          /\ Len(sense[i]) <= MAX_UNIT_ATTENTIONS
    /\ owed \subseteq Initiators
    /\ buffered \in BOOLEAN /\ block_length \in Nat
    /\ write_devq \in Seq(QueueCmd)
    /\ writer \in {"idle", "busy", "done"}
    /\ IF writer = "idle" THEN current = <<>> ELSE current \in QueueCmd
    /\ pending_size \in Nat /\ pending_writes \in Nat

(* pending_size and pending_writes, which decide whether a WRITE has room  *)
(* and fits on the tape, never fall short of what waits for the write      *)
(* thread, although the block length may change and the counts start       *)
(* afresh with a format.                                                   *)
PendingCovers ==
    LET all == Len(write_devq) IN
    pending_size >= SizeOf(all) /\ pending_writes >= BlocksOf(all)

(* What waits before any queued WRITE fits in the write cache              *)
(* (tdrive_incr_pending_writes): only the newest may exceed it.            *)
CacheBounded ==
    \A k \in 1..Len(write_devq) :
        write_devq[k].op = "WRITE" => SizeOf(k - 1) <= TDRIVE_WRITE_CACHE_SIZE

(* While a command waits for the write thread, or is executed by it, its   *)
(* cartridge is in the drive and loaded: the write thread uses             *)
(* tdrive->tape without the lock, and every way to unload or remove the    *)
(* cartridge empties the queue first.                                      *)
WriterHasTape == pending_cmds > 0 => tape /\ loaded

(* An initiator whose WRITE failed after it was answered still has the     *)
(* deferred error to come, unless newer sense has displaced it.            *)
FailureTold == \A i \in owed : "deferred" \in Range(sense[i])

(* A cartridge is unloaded only while no initiator prevents it, other than *)
(* the one that has it moved; this although the check is made before the   *)
(* wait for the write thread, and a reset allows removal without the lock. *)
PreventionHolds == [][loaded /\ ~loaded' => prevent \subseteq {mover}]_vars

(* Whoever holds tdrive_lock, waiting for room or for the write thread,    *)
(* gives it up, unless unbuffered WRITEs, which are not counted down, have *)
(* left more in pending_size than there is to wait for.                    *)
LockReleased ==
    lock # "free" /\ pending_size = SizeOf(Len(write_devq)) ~> lock = "free"
=============================================================================
