---------------------------- MODULE MediaChanger ----------------------------
(***************************************************************************)
(* The media changer (core/mchanger.c): elements with their cartridges,    *)
(* the descriptors that READ ELEMENT STATUS reports, MOVE and EXCHANGE     *)
(* MEDIUM, and the ioctls that add, export, bring back and delete          *)
(* cartridges.  The changer's thread holds mchanger_lock for a whole       *)
(* command, and so does an ioctl, except the one that adds a cartridge: it *)
(* chooses an element, creates the cartridge, which takes a while, and     *)
(* then puts it there, without the lock.  ioctl_lock lets in one ioctl at  *)
(* a time.                                                                 *)
(*                                                                         *)
(* All elements are accessible and take all cartridges.  A command that is *)
(* refused has no step.  What a drive does to unload is in TapeDrive; here *)
(* it succeeds or fails.                                                   *)
(***************************************************************************)
EXTENDS Integers, FiniteSetsExt

CONSTANTS
    Slots, IEs, Drives,  \* element addresses
    Tapes,               \* cartridges, by label
    NoTape,
    SelfExchange         \* EXCHANGE with source = first destination is sent

ASSUME ElementsAssumption ==
    /\ Slots \subseteq Nat \ {0} /\ IEs \subseteq Nat \ {0} /\ Drives \subseteq Nat \ {0}
    /\ Slots \cap IEs = {} /\ Slots \cap Drives = {} /\ IEs \cap Drives = {}
    /\ NoTape \notin Tapes
    /\ SelfExchange \in BOOLEAN

VARIABLES
    loading,   \* the daemon has not loaded all cartridges yet
    data,      \* the cartridge in each element
    full,      \* ELEMENT_DESCRIPTOR_FULL
    impexp,    \* IE_MASK_IMPEXP: the operator put it into the port
    source,    \* source storage address of each element, 0: SVALID not set
    pvoltag,   \* the label reported for each element
    exported,  \* export_list
    arm,       \* the command of the changer's thread
    adding,    \* the cartridge that is being created, and its element
    known,     \* history: cartridges added and not deleted
    moved,     \* history: those the robot has moved since
    last,      \* history: the slot the robot last took each of them from
    lost       \* history: those an overwritten pointer was the last one to

desc == <<full, impexp, source, pvoltag>>
history == <<known, moved, last, lost>>
vars == <<loading, data, desc, exported, arm, adding, history>>

Elements == Slots \cup IEs \cup Drives
Idle == [pc |-> "idle"]

Init ==
    /\ loading = TRUE
    /\ data = [e \in Elements |-> NoTape]
    /\ full = [e \in Elements |-> FALSE]
    /\ impexp = [e \in IEs |-> FALSE]
    /\ source = [e \in Elements |-> 0]
    /\ pvoltag = [e \in Elements |-> NoTape]
    /\ exported = {}
    /\ arm = Idle /\ adding = Idle
    /\ known = {} /\ moved = {} /\ lost = {}
    /\ last = [t \in Tapes |-> 0]

MchangerLock == arm = Idle /\ ~loading
IoctlLock == adding = Idle

-----------------------------------------------------------------------------
(***************************************************************************)
(* Free elements.                                                          *)
(***************************************************************************)
storage_element_in_use(s) == \E d \in Drives : data[d] # NoTape /\ source[d] = s

FreeSlots == {s \in Slots : data[s] = NoTape /\ ~storage_element_in_use(s)}
FreeIEs == {e \in IEs : data[e] = NoTape}

(* The first free slot; for a cartridge that is added, the first free port *)
(* if the changer has initiators and the operator did not ask for a slot.  *)
get_free_element(use_free_slot, attached) ==
    IF ~use_free_slot /\ attached /\ FreeIEs # {} THEN Min(FreeIEs) ELSE Min(FreeSlots)

(* A cartridge that is put in by management.                               *)
Put(e, t) ==
    /\ data' = [data EXCEPT ![e] = t]
    /\ full' = [full EXCEPT ![e] = TRUE]
    /\ pvoltag' = [pvoltag EXCEPT ![e] = t]
    /\ moved' = moved \ {t}
    /\ last' = [last EXCEPT ![t] = 0]
    /\ UNCHANGED source

-----------------------------------------------------------------------------
(***************************************************************************)
(* When the daemon starts it loads the cartridges it knows, each to the    *)
(* element it was in, if that is free, or to a slot; exported ones to the  *)
(* list.  No initiator is let in before that is done.                      *)
(***************************************************************************)
mchanger_load_vcartridge(t, e) ==
    /\ loading /\ t \notin known
    /\ data[e] = NoTape
    /\ Put(e, t)
    /\ impexp' = IF e \in IEs THEN [impexp EXCEPT ![e] = TRUE] ELSE impexp
    /\ known' = known \cup {t}
    /\ UNCHANGED <<loading, exported, arm, adding, lost>>

load_exported(t) ==
    /\ loading /\ t \notin known
    /\ \E e \in Elements : data[e] = NoTape
    /\ exported' = exported \cup {t} /\ known' = known \cup {t}
    /\ UNCHANGED <<loading, data, desc, arm, adding, moved, last, lost>>

coremod_load_done ==
    /\ loading /\ loading' = FALSE
    /\ UNCHANGED <<data, desc, exported, arm, adding, history>>

-----------------------------------------------------------------------------
(***************************************************************************)
(* MOVE MEDIUM from s to d.  The cartridge t was read before the drive s   *)
(* unloads, and is put into d after that.                                  *)
(***************************************************************************)
mchanger_cmd_move_medium(s, d) ==
    /\ MchangerLock
    /\ s # d /\ data[s] # NoTape /\ data[d] = NoTape
    /\ arm' = [pc |-> IF s \in Drives THEN "unload" ELSE "assign",
               s |-> s, d |-> d, t |-> data[s]]
    /\ UNCHANGED <<loading, data, desc, exported, adding, history>>

move_unload ==
    /\ arm.pc = "unload"
    /\ \/ /\ data' = [data EXCEPT ![arm.s] = NoTape]
          /\ arm' = [arm EXCEPT !.pc = "assign"]
       \/ /\ arm' = Idle
          /\ UNCHANGED data
    /\ UNCHANGED <<loading, desc, exported, adding, history>>

(* Faulty: the source is taken to be a slot.                               *)
update_source_Any(src, e) == e

(* update_element_descriptor_source_storage_address: where the cartridge   *)
(* of an element that it leaves was last stored, from the descriptors src. *)
update_source(src, e) == IF e \in Slots THEN e ELSE src[e]

(* The slot a cartridge leaves, for the history.                           *)
LeftSlot(t, e) == IF e \in Slots THEN e ELSE last[t]

(* Faulty: the source keeps its cartridge.                                 *)
move_end_Keeps ==
    /\ arm.pc = "assign"
    /\ data' = [data EXCEPT ![arm.d] = arm.t]
    /\ source' = [source EXCEPT ![arm.d] = update_source(source, arm.s), ![arm.s] = 0]
    /\ full' = [full EXCEPT ![arm.d] = TRUE, ![arm.s] = FALSE]
    /\ pvoltag' = [e \in Elements |-> IF e \in {arm.s, arm.d} THEN data'[e] ELSE pvoltag[e]]
    /\ arm' = Idle
    /\ UNCHANGED <<impexp, loading, exported, adding, history>>

(* With mchanger_move_update.  Meanwhile a new cartridge may have been put *)
(* into either element: it is overwritten.                                 *)
move_end ==
    LET s == arm.s
        d == arm.d
    IN
    /\ arm.pc = "assign"
    /\ data' = IF s \in Drives THEN [data EXCEPT ![d] = arm.t]
                               ELSE [data EXCEPT ![d] = arm.t, ![s] = NoTape]
    /\ source' = [source EXCEPT ![d] = update_source(source, s), ![s] = 0]
    /\ full' = [full EXCEPT ![d] = TRUE, ![s] = FALSE]
    /\ pvoltag' = [pvoltag EXCEPT ![d] = data'[d], ![s] = data'[s]]
    /\ impexp' = [e \in IEs |-> impexp[e] /\ e # s]
    /\ arm' = Idle
    /\ moved' = moved \cup {arm.t}
    /\ last' = [last EXCEPT ![arm.t] = LeftSlot(arm.t, s)]
    /\ lost' = (lost \cup {data[d], data[s]}) \ {arm.t, NoTape}
    /\ UNCHANGED <<loading, exported, adding, known>>

-----------------------------------------------------------------------------
(***************************************************************************)
(* EXCHANGE MEDIUM: the cartridge t of s goes to f, and u, which was there,*)
(* to d, which may be s.                                                   *)
(***************************************************************************)
mchanger_cmd_exchange_medium(s, f, d) ==
    /\ MchangerLock
    /\ s = f => SelfExchange
    /\ data[s] # NoTape /\ data[f] # NoTape
    /\ data[d] = NoTape \/ d = s
    /\ arm' = [pc |-> "exchange", s |-> s, f |-> f, d |-> d, t |-> data[s], u |-> data[f]]
    /\ UNCHANGED <<loading, data, desc, exported, adding, history>>

(* Drives among s and f unload, s first.  When f then fails the command    *)
(* ends, and nothing points to the cartridge of the drive s any more.      *)
exchange_unload ==
    LET s == arm.s
        f == arm.f
        Empty(S) == [e \in Elements |-> IF e \in S \cap Drives THEN NoTape ELSE data[e]]
    IN
    /\ arm.pc = "exchange"
    /\ \/ /\ data' = Empty({s, f})
          /\ arm' = [arm EXCEPT !.pc = "exchange assign"]
          /\ UNCHANGED lost
       \/ /\ s \in Drives
          /\ arm' = Idle
          /\ UNCHANGED <<data, lost>>
       \/ /\ f \in Drives
          /\ data' = Empty({s})
          /\ arm' = Idle
          /\ lost' = IF s \in Drives THEN lost \cup {arm.t} ELSE lost
    /\ UNCHANGED <<loading, desc, exported, adding, known, moved, last>>

(* Faulty: the source is emptied last.                                     *)
Exchanged_SourceLast ==
    LET two == [data EXCEPT ![arm.f] = arm.t, ![arm.d] = arm.u]
    IN IF arm.s \in Drives THEN two ELSE [two EXCEPT ![arm.s] = NoTape]

(* What the three elements hold in the end.                                *)
Exchanged ==
    LET s == arm.s
        f == arm.f
        one == [data EXCEPT ![f] = arm.t]
        two == IF s \in Drives THEN one ELSE [one EXCEPT ![s] = NoTape]
    IN [two EXCEPT ![arm.d] = arm.u]

(* Faulty: the first destination's descriptor is not copied before it is   *)
(* overwritten.                                                            *)
exchange_source_NoCopy ==
    LET one == [source EXCEPT ![arm.f] = update_source(source, arm.s)]
    IN [one EXCEPT ![arm.d] = update_source(one, arm.f)]

(* The source addresses: that of d comes from the copy of f's descriptor.  *)
exchange_source ==
    LET one == [source EXCEPT ![arm.f] = update_source(source, arm.s)]
    IN [one EXCEPT ![arm.d] = update_source(source, arm.f)]

(* Faulty: the source is marked empty last.                                *)
exchange_full_SourceLast ==
    [full EXCEPT ![arm.f] = TRUE, ![arm.d] = TRUE, ![arm.s] = FALSE]

exchange_full == [full EXCEPT ![arm.f] = TRUE, ![arm.s] = FALSE, ![arm.d] = TRUE]

(* With mchanger_exchange_update, which leaves IMPEXP of the destinations  *)
(* as it was.                                                              *)
exchange_end ==
    LET s == arm.s
        f == arm.f
        d == arm.d
    IN
    /\ arm.pc = "exchange assign"
    /\ data' = Exchanged
    /\ source' = exchange_source
    /\ full' = exchange_full
    /\ pvoltag' = [e \in Elements |-> IF e \in {s, f, d} THEN data'[e] ELSE pvoltag[e]]
    /\ impexp' = [e \in IEs |-> impexp[e] /\ ~(e = s /\ s # d)]
    /\ arm' = Idle
    /\ moved' = moved \cup {arm.t, arm.u}
    /\ last' = [last EXCEPT ![arm.t] = LeftSlot(arm.t, s), ![arm.u] = LeftSlot(arm.u, f)]
    /\ lost' = (lost \cup {data[s], data[f], data[d]}) \ {arm.t, arm.u, NoTape}
    /\ UNCHANGED <<loading, exported, adding, known>>

-----------------------------------------------------------------------------
(***************************************************************************)
(* Adding a cartridge, in two steps around tape_new.                       *)
(***************************************************************************)
mchanger_new_vcartridge(t, use_free_slot, attached) ==
    /\ ~loading /\ IoctlLock /\ t \notin known
    /\ FreeSlots # {}
    /\ adding' = [pc |-> "tape_new", e |-> get_free_element(use_free_slot, attached), t |-> t]
    /\ UNCHANGED <<loading, data, desc, exported, arm, history>>

tape_new_fails ==
    /\ adding # Idle
    /\ adding' = Idle
    /\ UNCHANGED <<loading, data, desc, exported, arm, history>>

(* Faulty: a cartridge in a port is not marked as the operator's.          *)
new_vcartridge_end_NoImpexp ==
    /\ adding # Idle
    /\ adding' = Idle
    /\ Put(adding.e, adding.t)
    /\ known' = known \cup {adding.t}
    /\ lost' = (lost \cup {data[adding.e]}) \ {NoTape}
    /\ UNCHANGED <<loading, impexp, exported, arm>>

new_vcartridge_end ==
    /\ adding # Idle
    /\ adding' = Idle
    /\ Put(adding.e, adding.t)
    /\ impexp' = [e \in IEs |-> impexp[e] \/ e = adding.e]
    /\ known' = known \cup {adding.t}
    /\ lost' = (lost \cup {data[adding.e]}) \ {NoTape}
    /\ UNCHANGED <<loading, exported, arm>>

-----------------------------------------------------------------------------
(* Asking for a cartridge's state exports what the robot has put into the  *)
(* ports, except where the cartridge's metadata cannot be written.         *)
mchanger_check_for_exported_volumes ==
    /\ MchangerLock /\ IoctlLock
    /\ \E out \in SUBSET {e \in IEs : data[e] # NoTape /\ ~impexp[e]} :
          /\ data' = [e \in Elements |-> IF e \in out THEN NoTape ELSE data[e]]
          /\ full' = [e \in Elements |-> full[e] /\ e \notin out]
          /\ pvoltag' = [e \in Elements |-> IF e \in out THEN NoTape ELSE pvoltag[e]]
          /\ exported' = exported \cup {data[e] : e \in out}
    /\ UNCHANGED <<loading, impexp, source, arm, adding, history>>

mchanger_reload_export_vcartridge(t) ==
    /\ MchangerLock /\ IoctlLock
    /\ t \in exported
    /\ FreeSlots # {}
    /\ Put(Min(FreeSlots), t)
    /\ exported' = exported \ {t}
    /\ UNCHANGED <<loading, impexp, arm, adding, known, lost>>

(* A cartridge is deleted where it is found first; a drive may refuse to   *)
(* unload it.                                                              *)
mchanger_delete_vcartridge(t) ==
    /\ MchangerLock /\ IoctlLock
    /\ \/ \E e \in Elements :
             /\ data[e] = t
             /\ data' = [data EXCEPT ![e] = NoTape]
             /\ full' = [full EXCEPT ![e] = FALSE]
             /\ pvoltag' = [pvoltag EXCEPT ![e] = NoTape]
             /\ impexp' = [i \in IEs |-> impexp[i] /\ i # e]
             /\ UNCHANGED exported
       \/ /\ t \in exported
          /\ exported' = exported \ {t}
          /\ UNCHANGED <<data, full, pvoltag, impexp>>
    /\ known' = known \ {t} /\ moved' = moved \ {t}
    /\ last' = [last EXCEPT ![t] = 0]
    /\ UNCHANGED <<loading, source, arm, adding, lost>>

-----------------------------------------------------------------------------
Robot ==
    \/ \E s, d \in Elements : mchanger_cmd_move_medium(s, d)
    \/ move_unload
    \/ move_end
    \/ \E s, f, d \in Elements : mchanger_cmd_exchange_medium(s, f, d)
    \/ exchange_unload
    \/ exchange_end

Management ==
    \/ \E t \in Tapes, e \in Elements : mchanger_load_vcartridge(t, e)
    \/ \E t \in Tapes : load_exported(t)
    \/ coremod_load_done
    \/ \E t \in Tapes, slot \in BOOLEAN, attached \in BOOLEAN :
          mchanger_new_vcartridge(t, slot, attached)
    \/ tape_new_fails
    \/ new_vcartridge_end
    \/ mchanger_check_for_exported_volumes
    \/ \E t \in Tapes : mchanger_reload_export_vcartridge(t)
    \/ \E t \in Tapes : mchanger_delete_vcartridge(t)

Next == Robot \/ Management
Spec == Init /\ [][Next]_vars

-----------------------------------------------------------------------------
Places(t) == {e \in Elements : data[e] = t}

(* The types of the variables; the source of an element is a slot or none. *)
TypeOK ==
    /\ loading \in BOOLEAN
    /\ data \in [Elements -> Tapes \cup {NoTape}]
    /\ full \in [Elements -> BOOLEAN] /\ impexp \in [IEs -> BOOLEAN]
    /\ source \in [Elements -> Slots \cup {0}]
    /\ pvoltag \in [Elements -> Tapes \cup {NoTape}]
    /\ exported \subseteq Tapes /\ known \subseteq Tapes
    /\ moved \subseteq Tapes /\ lost \subseteq Tapes
    /\ last \in [Tapes -> Slots \cup {0}]
    /\ arm = Idle \/ ({arm.s, arm.d} \subseteq Elements /\ arm.t \in Tapes)
    /\ adding = Idle \/ (adding.e \in Slots \cup IEs /\ adding.t \in Tapes)

(* No cartridge is in two elements, or in an element and on the export     *)
(* list, whatever the robot and the ioctls do at the same time: two        *)
(* elements with one struct tape would free it twice.                      *)
InOnePlace ==
    \A t \in Tapes :
        /\ \A e, g \in Places(t) : e = g
        /\ t \in exported => Places(t) = {}

(* Between commands a cartridge that was added and not deleted is          *)
(* somewhere, unless its last pointer was overwritten by the addition of   *)
(* another, or dropped by an EXCHANGE whose second unload failed.          *)
Accounted ==
    arm = Idle => \A t \in known : Places(t) # {} \/ t \in exported \cup lost

(* Between commands READ ELEMENT STATUS tells what is in every element; it *)
(* still lists a cartridge that such an EXCHANGE has lost.                 *)
StatusTrue ==
    arm = Idle => \A e \in Elements :
        \/ full[e] = (data[e] # NoTape) /\ pvoltag[e] = data[e]
        \/ full[e] /\ pvoltag[e] \in lost

(* Of a cartridge that the robot has taken from a slot the source storage  *)
(* address is that slot, however often it was moved or exchanged since.    *)
SourceIsLastSlot ==
    arm = Idle => \A e \in Elements :
        data[e] # NoTape /\ last[data[e]] # 0 => source[e] = last[data[e]]

(* What is not marked as the operator's in a port, and so will be          *)
(* exported, was put there by the robot: a cartridge just added never      *)
(* disappears from the library.                                            *)
OutgoingWasMoved ==
    \A e \in IEs : data[e] # NoTape /\ ~impexp[e] => data[e] \in moved
=============================================================================
