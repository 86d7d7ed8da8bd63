----------------------------- MODULE Reservation -----------------------------
(***************************************************************************)
(* Reservations and registrations of one virtual device, a tape drive or a *)
(* media changer, and the unit attentions they cause (core/reservation.c;  *)
(* RESERVE, RELEASE and the checks every command begins with are in        *)
(* core/tdrive.c and core/mchanger.c, unit attentions in core/vdevdefs.c). *)
(*                                                                         *)
(* The device executes one command at a time under its lock, so a command  *)
(* is one action.  An initiator is one I_T nexus.  registration_list is a  *)
(* set: its order is seen only in the answer to READ KEYS.                 *)
(***************************************************************************)
EXTENDS Integers, FiniteSets, Sequences

CONSTANTS
    Initiators,
    Keys,                   \* reservation keys; 0 stands for none
    Types,                  \* the persistent reservation types in use
    Device,                 \* "drive" or "changer"
    Rekeys,                 \* initiators change the key of a registration
    Generations,            \* the generation counter wraps here (2^32)
    MAX_UNIT_ATTENTIONS

(* The types, by their numbers in a command.                               *)
WRITE_EXCLUSIVE == 1
EXCLUSIVE_ACCESS == 3
WRITE_EXCLUSIVE_RO == 5
EXCLUSIVE_ACCESS_RO == 6
WRITE_EXCLUSIVE_AR == 7
EXCLUSIVE_ACCESS_AR == 8

AllRegistrants == {WRITE_EXCLUSIVE_AR, EXCLUSIVE_ACCESS_AR}
RegistrantsOnly == {WRITE_EXCLUSIVE_RO, EXCLUSIVE_ACCESS_RO}

NoOne == 0

ASSUME InitiatorsAssumption == NoOne \notin Initiators
ASSUME KeysAssumption == Keys \subseteq Nat \ {0}
ASSUME TypesAssumption ==
    Types \subseteq {WRITE_EXCLUSIVE, EXCLUSIVE_ACCESS} \cup RegistrantsOnly \cup AllRegistrants
ASSUME DeviceAssumption == Device \in {"drive", "changer"}
ASSUME RekeysAssumption == Rekeys \in BOOLEAN
ASSUME GenerationsAssumption == Generations \in Nat \ {0, 1}
ASSUME UnitAttentionsAssumption == MAX_UNIT_ATTENTIONS \in Nat \ {0}

VARIABLES
    registration_list,  \* registrations [i, key]
    reservation,        \* [held, type, ptype, key, who]
    generation,
    known,              \* initiators the device has a state for
    sense,              \* their pending unit attentions, the oldest first
    res                 \* the last command [i, cmd, st, aborts]

vars == <<registration_list, reservation, generation, known, sense, res>>

UnitAttentions == {"RESERVATIONS_RELEASED", "RESERVATIONS_PREEMPTED",
                   "REGISTRATIONS_PREEMPTED", "PARAMETERS_CHANGED"}

Init ==
    /\ registration_list = {}
    /\ reservation = [held |-> FALSE, type |-> "none", ptype |-> 0, key |-> 0, who |-> NoOne]
    /\ generation = 0
    /\ known = {}
    /\ sense = [i \in Initiators |-> <<>>]
    /\ res = [i |-> NoOne, cmd |-> "NONE", st |-> "GOOD", aborts |-> {}]

-----------------------------------------------------------------------------
Registered(i) == \E r \in registration_list : r.i = i
initiator_has_registered(i, key) == [i |-> i, key |-> key] \in registration_list

Persistent == reservation.held /\ reservation.type = "persistent"
in_persistent_ro_type == Persistent /\ reservation.ptype \in RegistrantsOnly
in_persistent_ar_type == Persistent /\ reservation.ptype \in AllRegistrants

is_persistent_reservation_holder(i) ==
    /\ reservation.type = "persistent"
    /\ IF reservation.ptype \in AllRegistrants THEN Registered(i) ELSE reservation.who = i

persistent_reservation_reset ==
    [held |-> FALSE, type |-> "none", ptype |-> 0, key |-> 0, who |-> reservation.who]

(* Faulty: a full list refuses the new entry.                              *)
AddSense_Refuses(s, ua) == IF Len(s) = MAX_UNIT_ATTENTIONS THEN s ELSE Append(s, ua)

(* device_add_sense: a full list loses its oldest entry.                   *)
AddSense(s, ua) == IF Len(s) = MAX_UNIT_ATTENTIONS THEN Append(Tail(s), ua) ELSE Append(s, ua)

(* registrant_unit_attention, for each initiator in S the device knows.    *)
unit_attention(S, ua) ==
    sense' = [j \in Initiators |-> IF j \in S \cap known THEN AddSense(sense[j], ua) ELSE sense[j]]

OtherRegistrants(i) == {r.i : r \in registration_list} \ {i}

-----------------------------------------------------------------------------
(***************************************************************************)
(* Which commands of another initiator a reservation refuses, by device.   *)
(* WRITE stands for the commands that change the medium or the drive, READ *)
(* for those that move or read it, MODE SENSE for the changer's reports    *)
(* and TEST UNIT READY, INQUIRY for the ones that are always answered.     *)
(***************************************************************************)
ExcludesWrites(i) ==
    \/ reservation.ptype \in {WRITE_EXCLUSIVE, EXCLUSIVE_ACCESS}
    \/ reservation.ptype \in RegistrantsOnly /\ ~Registered(i)

ExcludesReads(i) ==
    \/ reservation.ptype = EXCLUSIVE_ACCESS
    \/ reservation.ptype = EXCLUSIVE_ACCESS_RO /\ ~Registered(i)

tdrive_cmd_access(i, cmd) ==
    IF reservation.type = "reserve"
    THEN cmd \notin {"WRITE", "SET CAPACITY", "READ", "PREVENT", "RESERVE", "PR IN", "PR OUT"}
    ELSE /\ cmd \in {"WRITE", "SET CAPACITY", "PREVENT"} => ~ExcludesWrites(i)
         /\ cmd = "READ" => ~ExcludesReads(i)
         /\ cmd \notin {"RESERVE", "RELEASE"}

mchanger_cmd_access(i, cmd) ==
    IF reservation.type = "reserve"
    THEN cmd \notin {"MODE SENSE", "EXCHANGE", "PREVENT", "RESERVE", "PR IN", "PR OUT"}
    ELSE /\ cmd \in {"MODE SENSE", "PREVENT", "ALLOW", "INQUIRY", "PR IN", "PR OUT"}
         /\ cmd \in {"MODE SENSE", "PREVENT"} => ~ExcludesWrites(i)

device_reserved(i) == reservation.held /\ reservation.who # i

cmd_access_ok(i, cmd) ==
    device_reserved(i) =>
        IF Device = "drive" THEN tdrive_cmd_access(i, cmd) ELSE mchanger_cmd_access(i, cmd)

(* The commands that have no effect on what is modelled here.              *)
OtherCommands ==
    {"INQUIRY", "PR IN", "PREVENT", "ALLOW"} \cup
    (IF Device = "drive" THEN {"WRITE", "READ"} ELSE {"MODE SENSE", "EXCHANGE", "MOVE"})

-----------------------------------------------------------------------------
(* A command arrives (the device then has a state for its initiator) and   *)
(* is answered.                                                            *)
AnswerAborting(i, cmd, st, aborts) ==
    /\ known' = known \cup {i}
    /\ res' = [i |-> i, cmd |-> cmd, st |-> st, aborts |-> aborts]

Answer(i, cmd, st) == AnswerAborting(i, cmd, st, {})

NoChange == UNCHANGED <<registration_list, reservation, generation>>

(* A pending unit attention answers the command, which is not executed.    *)
ReportAttention(i, cmd) ==
    /\ cmd # "INQUIRY"
    /\ sense[i] # <<>>
    /\ sense' = [sense EXCEPT ![i] = Tail(@)]
    /\ Answer(i, cmd, "UNIT ATTENTION")
    /\ NoChange

Conflict(i, cmd) ==
    /\ cmd = "INQUIRY" \/ sense[i] = <<>>
    /\ ~cmd_access_ok(i, cmd)
    /\ Answer(i, cmd, "CONFLICT")
    /\ UNCHANGED sense /\ NoChange

Admitted(i, cmd) == (cmd = "INQUIRY" \/ sense[i] = <<>>) /\ cmd_access_ok(i, cmd)

OtherCommand(i, cmd) ==
    /\ Admitted(i, cmd)
    /\ Answer(i, cmd, "GOOD")
    /\ UNCHANGED sense /\ NoChange

(* REQUEST SENSE is answered with the oldest unit attention, if any.       *)
RequestSense(i) ==
    /\ IF cmd_access_ok(i, "REQUEST SENSE")
       THEN /\ Answer(i, "REQUEST SENSE", IF sense[i] = <<>> THEN "GOOD" ELSE "UNIT ATTENTION")
            /\ sense' = [sense EXCEPT ![i] = IF @ = <<>> THEN @ ELSE Tail(@)]
       ELSE Answer(i, "REQUEST SENSE", "CONFLICT") /\ UNCHANGED sense
    /\ NoChange

(* device_unit_attention, to S, where it is not pending already.           *)
UnlessPending(S, ua) ==
    {j \in S : \A k \in DOMAIN sense[j] : sense[j][k] # ua}

(* A drive's SET CAPACITY tells all other initiators.                      *)
tdrive_cmd_set_capacity(i) ==
    /\ Device = "drive" /\ Admitted(i, "SET CAPACITY")
    /\ unit_attention(UnlessPending(Initiators \ {i}, "PARAMETERS_CHANGED"), "PARAMETERS_CHANGED")
    /\ Answer(i, "SET CAPACITY", "GOOD")
    /\ NoChange

(* A changer tells all initiators when its elements change.                *)
mchanger_unit_attention ==
    /\ Device = "changer"
    /\ unit_attention(UnlessPending(Initiators, "PARAMETERS_CHANGED"), "PARAMETERS_CHANGED")
    /\ res' = [i |-> NoOne, cmd |-> "CHANGE", st |-> "GOOD", aborts |-> {}]
    /\ UNCHANGED known /\ NoChange

-----------------------------------------------------------------------------
(* RESERVE and RELEASE.  RELEASE leaves everything but is_reserved.        *)
Reserve(i) ==
    /\ Admitted(i, "RESERVE")
    /\ reservation' = [held |-> TRUE, type |-> "reserve", ptype |-> reservation.ptype,
                       key |-> reservation.key, who |-> i]
    /\ Answer(i, "RESERVE", "GOOD")
    /\ UNCHANGED <<registration_list, generation, sense>>

Release(i) ==
    /\ Admitted(i, "RELEASE")
    /\ reservation' = IF reservation.who = i THEN [held |-> FALSE, type |-> reservation.type, ptype |-> reservation.ptype,
                            key |-> reservation.key, who |-> i]
                      ELSE reservation
    /\ Answer(i, "RELEASE", "GOOD")
    /\ UNCHANGED <<registration_list, generation, sense>>

-----------------------------------------------------------------------------
(***************************************************************************)
(* PERSISTENT RESERVE OUT, one action per service action.  PrOut(i, sa, st)*)
(* is its answer.                                                          *)
(***************************************************************************)
PrOut(i, sa, st) == Admitted(i, "PR OUT") /\ Answer(i, sa, st)

Rejected(i, sa, st) == PrOut(i, sa, st) /\ UNCHANGED sense /\ NoChange

NextGeneration == generation' = (generation + 1) % Generations

(* Faulty: whoever unregisters ends the reservation; the holder that does  *)
(* keeps it.                                                               *)
RemoveRegistration_Resets(r) ==
    /\ registration_list' = registration_list \ {r}
    /\ reservation' = IF reservation.held THEN persistent_reservation_reset ELSE reservation
    /\ UNCHANGED sense
RemoveRegistration_Keeps(r) ==
    /\ registration_list' = registration_list \ {r}
    /\ UNCHANGED <<reservation, sense>>

(* persistent_reservation_remove_registration: r is on the list no more.   *)
RemoveRegistration(r) ==
    LET left == registration_list \ {r}
        ends == IF in_persistent_ar_type THEN left = {}
                ELSE is_persistent_reservation_holder(r.i)
    IN /\ registration_list' = left
       /\ reservation' = IF reservation.held /\ ends THEN persistent_reservation_reset
                         ELSE reservation
       /\ IF in_persistent_ro_type /\ ends
          THEN unit_attention(OtherRegistrants(r.i), "RESERVATIONS_RELEASED")
          ELSE UNCHANGED sense

(* Faulty: the registration under the old key stays.                       *)
Rekey_Adds(r, new) ==
    /\ Rekeys \/ new = r.key
    /\ registration_list' = registration_list \cup {[i |-> r.i, key |-> new]}
    /\ UNCHANGED <<reservation, sense>>

(* REGISTER, and REGISTER AND IGNORE EXISTING KEY where key is not looked  *)
(* at.  The service action key new is 0 to unregister.                     *)
Rekey(r, new) ==
    /\ Rekeys \/ new = r.key
    /\ registration_list' = (registration_list \ {r}) \cup {[i |-> r.i, key |-> new]}
    /\ UNCHANGED <<reservation, sense>>

Register(i, sa, ignore, key, new) ==
    LET mine == {r \in registration_list : r.i = i} IN
    IF ~ignore /\ (IF mine = {} THEN key # 0 ELSE \E r \in mine : r.key # key)
    THEN Rejected(i, sa, "CONFLICT")
    ELSE /\ PrOut(i, sa, "GOOD")
         /\ NextGeneration
         /\ IF mine = {}
            THEN /\ registration_list' = registration_list \cup
                        (IF new = 0 THEN {} ELSE {[i |-> i, key |-> new]})
                 /\ UNCHANGED <<reservation, sense>>
            ELSE \E r \in mine : IF new = 0 THEN RemoveRegistration(r) ELSE Rekey(r, new)

persistent_reservation_handle_register(i, key, new) ==
    Register(i, "REGISTER", FALSE, key, new)

persistent_reservation_handle_register_and_ignore(i, new) ==
    Register(i, "REGISTER IGNORE", TRUE, 0, new)

persistent_reservation_handle_reserve(i, key, type) ==
    LET taken == \/ ~is_persistent_reservation_holder(i)
                 \/ reservation.key # key
                 \/ reservation.ptype # type
    IN IF ~initiator_has_registered(i, key) \/ (reservation.held /\ taken)
       THEN Rejected(i, "PR RESERVE", "CONFLICT")
       ELSE /\ PrOut(i, "PR RESERVE", "GOOD")
            /\ reservation' = IF reservation.held THEN reservation
                              ELSE [held |-> TRUE, type |-> "persistent", ptype |-> type,
                                    key |-> key, who |-> i]
            /\ UNCHANGED <<registration_list, generation, sense>>

persistent_reservation_handle_release(i, key, type) ==
    LET registered == initiator_has_registered(i, key)
        mine       == in_persistent_ar_type \/ reservation.who = i
    IN IF ~reservation.held \/ (registered /\ ~mine)
       THEN Rejected(i, "PR RELEASE", "GOOD")
       ELSE IF ~registered \/ (~in_persistent_ar_type /\ reservation.key # key)
       THEN Rejected(i, "PR RELEASE", "CONFLICT")
       ELSE IF reservation.ptype # type
       THEN Rejected(i, "PR RELEASE", "ILLEGAL")
       ELSE /\ PrOut(i, "PR RELEASE", "GOOD")
            /\ IF type \in RegistrantsOnly \cup AllRegistrants
               THEN unit_attention(OtherRegistrants(i), "RESERVATIONS_RELEASED")
               ELSE UNCHANGED sense
            /\ reservation' = persistent_reservation_reset
            /\ UNCHANGED <<registration_list, generation>>

persistent_reservation_handle_clear(i, key) ==
    IF ~initiator_has_registered(i, key) THEN Rejected(i, "CLEAR", "CONFLICT")
    ELSE /\ PrOut(i, "CLEAR", "GOOD")
         /\ unit_attention(OtherRegistrants(i), "RESERVATIONS_PREEMPTED")
         /\ registration_list' = {}
         /\ reservation' = persistent_reservation_reset
         /\ NextGeneration

(***************************************************************************)
(* PREEMPT (AND ABORT): the registrations of other initiators with the     *)
(* service action key go, all of them if it is 0 under an all registrants  *)
(* type; a reservation with that key passes to i.                          *)
(***************************************************************************)
persistent_reservation_handle_preempt(i, sa, key, victim, type) ==
    LET ar     == in_persistent_ar_type
        gone   == {r \in registration_list :
                       r.i # i /\ (r.key = victim \/ (ar /\ victim = 0))}
        passes == IF ar THEN victim = 0 ELSE reservation.held /\ reservation.key = victim
    IN IF ~initiator_has_registered(i, key) \/ (reservation.held /\ reservation.key # key)
       THEN Rejected(i, sa, "CONFLICT")
       ELSE IF ~ar /\ reservation.held /\ victim = 0
       THEN Rejected(i, sa, "ILLEGAL")
       ELSE /\ Admitted(i, "PR OUT")
            /\ AnswerAborting(i, sa, "GOOD",
                              IF sa = "PREEMPT ABORT" THEN {r.i : r \in gone} ELSE {})
            /\ registration_list' = registration_list \ gone
            /\ unit_attention({r.i : r \in gone}, "REGISTRATIONS_PREEMPTED")
            /\ reservation' = IF passes
                              THEN [held |-> TRUE, type |-> "persistent", ptype |-> type,
                                    key |-> key, who |-> i]
                              ELSE reservation
            /\ NextGeneration

-----------------------------------------------------------------------------
(* A target reset ends a RESERVE, never a persistent reservation.          *)
Reset ==
    /\ reservation' = IF reservation.held /\ reservation.type = "reserve"
                      THEN [held |-> FALSE, type |-> "none", ptype |-> reservation.ptype,
                            key |-> reservation.key, who |-> reservation.who]
                      ELSE reservation
    /\ res' = [i |-> NoOne, cmd |-> "RESET", st |-> "GOOD", aborts |-> {}]
    /\ UNCHANGED <<registration_list, generation, known, sense>>

(* device_free_initiator: the session of i ends and its state goes; the    *)
(* registration and the reservation stay.                                  *)
device_free_initiator(i) ==
    /\ i \in known
    /\ known' = known \ {i}
    /\ sense' = [sense EXCEPT ![i] = <<>>]
    /\ res' = [i |-> i, cmd |-> "LOGOUT", st |-> "GOOD", aborts |-> {}]
    /\ NoChange

ServiceAction(i) ==
    \/ \E key, new \in Keys \cup {0} : persistent_reservation_handle_register(i, key, new)
    \/ \E new \in Keys \cup {0} : persistent_reservation_handle_register_and_ignore(i, new)
    \/ \E key \in Keys, type \in Types : persistent_reservation_handle_reserve(i, key, type)
    \/ \E key \in Keys, type \in Types : persistent_reservation_handle_release(i, key, type)
    \/ \E key \in Keys : persistent_reservation_handle_clear(i, key)
    \/ \E sa \in {"PREEMPT", "PREEMPT ABORT"}, key \in Keys, victim \in Keys \cup {0}, type \in Types :
          persistent_reservation_handle_preempt(i, sa, key, victim, type)

Commands == OtherCommands \cup {"RESERVE", "RELEASE", "PR OUT"}

Next ==
    \/ \E i \in Initiators :
           \/ \E cmd \in Commands : ReportAttention(i, cmd) \/ Conflict(i, cmd)
           \/ \E cmd \in OtherCommands : OtherCommand(i, cmd)
           \/ RequestSense(i)
           \/ tdrive_cmd_set_capacity(i)
           \/ Reserve(i)
           \/ Release(i)
           \/ ServiceAction(i)
           \/ device_free_initiator(i)
    \/ mchanger_unit_attention
    \/ Reset

Spec == Init /\ [][Next]_vars

-----------------------------------------------------------------------------
(* The reservation and the registrations are well formed, no key is 0, and *)
(* an initiator has at most MAX_UNIT_ATTENTIONS pending, none if the       *)
(* device does not know it (device_add_sense, device_free_initiator).      *)
TypeOK ==
    /\ registration_list \subseteq [i : Initiators, key : Keys]
    /\ reservation \in [held : BOOLEAN, type : {"none", "reserve", "persistent"},
                        ptype : Types \cup {0}, key : Keys \cup {0},
                        who : Initiators \cup {NoOne}]
    /\ generation \in 0..(Generations - 1)
    /\ known \subseteq Initiators
    /\ sense \in [Initiators -> Seq(UnitAttentions)]
    /\ \A i \in Initiators : /\ Len(sense[i]) <= MAX_UNIT_ATTENTIONS
                             /\ i \notin known => sense[i] = <<>>

(***************************************************************************)
(* An initiator has one registration at most: REGISTER looks for one       *)
(* before it adds one, and a change of key replaces it.                    *)
(***************************************************************************)
OneRegistration ==
    \A r, s \in registration_list : r.i = s.i => r = s

(***************************************************************************)
(* Who may take a reservation away: its holder, which for the all          *)
(* registrants types is every registrant; a registrant that clears or      *)
(* preempts; and a reset, for a RESERVE only.  Unregistering, releasing    *)
(* and reserving by anyone else leave it alone, through whatever mixture   *)
(* of RESERVE and persistent reservations it came about.                   *)
(***************************************************************************)
MayTake(i, cmd) ==
    \/ reservation.who = i
    \/ in_persistent_ar_type /\ Registered(i)
    \/ Registered(i) /\ cmd \in {"CLEAR", "PREEMPT", "PREEMPT ABORT"}
    \/ cmd = "RESET" /\ reservation.type = "reserve"

ReservationStays ==
    [][reservation.held /\ reservation' # reservation => MayTake(res'.i, res'.cmd)]_vars

(***************************************************************************)
(* The generation READ KEYS reports changes with every change of the       *)
(* registrations, so an initiator that reads the same generation twice has *)
(* seen the same keys.                                                     *)
(***************************************************************************)
GenerationTells ==
    [][registration_list' # registration_list => generation' # generation]_vars

(***************************************************************************)
(* An initiator that loses its registration through another one's CLEAR or *)
(* PREEMPT hears of it: if the device knows it, the last of its pending    *)
(* unit attentions says so.                                                *)
(***************************************************************************)
LossIsTold ==
    [][\A i \in known : (Registered(i) /\ ~Registered(i)' /\ res'.i # i) =>
           /\ sense'[i] # <<>>
           /\ sense'[i][Len(sense'[i])] \in {"REGISTRATIONS_PREEMPTED", "RESERVATIONS_PREEMPTED"}]_vars

(***************************************************************************)
(* A persistent reservation that is not of an all registrants type belongs *)
(* to an initiator registered under its key, who can release it, as long   *)
(* as no initiator changes its key: a REGISTER does not carry the new key  *)
(* over to the reservation.                                                *)
(***************************************************************************)
HolderRegistered ==
    ~Rekeys /\ Persistent /\ ~in_persistent_ar_type =>
        initiator_has_registered(reservation.who, reservation.key)
=============================================================================
