-------------------------- MODULE ReservationProofs --------------------------
(***************************************************************************)
(* The properties of Reservation for any initiators, keys and types, and   *)
(* for drives and changers alike.                                          *)
(***************************************************************************)
EXTENDS Reservation, SequenceTheorems, TLAPS

(* What TypeOK says of the pending unit attentions, and of all the rest.   *)
SenseOK ==
    /\ known \subseteq Initiators
    /\ sense \in [Initiators -> Seq(UnitAttentions)]
    /\ \A i \in Initiators : /\ Len(sense[i]) <= MAX_UNIT_ATTENTIONS
                             /\ i \notin known => sense[i] = <<>>

ReservationOK ==
    /\ registration_list \subseteq [i : Initiators, key : Keys]
    /\ reservation \in [held : BOOLEAN, type : {"none", "reserve", "persistent"},
                        ptype : Types \cup {0}, key : Keys \cup {0},
                        who : Initiators \cup {NoOne}]
    /\ generation \in 0..(Generations - 1)

-----------------------------------------------------------------------------
(* A list of pending unit attentions within its limit stays within it, and *)
(* the new one is its last (device_add_sense).                             *)
LEMMA AddSenseFacts ==
    ASSUME NEW s \in Seq(UnitAttentions), Len(s) <= MAX_UNIT_ATTENTIONS,
           NEW ua \in UnitAttentions
    PROVE  /\ AddSense(s, ua) \in Seq(UnitAttentions)
           /\ Len(AddSense(s, ua)) <= MAX_UNIT_ATTENTIONS
           /\ AddSense(s, ua) # <<>>
           /\ AddSense(s, ua)[Len(AddSense(s, ua))] = ua
  <1> USE UnitAttentionsAssumption
  <1> HIDE DEF UnitAttentions
  <1>1. CASE Len(s) = MAX_UNIT_ATTENTIONS
    <2>1. s # <<>>
      BY <1>1
    <2>2. Tail(s) \in Seq(UnitAttentions) /\ Len(Tail(s)) = Len(s) - 1
      BY <2>1
    <2> QED BY <1>1, <2>2, AppendProperties DEF AddSense
  <1>2. CASE Len(s) # MAX_UNIT_ATTENTIONS
    BY <1>2, AppendProperties DEF AddSense
  <1> QED BY <1>1, <1>2

(* Telling initiators something keeps the pending unit attentions well     *)
(* formed (registrant_unit_attention, device_unit_attention).              *)
LEMMA UnitAttentionKeepsSense ==
    ASSUME SenseOK, NEW S, NEW ua \in UnitAttentions, unit_attention(S, ua),
           known \subseteq known', known' \subseteq Initiators
    PROVE  SenseOK'
  <1>1. ASSUME NEW j \in Initiators
        PROVE  /\ sense'[j] \in Seq(UnitAttentions)
               /\ Len(sense'[j]) <= MAX_UNIT_ATTENTIONS
               /\ j \notin known' => sense'[j] = <<>>
    <2>1. CASE j \in S \cap known
      BY <2>1, AddSenseFacts DEF SenseOK, unit_attention
    <2>2. CASE j \notin S \cap known
      BY <2>2 DEF SenseOK, unit_attention
    <2> QED BY <2>1, <2>2
  <1>2. sense' = [j \in Initiators |-> sense'[j]]
    BY DEF unit_attention
  <1> QED BY <1>1, <1>2 DEF SenseOK

(* So does taking the oldest one.                                          *)
LEMMA TailKeepsSense ==
    ASSUME SenseOK, NEW i \in Initiators, sense[i] # <<>>,
           sense' = [sense EXCEPT ![i] = Tail(@)], known' = known \cup {i}
    PROVE  SenseOK'
  <1> HIDE DEF UnitAttentions
  <1>1. sense[i] \in Seq(UnitAttentions)
    BY DEF SenseOK
  <1>2. Tail(sense[i]) \in Seq(UnitAttentions) /\ Len(Tail(sense[i])) = Len(sense[i]) - 1
    BY <1>1
  <1>3. Len(sense[i]) \in Nat
    BY <1>1
  <1> QED BY <1>2, <1>3, UnitAttentionsAssumption DEF SenseOK

-----------------------------------------------------------------------------
(***************************************************************************)
(* What a PERSISTENT RESERVE OUT of i can do, whatever its service action  *)
(* and keys: nothing; count a generation; register, unregister or change   *)
(* the key; reserve; release; clear; preempt.                              *)
(***************************************************************************)
Nothing == UNCHANGED <<registration_list, reservation, sense>>

Registers(i, new) ==
    /\ ~Registered(i)
    /\ registration_list' = registration_list \cup {[i |-> i, key |-> new]}
    /\ UNCHANGED <<reservation, sense>>
    /\ NextGeneration

Reserves(i, key, type) ==
    /\ initiator_has_registered(i, key)
    /\ ~reservation.held
    /\ reservation' = [held |-> TRUE, type |-> "persistent", ptype |-> type,
                       key |-> key, who |-> i]
    /\ UNCHANGED <<registration_list, generation, sense>>

Releases(i) ==
    /\ (in_persistent_ar_type /\ Registered(i)) \/ reservation.who = i
    /\ reservation' = persistent_reservation_reset
    /\ UNCHANGED <<registration_list, generation>>
    /\ sense' = sense \/ unit_attention(OtherRegistrants(i), "RESERVATIONS_RELEASED")

Clears(i) ==
    /\ Registered(i)
    /\ res'.cmd = "CLEAR"
    /\ unit_attention(OtherRegistrants(i), "RESERVATIONS_PREEMPTED")
    /\ registration_list' = {}
    /\ reservation' = persistent_reservation_reset
    /\ NextGeneration

Preempts(i, gone, key, victim, type) ==
    /\ initiator_has_registered(i, key)
    /\ res'.cmd \in {"PREEMPT", "PREEMPT ABORT"}
    /\ gone = {r \in registration_list :
                   r.i # i /\ (r.key = victim \/ (in_persistent_ar_type /\ victim = 0))}
    /\ registration_list' = registration_list \ gone
    /\ unit_attention({r.i : r \in gone}, "REGISTRATIONS_PREEMPTED")
    /\ reservation' = IF (IF in_persistent_ar_type THEN victim = 0
                          ELSE reservation.held /\ reservation.key = victim)
                      THEN [held |-> TRUE, type |-> "persistent", ptype |-> type,
                            key |-> key, who |-> i]
                      ELSE reservation
    /\ NextGeneration

Effect(i) ==
    \/ Nothing /\ (UNCHANGED generation \/ NextGeneration)
    \/ \E new \in Keys : Registers(i, new)
    \/ \E r \in registration_list : r.i = i /\ RemoveRegistration(r) /\ NextGeneration
    \/ \E r \in registration_list, new \in Keys : r.i = i /\ Rekey(r, new) /\ NextGeneration
    \/ \E key \in Keys, type \in Types : Reserves(i, key, type)
    \/ Releases(i)
    \/ Clears(i)
    \/ \E gone \in SUBSET registration_list, key \in Keys, victim \in Keys \cup {0},
          type \in Types : Preempts(i, gone, key, victim, type)

(* The initiator of a command is known, and its answer names it.           *)
LEMMA AnswerFacts ==
    ASSUME NEW i, NEW cmd, NEW st, NEW aborts, AnswerAborting(i, cmd, st, aborts)
    PROVE  known' = known \cup {i} /\ res'.i = i /\ res'.cmd = cmd
  BY DEF AnswerAborting

(* Every service action has one of these effects, and i is its initiator.  *)
LEMMA ServiceActionEffect ==
    ASSUME NEW i \in Initiators, ServiceAction(i)
    PROVE  /\ known' = known \cup {i}
           /\ res'.i = i
           /\ Effect(i)
  <1> DEFINE Goal == known' = known \cup {i} /\ res'.i = i /\ Effect(i)
  <1>1. ASSUME NEW sa, NEW st, Rejected(i, sa, st)
        PROVE  Goal
    BY <1>1, AnswerFacts, Zenon DEF Rejected, PrOut, Answer, NoChange, Effect, Nothing
  <1>2. ASSUME NEW sa, NEW ignore, NEW key, NEW new \in Keys \cup {0},
               Register(i, sa, ignore, key, new)
        PROVE  Goal
    <2> SUFFICES ASSUME ~Rejected(i, sa, "CONFLICT") PROVE Goal
      BY <1>1
    <2>1. known' = known \cup {i} /\ res'.i = i /\ NextGeneration
      BY <1>2, AnswerFacts, Zenon DEF Register, PrOut, Answer
    <2>2. CASE Registered(i)
      <3>1. PICK r \in registration_list :
                r.i = i /\ (IF new = 0 THEN RemoveRegistration(r) ELSE Rekey(r, new))
        BY <1>2, <2>2 DEF Register, Registered
      <3> QED BY <2>1, <3>1 DEF Effect
    <2>3. CASE ~Registered(i)
      <3>1. /\ registration_list' = registration_list \cup
                   (IF new = 0 THEN {} ELSE {[i |-> i, key |-> new]})
            /\ UNCHANGED <<reservation, sense>>
        BY <1>2, <2>3 DEF Register, Registered
      <3>2. CASE new = 0
        BY <2>1, <3>1, <3>2 DEF Effect, Nothing
      <3>3. CASE new # 0
        BY <2>1, <2>3, <3>1, <3>3 DEF Effect, Registers
      <3> QED BY <3>2, <3>3
    <2> QED BY <2>2, <2>3
  <1>3. ASSUME NEW key \in Keys, NEW type \in Types,
               persistent_reservation_handle_reserve(i, key, type)
        PROVE  Goal
    <2> SUFFICES ASSUME ~Rejected(i, "PR RESERVE", "CONFLICT") PROVE Goal
      BY <1>1, Zenon
    <2>1. known' = known \cup {i} /\ res'.i = i
      BY <1>3, AnswerFacts, Zenon DEF persistent_reservation_handle_reserve, PrOut, Answer
    <2>2. Reserves(i, key, type) \/ (Nothing /\ UNCHANGED generation)
      BY <1>3, Zenon DEF persistent_reservation_handle_reserve, Reserves, Nothing
    <2> QED BY <2>1, <2>2, Zenon DEF Effect
  <1>4. ASSUME NEW key \in Keys, NEW type \in Types,
               persistent_reservation_handle_release(i, key, type)
        PROVE  Goal
    <2> SUFFICES ASSUME \A st : ~Rejected(i, "PR RELEASE", st) PROVE Goal
      BY <1>1, Zenon
    <2>1. known' = known \cup {i} /\ res'.i = i
      BY <1>4, AnswerFacts, Zenon DEF persistent_reservation_handle_release, PrOut, Answer
    <2>2. initiator_has_registered(i, key) => Registered(i)
      BY Zenon DEF initiator_has_registered, Registered
    <2>3. Releases(i)
      BY <1>4, <2>2, Zenon DEF persistent_reservation_handle_release, Releases
    <2> QED BY <2>1, <2>3, Zenon DEF Effect
  <1>5. ASSUME NEW key \in Keys, persistent_reservation_handle_clear(i, key)
        PROVE  Goal
    <2> SUFFICES ASSUME ~Rejected(i, "CLEAR", "CONFLICT") PROVE Goal
      BY <1>1
    <2>1. known' = known \cup {i} /\ res'.i = i /\ res'.cmd = "CLEAR"
      BY <1>5, AnswerFacts, Zenon DEF persistent_reservation_handle_clear, PrOut, Answer
    <2>2. initiator_has_registered(i, key) => Registered(i)
      BY DEF initiator_has_registered, Registered
    <2>3. Clears(i)
      BY <1>5, <2>1, <2>2 DEF persistent_reservation_handle_clear, Clears
    <2> QED BY <2>1, <2>3 DEF Effect
  <1>6. ASSUME NEW sa \in {"PREEMPT", "PREEMPT ABORT"}, NEW key \in Keys,
               NEW victim \in Keys \cup {0}, NEW type \in Types,
               persistent_reservation_handle_preempt(i, sa, key, victim, type)
        PROVE  Goal
    <2> SUFFICES ASSUME \A st : ~Rejected(i, sa, st) PROVE Goal
      BY <1>1, Zenon
    <2> DEFINE gone == {r \in registration_list :
                   r.i # i /\ (r.key = victim \/ (in_persistent_ar_type /\ victim = 0))}
    <2>1. known' = known \cup {i} /\ res'.i = i /\ res'.cmd = sa
      BY <1>6, AnswerFacts, Zenon DEF persistent_reservation_handle_preempt
    <2>2. Preempts(i, gone, key, victim, type)
      BY <1>6, <2>1, Zenon DEF persistent_reservation_handle_preempt, Preempts
    <2>3. gone \in SUBSET registration_list
      BY Zenon
    <2> HIDE DEF gone
    <2> QED BY <2>1, <2>2, <2>3, Zenon DEF Effect
  <1> QED BY <1>2, <1>3, <1>4, <1>5, <1>6, Zenon DEF ServiceAction,
            persistent_reservation_handle_register,
            persistent_reservation_handle_register_and_ignore

-----------------------------------------------------------------------------
(* A step of any action keeps the pending unit attentions well formed.     *)
LEMMA NextKeepsSense ==
    ASSUME SenseOK, [Next]_vars
    PROVE  SenseOK'
  <1> USE DEF Answer, AnswerAborting, UnitAttentions
  <1>1. ASSUME NEW i \in Initiators, NEW cmd, ReportAttention(i, cmd)
        PROVE  SenseOK'
    BY <1>1, TailKeepsSense, Zenon DEF ReportAttention
  <1>2. ASSUME NEW i \in Initiators, NEW cmd, Conflict(i, cmd)
        PROVE  SenseOK'
    BY <1>2 DEF Conflict, SenseOK
  <1>3. ASSUME NEW i \in Initiators, NEW cmd, OtherCommand(i, cmd)
        PROVE  SenseOK'
    BY <1>3 DEF OtherCommand, SenseOK
  <1>4. ASSUME NEW i \in Initiators, RequestSense(i)
        PROVE  SenseOK'
    <2>1. CASE sense[i] # <<>> /\ cmd_access_ok(i, "REQUEST SENSE")
      <3>1. sense' = [sense EXCEPT ![i] = Tail(@)] /\ known' = known \cup {i}
        BY <1>4, <2>1, Zenon DEF RequestSense
      <3> QED BY <2>1, <3>1, TailKeepsSense, Zenon
    <2>2. CASE ~(sense[i] # <<>> /\ cmd_access_ok(i, "REQUEST SENSE"))
      <3>1. sense' = sense /\ known' = known \cup {i}
        BY <1>4, <2>2, Zenon DEF RequestSense, SenseOK
      <3> QED BY <3>1 DEF SenseOK
    <2> QED BY <2>1, <2>2, Zenon
  <1>5. ASSUME NEW i \in Initiators, tdrive_cmd_set_capacity(i)
        PROVE  SenseOK'
    <2>1. known \subseteq known' /\ known' \subseteq Initiators
      BY <1>5, Zenon DEF tdrive_cmd_set_capacity, SenseOK
    <2> QED BY <1>5, <2>1, UnitAttentionKeepsSense, Zenon DEF tdrive_cmd_set_capacity
  <1>6. ASSUME mchanger_unit_attention
        PROVE  SenseOK'
    <2>1. known \subseteq known' /\ known' \subseteq Initiators
      BY <1>6 DEF mchanger_unit_attention, SenseOK
    <2> QED BY <1>6, <2>1, UnitAttentionKeepsSense DEF mchanger_unit_attention
  <1>7. ASSUME NEW i \in Initiators, Reserve(i) \/ Release(i)
        PROVE  SenseOK'
    BY <1>7 DEF Reserve, Release, SenseOK
  <1>8. ASSUME NEW i \in Initiators, ServiceAction(i)
        PROVE  SenseOK'
    <2>1. known \subseteq known' /\ known' \subseteq Initiators /\ Effect(i)
      BY <1>8, ServiceActionEffect DEF SenseOK
    <2>2. CASE sense' = sense
      BY <2>1, <2>2 DEF SenseOK
    <2>3. ASSUME NEW S, NEW ua \in UnitAttentions, unit_attention(S, ua)
          PROVE  SenseOK'
      BY <2>1, <2>3, UnitAttentionKeepsSense
    <2> QED BY <2>1, <2>2, <2>3, Zenon DEF Effect, Nothing, Registers, RemoveRegistration,
              Rekey, Reserves, Releases, Clears, Preempts
  <1>9. ASSUME NEW i \in Initiators, device_free_initiator(i)
        PROVE  SenseOK'
    BY <1>9, UnitAttentionsAssumption DEF device_free_initiator, SenseOK
  <1>10. CASE Reset
    BY <1>10 DEF Reset, SenseOK
  <1>11. CASE UNCHANGED vars
    BY <1>11 DEF vars, SenseOK
  <1> QED BY <1>1, <1>2, <1>3, <1>4, <1>5, <1>6, <1>7, <1>8, <1>9, <1>10, <1>11 DEF Next

(* A step of any action but PERSISTENT RESERVE OUT leaves registrations    *)
(* and generation alone, and the reservation too unless it is RESERVE,     *)
(* RELEASE by the holder, or a reset of a RESERVE.                         *)
Reserves6(i) ==
    /\ ~device_reserved(i)
    /\ reservation' = [held |-> TRUE, type |-> "reserve", ptype |-> reservation.ptype,
                       key |-> reservation.key, who |-> i]

Releases6(i) ==
    /\ reservation.who = i
    /\ reservation' = [held |-> FALSE, type |-> reservation.type, ptype |-> reservation.ptype,
                       key |-> reservation.key, who |-> i]

Resets ==
    /\ reservation.held /\ reservation.type = "reserve"
    /\ res'.cmd = "RESET"
    /\ reservation' = [held |-> FALSE, type |-> "none", ptype |-> reservation.ptype,
                       key |-> reservation.key, who |-> reservation.who]

LEMMA StepEffect ==
    ASSUME [Next]_vars
    PROVE  \/ \E i \in Initiators : res'.i = i /\ Effect(i)
           \/ /\ UNCHANGED <<registration_list, generation>>
              /\ \/ UNCHANGED reservation
                 \/ \E i \in Initiators : res'.i = i /\ (Reserves6(i) \/ Releases6(i))
                 \/ Resets
  <1> DEFINE Same == UNCHANGED <<registration_list, generation, reservation>>
  <1>1. ASSUME NEW i \in Initiators, ServiceAction(i)
        PROVE  res'.i = i /\ Effect(i)
    BY <1>1, ServiceActionEffect
  <1>2. ASSUME NEW i \in Initiators, Reserve(i)
        PROVE  UNCHANGED <<registration_list, generation>> /\ res'.i = i /\ Reserves6(i)
    <2>1. res'.i = i
      BY <1>2, AnswerFacts DEF Reserve, Answer
    <2>2. ~device_reserved(i)
      BY <1>2, DeviceAssumption DEF Reserve, Admitted, cmd_access_ok, tdrive_cmd_access,
           mchanger_cmd_access
    <2> QED BY <1>2, <2>1, <2>2 DEF Reserve, Reserves6
  <1>3. ASSUME NEW i \in Initiators, Release(i)
        PROVE  /\ UNCHANGED <<registration_list, generation>>
               /\ UNCHANGED reservation \/ (res'.i = i /\ Releases6(i))
    <2>1. res'.i = i
      BY <1>3, AnswerFacts DEF Release, Answer
    <2> QED BY <1>3, <2>1 DEF Release, Releases6
  <1>4. CASE Reset
    <2>1. res'.cmd = "RESET" /\ UNCHANGED <<registration_list, generation>>
      BY <1>4 DEF Reset
    <2> QED BY <1>4, <2>1 DEF Reset, Resets
  <1>5. ASSUME NEW i \in Initiators,
               \/ \E cmd \in Commands : ReportAttention(i, cmd) \/ Conflict(i, cmd)
               \/ \E cmd \in OtherCommands : OtherCommand(i, cmd)
               \/ RequestSense(i)
               \/ tdrive_cmd_set_capacity(i)
               \/ device_free_initiator(i)
        PROVE  Same
    BY <1>5, Zenon DEF ReportAttention, Conflict, OtherCommand, RequestSense,
         tdrive_cmd_set_capacity, device_free_initiator, NoChange
  <1>6. CASE mchanger_unit_attention
    BY <1>6 DEF mchanger_unit_attention, NoChange
  <1>7. CASE UNCHANGED vars
    BY <1>7 DEF vars
  <1> QED BY <1>1, <1>2, <1>3, <1>4, <1>5, <1>6, <1>7 DEF Next

-----------------------------------------------------------------------------
(* The registrations, the reservation and the generation stay well formed. *)
LEMMA NextKeepsReservation ==
    ASSUME ReservationOK, [Next]_vars
    PROVE  ReservationOK'
  <1> USE DEF ReservationOK
  <1>1. NextGeneration => generation' \in 0..(Generations - 1)
    BY GenerationsAssumption DEF NextGeneration
  <1>2. persistent_reservation_reset \in
            [held : BOOLEAN, type : {"none", "reserve", "persistent"},
             ptype : Types \cup {0}, key : Keys \cup {0}, who : Initiators \cup {NoOne}]
    BY DEF persistent_reservation_reset
  <1>3. ASSUME NEW i \in Initiators, Effect(i)
        PROVE  ReservationOK'
    <2>1. CASE Nothing /\ (UNCHANGED generation \/ NextGeneration)
      BY <1>1, <2>1 DEF Nothing
    <2>2. ASSUME NEW new \in Keys, Registers(i, new)
          PROVE  ReservationOK'
      BY <1>1, <2>2 DEF Registers
    <2>3. ASSUME NEW r \in registration_list, RemoveRegistration(r), NextGeneration
          PROVE  ReservationOK'
      BY <1>1, <1>2, <2>3 DEF RemoveRegistration
    <2>4. ASSUME NEW r \in registration_list, NEW new \in Keys, Rekey(r, new), NextGeneration
          PROVE  ReservationOK'
      BY <1>1, <2>4 DEF Rekey
    <2>5. ASSUME NEW key \in Keys, NEW type \in Types, Reserves(i, key, type)
          PROVE  ReservationOK'
      BY <2>5 DEF Reserves
    <2>6. CASE Releases(i)
      BY <1>2, <2>6 DEF Releases
    <2>7. CASE Clears(i)
      BY <1>1, <1>2, <2>7 DEF Clears
    <2>8. ASSUME NEW gone, NEW key \in Keys, NEW victim, NEW type \in Types,
                 Preempts(i, gone, key, victim, type)
          PROVE  ReservationOK'
      BY <1>1, <2>8, Zenon DEF Preempts
    <2> QED BY <1>3, <2>1, <2>2, <2>3, <2>4, <2>5, <2>6, <2>7, <2>8, Zenon DEF Effect
  <1>4. CASE UNCHANGED <<registration_list, generation, reservation>>
    BY <1>4
  <1>5. ASSUME UNCHANGED <<registration_list, generation>>,
               NEW i \in Initiators, Reserves6(i) \/ Releases6(i)
        PROVE  ReservationOK'
    <2>1. CASE Reserves6(i)
      BY <1>5, <2>1 DEF Reserves6
    <2>2. CASE Releases6(i)
      BY <1>5, <2>2 DEF Releases6
    <2> QED BY <1>5, <2>1, <2>2
  <1>6. CASE UNCHANGED <<registration_list, generation>> /\ Resets
    BY <1>6 DEF Resets
  <1> QED BY <1>3, <1>4, <1>5, <1>6, StepEffect

(* TypeOK, for every device, initiators, keys and limits.                  *)
THEOREM TypeCorrect == Spec => []TypeOK
  <1>1. Init => SenseOK /\ ReservationOK
    <2>1. Init => SenseOK
      BY UnitAttentionsAssumption DEF Init, SenseOK
    <2>2. Init => ReservationOK
      BY GenerationsAssumption DEF Init, ReservationOK
    <2> QED BY <2>1, <2>2
  <1>2. SenseOK /\ ReservationOK /\ [Next]_vars => SenseOK' /\ ReservationOK'
    BY NextKeepsSense, NextKeepsReservation
  <1>3. SenseOK /\ ReservationOK => TypeOK
    BY DEF SenseOK, ReservationOK, TypeOK
  <1> QED BY <1>1, <1>2, <1>3, PTL DEF Spec

-----------------------------------------------------------------------------
(* An initiator never has two registrations, whatever it registers, under  *)
(* whatever keys and in whatever order.                                    *)
THEOREM OneRegistrationEach == Spec => []OneRegistration
  <1> USE DEF OneRegistration
  <1>1. Init => OneRegistration
    BY DEF Init
  <1>2. ASSUME OneRegistration, [Next]_vars
        PROVE  OneRegistration'
    <2>1. CASE registration_list' \subseteq registration_list
      BY <1>2, <2>1
    <2>2. ASSUME NEW i, NEW new, Registers(i, new)
          PROVE  OneRegistration'
      BY <1>2, <2>2 DEF Registers, Registered
    <2>3. ASSUME NEW r \in registration_list, NEW new, Rekey(r, new)
          PROVE  OneRegistration'
      BY <1>2, <2>3 DEF Rekey
    <2>4. ASSUME NEW i \in Initiators, Effect(i)
          PROVE  OneRegistration'
      BY <2>1, <2>2, <2>3, <2>4, Zenon DEF Effect, Nothing, RemoveRegistration, Reserves, Releases,
           Clears, Preempts
    <2> QED BY <1>2, <2>1, <2>4, StepEffect
  <1> QED BY <1>1, <1>2, PTL DEF Spec

(* The generation changes with the registrations: it is one more, modulo   *)
(* the width of the counter.                                               *)
THEOREM GenerationTellsAll == Spec => GenerationTells
  <1>1. ASSUME ReservationOK, [Next]_vars, registration_list' # registration_list
        PROVE  generation' # generation
    <2>1. NextGeneration
      BY <1>1, StepEffect, Zenon DEF Effect, Nothing, Registers, Reserves, Releases, Clears, Preempts
    <2> QED BY <1>1, <2>1, GenerationsAssumption DEF NextGeneration, ReservationOK
  <1>2. Init => ReservationOK
    BY GenerationsAssumption DEF Init, ReservationOK
  <1>3. ReservationOK /\ [Next]_vars => ReservationOK'
    BY NextKeepsReservation
  <1>4. ReservationOK /\ [Next]_vars =>
            [registration_list' # registration_list => generation' # generation]_vars
    BY <1>1
  <1> QED BY <1>2, <1>3, <1>4, PTL DEF Spec, GenerationTells

(***************************************************************************)
(* A reservation is taken away only by those who may: its holder, a        *)
(* registrant where that is allowed, and a reset for a RESERVE.            *)
(***************************************************************************)
THEOREM ReservationStaysHeld == Spec => ReservationStays
  <1>1. ASSUME [Next]_vars, reservation.held, reservation' # reservation
        PROVE  MayTake(res'.i, res'.cmd)
    <2>1. ASSUME NEW i \in Initiators, res'.i = i, Effect(i)
          PROVE  MayTake(res'.i, res'.cmd)
      <3>1. CASE \E r \in registration_list : r.i = i /\ RemoveRegistration(r)
        <4>1. PICK r \in registration_list : r.i = i /\ RemoveRegistration(r)
          BY <3>1
        <4>2. Registered(i)
          BY <4>1 DEF Registered
        <4>3. in_persistent_ar_type \/ is_persistent_reservation_holder(i)
          BY <1>1, <4>1 DEF RemoveRegistration
        <4>4. in_persistent_ar_type \/ reservation.who = i
          BY <1>1, <4>3 DEF is_persistent_reservation_holder, in_persistent_ar_type, Persistent
        <4> QED BY <2>1, <4>2, <4>4, Zenon DEF MayTake
      <3>2. CASE Releases(i)
        BY <2>1, <3>2, Zenon DEF Releases, MayTake
      <3>3. CASE Clears(i)
        BY <2>1, <3>3 DEF Clears, MayTake
      <3>4. CASE \E gone, key, victim, type : Preempts(i, gone, key, victim, type)
        BY <2>1, <3>4, Zenon DEF Preempts, MayTake, initiator_has_registered, Registered
      <3> QED BY <1>1, <2>1, <3>1, <3>2, <3>3, <3>4 DEF Effect, Nothing, Registers, Rekey,
                Reserves
    <2>2. ASSUME NEW i \in Initiators, res'.i = i, Reserves6(i) \/ Releases6(i)
          PROVE  MayTake(res'.i, res'.cmd)
      BY <1>1, <2>2, Zenon DEF Reserves6, Releases6, device_reserved, MayTake
    <2>3. CASE Resets
      BY <2>3 DEF Resets, MayTake
    <2> QED BY <1>1, <2>1, <2>2, <2>3, StepEffect
  <1>2. [Next]_vars => [reservation.held /\ reservation' # reservation =>
                            MayTake(res'.i, res'.cmd)]_vars
    BY <1>1
  <1> QED BY <1>2, PTL DEF Spec, ReservationStays

-----------------------------------------------------------------------------
(***************************************************************************)
(* While no initiator changes its key, a persistent reservation belongs to *)
(* a registration with its key: a PREEMPT that removes that registration   *)
(* names the key of the reservation, and so takes it over.                 *)
(***************************************************************************)
THEOREM HolderIsRegistered == Spec => []HolderRegistered
  <1>1. Init => HolderRegistered
    BY DEF Init, HolderRegistered, Persistent
  <1>2. ASSUME ReservationOK, HolderRegistered, [Next]_vars
        PROVE  HolderRegistered'
    <2> SUFFICES ASSUME ~Rekeys, Persistent', ~in_persistent_ar_type'
                 PROVE  initiator_has_registered(reservation.who, reservation.key)'
      BY DEF HolderRegistered
    <2>1. CASE reservation' = reservation
      <3>0. /\ Persistent /\ ~in_persistent_ar_type
            /\ [i |-> reservation.who, key |-> reservation.key] \in registration_list
        BY <1>2, <2>1 DEF HolderRegistered, Persistent, in_persistent_ar_type,
             initiator_has_registered
      <3> DEFINE h == [i |-> reservation.who, key |-> reservation.key]
      <3>1. SUFFICES h \in registration_list'
        BY <2>1 DEF initiator_has_registered
      <3>2. CASE registration_list \subseteq registration_list'
        BY <3>0, <3>2
      <3>3. ASSUME NEW i, NEW r \in registration_list, r.i = i, RemoveRegistration(r)
            PROVE  h \in registration_list'
        <4>1. r # h
          <5>1. ASSUME r = h PROVE FALSE
            <6>1. is_persistent_reservation_holder(r.i)
              BY <3>0, <5>1 DEF is_persistent_reservation_holder, in_persistent_ar_type, Persistent
            <6>2. reservation' = persistent_reservation_reset
              BY <3>0, <3>3, <6>1 DEF RemoveRegistration, Persistent
            <6>3. ~Persistent'
              BY <6>2 DEF persistent_reservation_reset, Persistent
            <6> QED BY <6>3
          <5> QED BY <5>1
        <4> QED BY <3>0, <3>3, <4>1 DEF RemoveRegistration
      <3>4. ASSUME NEW r \in registration_list, NEW new, Rekey(r, new)
            PROVE  h \in registration_list'
        <4>1. r \in [i : Initiators, key : Keys]
          BY <1>2 DEF ReservationOK
        <4>2. r = [i |-> r.i, key |-> new]
          BY <3>4, <4>1 DEF Rekey
        <4> QED BY <3>0, <3>4, <4>2 DEF Rekey
      <3>5. ASSUME NEW i, Clears(i)
            PROVE  h \in registration_list'
        <4>1. ~Persistent'
          BY <3>5 DEF Clears, persistent_reservation_reset, Persistent
        <4> QED BY <4>1
      <3>6. ASSUME NEW i \in Initiators, NEW gone, NEW key, NEW victim, NEW type,
                   Preempts(i, gone, key, victim, type)
            PROVE  h \in registration_list'
        <4>1. h.key = victim => reservation.held /\ reservation.key = victim
          BY <3>0 DEF Persistent
        <4>2. h \in gone => h.key = victim /\ h.i # i
          BY <3>0, <3>6, Zenon DEF Preempts
        <4>3. reservation.key = victim => reservation'.who = i
          BY <3>0, <3>6, Zenon DEF Preempts, Persistent
        <4> QED BY <2>1, <3>0, <3>6, <4>1, <4>2, <4>3, Zenon DEF Preempts
      <3>7. ASSUME NEW i \in Initiators, Effect(i)
            PROVE  h \in registration_list'
        BY <3>0, <3>2, <3>3, <3>4, <3>5, <3>6, <3>7 DEF Effect, Nothing, Registers, Reserves,
             Releases
      <3> QED BY <1>2, <3>2, <3>7, StepEffect
    <2>2. CASE reservation' # reservation
      <3>1. ASSUME NEW i \in Initiators, Effect(i)
            PROVE  initiator_has_registered(reservation.who, reservation.key)'
        <4>1. CASE reservation' = persistent_reservation_reset
          BY <4>1 DEF persistent_reservation_reset, Persistent
        <4>2. ASSUME NEW key, NEW type, Reserves(i, key, type)
              PROVE  initiator_has_registered(reservation.who, reservation.key)'
          BY <4>2 DEF Reserves, initiator_has_registered
        <4>3. ASSUME NEW gone, NEW key, NEW victim, NEW type,
                     Preempts(i, gone, key, victim, type)
              PROVE  initiator_has_registered(reservation.who, reservation.key)'
          <5>1. reservation'.who = i /\ reservation'.key = key
            BY <2>2, <4>3, Zenon DEF Preempts
          <5>2. [i |-> i, key |-> key] \notin gone /\ [i |-> i, key |-> key] \in registration_list
            BY <4>3, Zenon DEF Preempts, initiator_has_registered
          <5> QED BY <4>3, <5>1, <5>2, Zenon DEF Preempts, initiator_has_registered
        <4> QED BY <2>2, <3>1, <4>1, <4>2, <4>3 DEF Effect, Nothing, Registers, Rekey,
                  RemoveRegistration, Releases, Clears
      <3>2. ASSUME NEW i \in Initiators, Reserves6(i)
            PROVE  FALSE
        BY <3>2 DEF Reserves6, Persistent
      <3>3. ASSUME NEW i \in Initiators, Releases6(i)
            PROVE  FALSE
        BY <3>3 DEF Releases6, Persistent
      <3>4. CASE Resets
        BY <3>4 DEF Resets, Persistent
      <3> QED BY <1>2, <2>2, <3>1, <3>2, <3>3, <3>4, StepEffect
    <2> QED BY <2>1, <2>2
  <1>3. Spec => []ReservationOK
    <2>1. Init => ReservationOK
      BY GenerationsAssumption DEF Init, ReservationOK
    <2>2. ReservationOK /\ [Next]_vars => ReservationOK'
      BY NextKeepsReservation
    <2> QED BY <2>1, <2>2, PTL DEF Spec
  <1> QED BY <1>1, <1>2, <1>3, PTL DEF Spec

-----------------------------------------------------------------------------
(***************************************************************************)
(* Whoever loses a registration to another initiator has that as its last  *)
(* pending unit attention, even where the list was full.                   *)
(***************************************************************************)
THEOREM LossIsAlwaysTold == Spec => LossIsTold
  <1> DEFINE Lost(j) == j \in known /\ Registered(j) /\ ~Registered(j)' /\ res'.i # j
             Told(j) == /\ sense'[j] # <<>>
                        /\ sense'[j][Len(sense'[j])] \in
                               {"REGISTRATIONS_PREEMPTED", "RESERVATIONS_PREEMPTED"}
  <1>1. ASSUME SenseOK, NEW S, NEW ua \in {"REGISTRATIONS_PREEMPTED", "RESERVATIONS_PREEMPTED"},
               unit_attention(S, ua), NEW j \in S, j \in known
        PROVE  Told(j)
    <2>1. j \in Initiators /\ sense[j] \in Seq(UnitAttentions)
              /\ Len(sense[j]) <= MAX_UNIT_ATTENTIONS
      BY <1>1 DEF SenseOK
    <2>2. sense'[j] = AddSense(sense[j], ua)
      BY <1>1, <2>1 DEF unit_attention
    <2>3. ua \in UnitAttentions
      BY <1>1 DEF UnitAttentions
    <2> QED BY <2>1, <2>2, <2>3, AddSenseFacts
  <1>2. ASSUME SenseOK, [Next]_vars, NEW j \in known, Lost(j)
        PROVE  Told(j)
    <2>1. PICK r \in registration_list : r.i = j /\ r \notin registration_list'
      BY <1>2 DEF Registered
    <2>2. PICK i \in Initiators : res'.i = i /\ Effect(i)
      BY <2>1, <1>2, StepEffect
    <2>3. i # j
      BY <1>2, <2>2
    <2>4. CASE Clears(i)
      <3>1. j \in OtherRegistrants(i)
        BY <2>1, <2>3 DEF OtherRegistrants
      <3> QED BY <1>1, <1>2, <2>4, <3>1 DEF Clears
    <2>5. ASSUME NEW gone, NEW key, NEW victim, NEW type, Preempts(i, gone, key, victim, type)
          PROVE  Told(j)
      <3>1. r \in gone
        BY <2>1, <2>5, Zenon DEF Preempts
      <3>2. j \in {s.i : s \in gone}
        BY <2>1, <3>1
      <3> QED BY <1>1, <1>2, <2>5, <3>2, Zenon DEF Preempts
    <2>6. ASSUME NEW s \in registration_list, s.i = i, RemoveRegistration(s) \/ \E new : Rekey(s, new)
          PROVE  FALSE
      BY <2>1, <2>3, <2>6 DEF RemoveRegistration, Rekey
    <2> QED BY <2>1, <2>2, <2>4, <2>5, <2>6 DEF Effect, Nothing, Registers, Reserves, Releases
  <1>3. Init => SenseOK
    BY UnitAttentionsAssumption DEF Init, SenseOK
  <1>4. SenseOK /\ [Next]_vars => SenseOK'
    BY NextKeepsSense
  <1>5. SenseOK /\ [Next]_vars =>
            [\A i \in known : (Registered(i) /\ ~Registered(i)' /\ res'.i # i) =>
                 /\ sense'[i] # <<>>
                 /\ sense'[i][Len(sense'[i])] \in
                        {"REGISTRATIONS_PREEMPTED", "RESERVATIONS_PREEMPTED"}]_vars
    BY <1>2
  <1> QED BY <1>3, <1>4, <1>5, PTL DEF Spec, LossIsTold
=============================================================================
