------------------------- MODULE MediaChangerProofs -------------------------
(***************************************************************************)
(* What the changer keeps for any elements and cartridges, as long as no   *)
(* EXCHANGE MEDIUM names its source as the first destination.              *)
(***************************************************************************)
EXTENDS MediaChanger, WellFoundedInduction, TLAPS

(* Most steps need no arithmetic; those that do cite SMT.                  *)
USE Zenon

Holds == Tapes \cup {NoTape}
MoveArm == [pc : {"unload", "assign"}, s : Elements, d : Elements, t : Tapes]
ExchangeArm == [pc : {"exchange", "exchange assign"}, s : Elements, f : Elements,
                d : Elements, t : Tapes, u : Tapes]
NewTape == [pc : {"tape_new"}, e : Slots \cup IEs, t : Tapes]

(* Types, and that what is in the library was added.                       *)
Shape ==
    /\ loading \in BOOLEAN
    /\ data \in [Elements -> Holds]
    /\ impexp \in [IEs -> BOOLEAN]
    /\ known \subseteq Tapes /\ exported \subseteq known
    /\ \A e \in Elements : data[e] # NoTape => data[e] \in known
    /\ loading => arm = Idle /\ adding = Idle

(* A cartridge that is being created is nowhere yet.                       *)
Fresh == adding = Idle \/ (adding \in NewTape /\ adding.t \notin known)

(* What the robot carries is at most in the element that it came from; a   *)
(* drive has its cartridge before it unloads, and none after that.         *)
MoveHolds ==
    /\ arm.s # arm.d
    /\ arm.t \in known \ exported
    /\ \A e \in Elements : data[e] = arm.t => e = arm.s
    /\ arm.pc = "unload" => arm.s \in Drives /\ data[arm.s] = arm.t
    /\ arm.pc = "assign" /\ arm.s \in Drives => data[arm.s] = NoTape

ExchangeHolds ==
    /\ arm.s # arm.f /\ arm.f # arm.d /\ arm.t # arm.u
    /\ arm.t \in known \ exported /\ arm.u \in known \ exported
    /\ \A e \in Elements : data[e] = arm.t => e = arm.s
    /\ \A e \in Elements : data[e] = arm.u => e = arm.f
    /\ arm.s \in Drives =>
          data[arm.s] = IF arm.pc = "exchange" THEN arm.t ELSE NoTape
    /\ arm.f \in Drives =>
          data[arm.f] = IF arm.pc = "exchange" THEN arm.u ELSE NoTape

Carried ==
    \/ arm = Idle
    \/ arm \in MoveArm /\ MoveHolds
    \/ arm \in ExchangeArm /\ ExchangeHolds

(* InOnePlace, element by element.                                         *)
Unique ==
    /\ \A e, g \in Elements : data[e] # NoTape /\ data[e] = data[g] => e = g
    /\ \A e \in Elements : data[e] \notin exported

(* Accounted, with what the robot carries once the drives have unloaded.   *)
InHand ==
    CASE arm.pc = "assign" -> {arm.t}
      [] arm.pc = "exchange assign" -> {arm.t, arm.u}
      [] OTHER -> {}
Kept == \A t \in known : (\E e \in Elements : data[e] = t) \/ t \in exported \cup lost \cup InHand

IInv == Shape /\ Fresh /\ Carried /\ Unique /\ Kept /\ OutgoingWasMoved

-----------------------------------------------------------------------------
(* mchanger_get_free_element gives an element that is free: the first of a *)
(* list is one of it.                                                      *)
LEMMA LeastElement ==
    ASSUME NEW S \in SUBSET Nat, S # {}
    PROVE  Min(S) \in S
<1> DEFINE Less == {ss \in Nat \X Nat : ss[1] < ss[2]}
<1>1. IsWellFoundedOn(Less, Nat)
  BY NatLessThanWellFounded DEF OpToRel
<1>2. PICK x \in S : \A y \in S : ~(<<y, x>> \in Less)
  <2> HIDE DEF Less
  <2> QED BY <1>1, WFMin
<1>3. ASSUME NEW y \in S PROVE x <= y
  <2>1. x \in Nat /\ y \in Nat
    OBVIOUS
  <2>2. <<y, x>> \notin Less
    BY <1>2
  <2>3. y < x => <<y, x>> \in Less
    BY <2>1
  <2> QED
    BY <2>1, <2>2, <2>3, SMT
<1> QED
  BY <1>3 DEF Min

(* An element that is chosen for a cartridge is a slot or a port, and a    *)
(* slot that is chosen is free.                                            *)
LEMMA FreeElement ==
    ASSUME NEW slot, NEW attached, FreeSlots # {}
    PROVE  /\ Min(FreeSlots) \in FreeSlots
           /\ get_free_element(slot, attached) \in Slots \cup IEs
<1>1. FreeSlots \in SUBSET Nat /\ FreeIEs \in SUBSET Nat
  BY ElementsAssumption DEF FreeSlots, FreeIEs
<1>2. Min(FreeSlots) \in FreeSlots
  BY <1>1, LeastElement
<1>3. FreeIEs # {} => Min(FreeIEs) \in FreeIEs
  BY <1>1, LeastElement
<1> QED
  BY <1>2, <1>3 DEF get_free_element, FreeSlots, FreeIEs

(* An empty changer satisfies the invariant.                               *)
LEMMA InitIInv == Init => IInv
BY ElementsAssumption, SMT DEF Init, IInv, Shape, Fresh, Carried, Unique, Kept, OutgoingWasMoved,
   Holds, Elements, Idle

(* A step that changes nothing of the invariant.                           *)
LEMMA Stutter == IInv /\ UNCHANGED vars => IInv'
<1> SUFFICES ASSUME IInv, UNCHANGED vars PROVE IInv'
  OBVIOUS
<1> USE DEF vars, desc, history
<1>1. Shape' /\ Fresh'
  BY DEF IInv, Shape, Fresh
<1>2. Carried'
  BY DEF IInv, Carried, MoveHolds, ExchangeHolds
<1>3. Unique' /\ Kept' /\ OutgoingWasMoved'
  BY DEF IInv, Unique, Kept, InHand, OutgoingWasMoved
<1> QED
  BY <1>1, <1>2, <1>3 DEF IInv

-----------------------------------------------------------------------------
(* What the pc of arm says.                                                *)
LEMMA ArmKinds ==
    /\ arm = Idle => arm.pc = "idle"
    /\ arm \in MoveArm => arm.pc \in {"unload", "assign"}
    /\ arm \in ExchangeArm => arm.pc \in {"exchange", "exchange assign"}
<1>1. arm = Idle => arm.pc = "idle"
  BY SMT DEF Idle
<1>2. arm \in MoveArm => arm.pc \in {"unload", "assign"}
  BY DEF MoveArm
<1>3. arm \in ExchangeArm => arm.pc \in {"exchange", "exchange assign"}
  BY DEF ExchangeArm
<1> QED
  BY <1>1, <1>2, <1>3

(* Between commands the robot carries nothing.                             *)
LEMMA IdleHand == (arm = Idle => InHand = {}) /\ (arm' = Idle => InHand' = {})
<1>1. Idle.pc = "idle"
  BY DEF Idle
<1>2. arm = Idle => InHand = {}
  BY <1>1 DEF InHand
<1>3. arm' = Idle => InHand' = {}
  BY <1>1 DEF InHand
<1> QED
  BY <1>2, <1>3

(* In the steps of MOVE MEDIUM arm is that of a move.                      *)
LEMMA ArmIsMove ==
    ASSUME Carried, arm.pc \in {"unload", "assign"}
    PROVE  arm \in MoveArm /\ MoveHolds /\ arm # Idle
BY ArmKinds DEF Carried

(* In the steps of EXCHANGE MEDIUM arm is that of an exchange.             *)
LEMMA ArmIsExchange ==
    ASSUME Carried, arm.pc \in {"exchange", "exchange assign"}
    PROVE  arm \in ExchangeArm /\ ExchangeHolds /\ arm # Idle
BY ArmKinds DEF Carried

-----------------------------------------------------------------------------
(***************************************************************************)
(* The daemon loads.                                                       *)
(***************************************************************************)
(* A cartridge loaded at the start was nowhere, and its element empty.     *)
LEMMA LoadStep ==
    ASSUME IInv, NEW t \in Tapes, NEW e \in Elements, mchanger_load_vcartridge(t, e)
    PROVE  IInv'
<1> USE ElementsAssumption DEF mchanger_load_vcartridge, Put
<1>0. loading /\ arm = Idle /\ adding = Idle /\ arm' = Idle /\ adding' = Idle
  BY DEF IInv, Shape
<1>1. \A g \in Elements : data'[g] = IF g = e THEN t ELSE data[g]
  BY DEF IInv, Shape
<1>2. Shape'
  BY <1>0, <1>1 DEF IInv, Shape, Holds
<1>3. Fresh' /\ Carried'
  BY <1>0 DEF Fresh, Carried
<1>4. Unique'
  BY <1>1, SMT DEF IInv, Unique, Shape
<1>5. Kept'
  BY <1>0, <1>1, IdleHand DEF IInv, Kept, Shape
<1>6. OutgoingWasMoved'
  BY <1>1, SMT DEF IInv, OutgoingWasMoved, Shape, Elements
<1> QED
  BY <1>2, <1>3, <1>4, <1>5, <1>6 DEF IInv

(* An exported cartridge of the start was nowhere.                         *)
LEMMA LoadExportedStep ==
    ASSUME IInv, NEW t \in Tapes, load_exported(t)
    PROVE  IInv'
<1> USE ElementsAssumption DEF load_exported, desc
<1>0. loading /\ arm = Idle /\ adding = Idle /\ arm' = Idle /\ adding' = Idle
  BY DEF IInv, Shape
<1>2. Shape'
  BY <1>0 DEF IInv, Shape
<1>3. Fresh' /\ Carried'
  BY <1>0 DEF Fresh, Carried
<1>4. Unique'
  BY DEF IInv, Unique, Shape
<1>5. Kept'
  BY <1>0, IdleHand DEF IInv, Kept
<1>6. OutgoingWasMoved'
  BY DEF IInv, OutgoingWasMoved
<1> QED
  BY <1>2, <1>3, <1>4, <1>5, <1>6 DEF IInv

(* The end of loading moves nothing.                                       *)
LEMMA LoadDoneStep == IInv /\ coremod_load_done => IInv'
BY DEF coremod_load_done, desc, history, IInv, Shape, Fresh, Carried, MoveHolds, ExchangeHolds,
   Unique, Kept, InHand, OutgoingWasMoved

-----------------------------------------------------------------------------
(***************************************************************************)
(* MOVE MEDIUM.                                                            *)
(***************************************************************************)
(* When MOVE MEDIUM begins the cartridge is in the source alone.           *)
LEMMA MoveStep ==
    ASSUME IInv, NEW s \in Elements, NEW d \in Elements, mchanger_cmd_move_medium(s, d)
    PROVE  IInv'
<1> USE ElementsAssumption DEF mchanger_cmd_move_medium, MchangerLock, desc, history
<1>1. data[s] \in Tapes /\ data[s] \in known /\ data[s] \notin exported
  BY DEF IInv, Shape, Unique, Holds
<1>2. arm' \in MoveArm
  BY <1>1 DEF MoveArm
<1>3. MoveHolds'
  BY <1>1 DEF IInv, Unique, MoveHolds
<1>4. Shape' /\ Fresh'
  BY DEF IInv, Shape, Fresh
<1>5. Unique' /\ OutgoingWasMoved'
  BY DEF IInv, Unique, OutgoingWasMoved
<1>6. Kept'
  BY IdleHand DEF IInv, Kept
<1> QED
  BY <1>2, <1>3, <1>4, <1>5, <1>6 DEF IInv, Carried

(* A drive that unloads gives its cartridge to the robot, or keeps it.     *)
LEMMA MoveUnloadStep == IInv /\ move_unload => IInv'
<1> SUFFICES ASSUME IInv, move_unload PROVE IInv'
  OBVIOUS
<1> USE ElementsAssumption DEF move_unload, desc, history
<1>0. arm \in MoveArm /\ MoveHolds /\ arm # Idle /\ ~loading
  BY ArmIsMove DEF IInv, Shape
<1>a. arm.s \in Elements /\ arm.d \in Elements /\ arm.t \in Tapes
  BY <1>0 DEF MoveArm
<1>1. CASE arm' = Idle /\ data' = data
  <2>1. Kept'
    BY <1>1, IdleHand DEF IInv, Kept, InHand
  <2> QED
    BY <1>0, <1>1, <2>1 DEF IInv, Shape, Fresh, Carried, Unique, OutgoingWasMoved
<1>2. CASE /\ data' = [data EXCEPT ![arm.s] = NoTape]
           /\ arm' = [arm EXCEPT !.pc = "assign"]
  <2>1. \A g \in Elements : data'[g] = IF g = arm.s THEN NoTape ELSE data[g]
    BY <1>2 DEF IInv, Shape
  <2>2. /\ arm' \in MoveArm /\ arm'.pc = "assign"
        /\ arm'.s = arm.s /\ arm'.d = arm.d /\ arm'.t = arm.t
    BY <1>0, <1>2 DEF MoveArm
  <2>3. MoveHolds'
    BY <1>0, <1>a, <2>1, <2>2 DEF MoveHolds
  <2>4. Shape' /\ Fresh'
    BY <1>0, <1>2, <2>1 DEF IInv, Shape, Fresh, Holds
  <2>5. Unique' /\ OutgoingWasMoved'
    BY <2>1, SMT DEF IInv, Unique, OutgoingWasMoved, Elements, Shape
  <2>6. Kept'
    BY <1>0, <2>1, <2>2 DEF IInv, Kept, InHand, MoveHolds
  <2> QED
    BY <2>2, <2>3, <2>4, <2>5, <2>6 DEF IInv, Carried
<1> QED
  BY <1>1, <1>2

(* The cartridge goes to the destination and is nowhere else, because the  *)
(* source is cleared or was a drive that has unloaded; what was            *)
(* overwritten is lost.                                                    *)
LEMMA MoveEndStep == IInv /\ move_end => IInv'
<1> SUFFICES ASSUME IInv, move_end PROVE IInv'
  OBVIOUS
<1>0. arm \in MoveArm /\ MoveHolds /\ arm # Idle /\ arm.pc = "assign" /\ ~loading
  BY ArmIsMove DEF IInv, Shape, move_end
<1> PICK s \in Elements, d \in Elements, t \in Tapes : s = arm.s /\ d = arm.d /\ t = arm.t
  BY <1>0 DEF MoveArm
<1> USE ElementsAssumption
<1>1. \A g \in Elements : data'[g] = IF g = d THEN t ELSE IF g = s THEN NoTape ELSE data[g]
  BY <1>0 DEF IInv, Shape, move_end, MoveHolds
<1>2. /\ arm' = Idle /\ loading' = loading /\ exported' = exported /\ adding' = adding
      /\ known' = known
      /\ data' \in [Elements -> Holds]
      /\ impexp' = [e \in IEs |-> impexp[e] /\ e # s]
      /\ moved' = moved \cup {t}
      /\ lost' = (lost \cup {data[d], data[s]}) \ {t, NoTape}
  BY DEF move_end, IInv, Shape, Holds
<1>3. s # d /\ t \in known \ exported /\ \A e \in Elements : data[e] = t => e = s
  BY <1>0 DEF MoveHolds
<1>4. Shape'
  BY <1>0, <1>1, <1>2, <1>3 DEF IInv, Shape
<1>5. Fresh' /\ Carried'
  BY <1>2 DEF IInv, Fresh, Carried
<1>6. Unique'
  BY <1>1, <1>2, <1>3, SMT DEF IInv, Unique, Shape
<1>7. Kept'
  <2>1. InHand = {t}
    BY <1>0 DEF InHand
  <2> SUFFICES ASSUME NEW x \in known
               PROVE  (\E e \in Elements : data'[e] = x) \/ x \in exported \cup lost'
    BY <1>2 DEF Kept
  <2>2. x \in Tapes /\ ((\E e \in Elements : data[e] = x) \/ x \in exported \cup lost \cup {t})
    BY <2>1 DEF IInv, Shape, Kept
  <2>3. CASE x \in {t}
    BY <2>3, <1>1, <1>3
  <2>4. CASE x \notin {t}
    BY <2>2, <2>4, <1>1, <1>2
  <2> QED
    BY <2>3, <2>4
<1>8. OutgoingWasMoved'
  BY <1>1, <1>2 DEF IInv, OutgoingWasMoved, Elements
<1> QED
  BY <1>4, <1>5, <1>6, <1>7, <1>8 DEF IInv

-----------------------------------------------------------------------------
(***************************************************************************)
(* EXCHANGE MEDIUM.                                                        *)
(***************************************************************************)
(* When EXCHANGE MEDIUM begins, two cartridges are in two elements.        *)
LEMMA ExchangeStep ==
    ASSUME IInv, ~SelfExchange, NEW s \in Elements, NEW f \in Elements, NEW d \in Elements,
           mchanger_cmd_exchange_medium(s, f, d)
    PROVE  IInv'
<1> USE ElementsAssumption DEF mchanger_cmd_exchange_medium, MchangerLock, desc, history
<1>1. /\ {data[s], data[f]} \subseteq known \ exported /\ data[s] \in Tapes /\ data[f] \in Tapes
      /\ s # f /\ f # d /\ data[s] # data[f]
  BY DEF IInv, Shape, Unique, Holds
<1>2. /\ arm' \in ExchangeArm /\ arm'.pc = "exchange" /\ arm'.s = s /\ arm'.f = f /\ arm'.d = d
      /\ arm'.t = data[s] /\ arm'.u = data[f]
  BY <1>1 DEF ExchangeArm
<1>3. ExchangeHolds'
  BY <1>1, <1>2 DEF IInv, Unique, ExchangeHolds
<1>4. Shape' /\ Fresh'
  BY DEF IInv, Shape, Fresh
<1>5. Unique' /\ OutgoingWasMoved'
  BY DEF IInv, Unique, OutgoingWasMoved
<1>6. Kept'
  BY IdleHand DEF IInv, Kept
<1> QED
  BY <1>2, <1>3, <1>4, <1>5, <1>6 DEF IInv, Carried

(* Of the two unloads both succeed, or the first fails, or the second.     *)
LEMMA ExchangeUnloadStep == IInv /\ exchange_unload => IInv'
<1> SUFFICES ASSUME IInv, exchange_unload PROVE IInv'
  OBVIOUS
<1> USE ElementsAssumption
<1>0. arm \in ExchangeArm /\ ExchangeHolds /\ arm # Idle /\ arm.pc = "exchange" /\ ~loading
  BY ArmIsExchange DEF IInv, Shape, exchange_unload
<1> PICK s \in Elements, f \in Elements, d \in Elements, t \in Tapes, u \in Tapes :
         s = arm.s /\ f = arm.f /\ d = arm.d /\ t = arm.t /\ u = arm.u
  BY <1>0 DEF ExchangeArm
<1> DEFINE Empty(S) == [e \in Elements |-> IF e \in S \cap Drives THEN NoTape ELSE data[e]]
<1>1. /\ UNCHANGED <<loading, impexp, exported, adding, known, moved>>
      /\ \/ /\ data' = Empty({s, f}) /\ arm' = [arm EXCEPT !.pc = "exchange assign"]
            /\ lost' = lost
         \/ data' = data /\ arm' = Idle /\ lost' = lost
         \/ /\ data' = Empty({s}) /\ arm' = Idle
            /\ lost' = IF s \in Drives THEN lost \cup {t} ELSE lost
  BY DEF exchange_unload, desc
<1>2. \E S \in {{}, {s}, {s, f}} : \A g \in Elements :
         data'[g] = IF g \in S \cap Drives THEN NoTape ELSE data[g]
  BY <1>1
<1>3. Shape' /\ Fresh'
  <2>1. data' \in [Elements -> Holds]
    BY <1>1 DEF IInv, Shape, Holds
  <2> QED
    BY <1>0, <1>1, <1>2, <2>1 DEF IInv, Shape, Fresh
<1>4. Unique' /\ OutgoingWasMoved'
  <2>1. \A g \in Elements : data'[g] = NoTape \/ data'[g] = data[g]
    BY <1>2
  <2>2. NoTape \notin exported
    BY DEF IInv, Shape
  <2>3. Unique'
    BY <1>1, <2>1, <2>2 DEF IInv, Unique
  <2>4. OutgoingWasMoved'
    BY <1>1, <2>1 DEF IInv, OutgoingWasMoved, Elements
  <2> QED
    BY <2>3, <2>4
<1>5. Carried' /\ Kept'
  <2>1. CASE arm' = Idle /\ data' = data /\ lost' = lost
    BY <2>1, <1>0, <1>1, IdleHand DEF Carried, IInv, Kept, InHand
  <2>2. CASE /\ arm' = Idle /\ data' = Empty({s})
             /\ lost' = IF s \in Drives THEN lost \cup {t} ELSE lost
    <3>1. \A g \in Elements : data'[g] = IF g = s /\ s \in Drives THEN NoTape ELSE data[g]
      BY <2>2
    <3> QED
      BY <2>2, <3>1, <1>0, <1>1, IdleHand DEF Carried, IInv, Kept, InHand, ExchangeHolds
  <2>3. CASE data' = Empty({s, f}) /\ arm' = [arm EXCEPT !.pc = "exchange assign"] /\ lost' = lost
    <3>1. \A g \in Elements : data'[g] = IF g \in {s, f} \cap Drives THEN NoTape ELSE data[g]
      BY <2>3
    <3>2. /\ arm' \in ExchangeArm /\ arm'.pc = "exchange assign" /\ arm'.s = s /\ arm'.f = f
          /\ arm'.d = d /\ arm'.t = t /\ arm'.u = u
      BY <2>3, <1>0 DEF ExchangeArm
    <3>3. ExchangeHolds'
      <4>1. s # f /\ f # d /\ t # u /\ {t, u} \subseteq known' \ exported'
        BY <1>0, <1>1 DEF ExchangeHolds
      <4>2. \A e \in Elements : (data'[e] = t => e = s) /\ (data'[e] = u => e = f)
        BY <3>1, <1>0 DEF ExchangeHolds
      <4> QED
        BY <3>1, <3>2, <4>1, <4>2 DEF ExchangeHolds
    <3>4. Kept'
      <4>1. InHand = {} /\ InHand' = {t, u}
        BY <3>2, <1>0 DEF InHand
      <4>2. \A g \in Elements : data'[g] = data[g] \/ data[g] \in {t, u}
        BY <3>1, <1>0 DEF ExchangeHolds
      <4> QED
        BY <2>3, <4>1, <4>2, <1>1 DEF IInv, Kept
    <3> QED
      BY <3>2, <3>3, <3>4 DEF Carried
  <2> QED
    BY <1>1, <2>1, <2>2, <2>3
<1> QED
  BY <1>3, <1>4, <1>5 DEF IInv

(* Both cartridges end in one element each, the second destination being   *)
(* written last.                                                           *)
LEMMA ExchangeEndStep == IInv /\ exchange_end => IInv'
<1> SUFFICES ASSUME IInv, exchange_end PROVE IInv'
  OBVIOUS
<1> USE ElementsAssumption
<1>0. arm \in ExchangeArm /\ ExchangeHolds /\ arm # Idle /\ arm.pc = "exchange assign" /\ ~loading
  BY ArmIsExchange DEF IInv, Shape, exchange_end
<1> PICK s \in Elements, f \in Elements, d \in Elements, t \in Tapes, u \in Tapes :
         s = arm.s /\ f = arm.f /\ d = arm.d /\ t = arm.t /\ u = arm.u
  BY <1>0 DEF ExchangeArm
<1>3. /\ s # f /\ f # d /\ t # u /\ {t, u} \subseteq known \ exported
      /\ \A e \in Elements : data[e] = t => e = s
      /\ \A e \in Elements : data[e] = u => e = f
  BY <1>0 DEF ExchangeHolds
<1>1. \A g \in Elements :
         data'[g] = IF g = d THEN u ELSE IF g = f THEN t ELSE IF g = s THEN NoTape ELSE data[g]
  BY <1>0, <1>3 DEF IInv, Shape, exchange_end, Exchanged, ExchangeHolds
<1>2. /\ arm' = Idle /\ loading' = loading /\ exported' = exported /\ adding' = adding
      /\ known' = known
      /\ data' \in [Elements -> Holds]
      /\ impexp' = [e \in IEs |-> impexp[e] /\ ~(e = s /\ s # d)]
      /\ moved' = moved \cup {t, u}
      /\ lost' = (lost \cup {data[s], data[f], data[d]}) \ {t, u, NoTape}
  BY DEF exchange_end, Exchanged, IInv, Shape, Holds
<1>4. Shape'
  BY <1>0, <1>1, <1>2, <1>3 DEF IInv, Shape
<1>5. Fresh' /\ Carried'
  BY <1>2 DEF IInv, Fresh, Carried
<1>6. Unique'
  BY <1>1, <1>2, <1>3, SMT DEF IInv, Unique, Shape
<1>7. Kept'
  <2>1. InHand = {t, u}
    BY <1>0 DEF InHand
  <2> SUFFICES ASSUME NEW x \in known
               PROVE  (\E e \in Elements : data'[e] = x) \/ x \in exported \cup lost'
    BY <1>2 DEF Kept
  <2>2. x \in Tapes /\ ((\E e \in Elements : data[e] = x) \/ x \in exported \cup lost \cup {t, u})
    BY <2>1 DEF IInv, Shape, Kept
  <2>3. CASE x \in {t, u}
    BY <2>3, <1>1, <1>3
  <2>4. CASE x \notin {t, u}
    BY <2>2, <2>4, <1>1, <1>2
  <2> QED
    BY <2>3, <2>4
<1>8. OutgoingWasMoved'
  BY <1>1, <1>2 DEF IInv, OutgoingWasMoved, Elements
<1> QED
  BY <1>4, <1>5, <1>6, <1>7, <1>8 DEF IInv

-----------------------------------------------------------------------------
(***************************************************************************)
(* The ioctls.                                                             *)
(***************************************************************************)
(* The cartridge that is being added is not known yet.                     *)
LEMMA NewStep ==
    ASSUME IInv, NEW t \in Tapes, NEW slot \in BOOLEAN, NEW attached \in BOOLEAN,
           mchanger_new_vcartridge(t, slot, attached)
    PROVE  IInv'
<1> USE DEF mchanger_new_vcartridge, desc, history
<1>1. adding' \in NewTape /\ adding'.t \notin known
  BY FreeElement DEF NewTape
<1>2. Shape' /\ Fresh'
  BY <1>1 DEF IInv, Shape, Fresh
<1>3. Carried'
  BY DEF IInv, Carried, MoveHolds, ExchangeHolds
<1>4. Unique' /\ Kept' /\ OutgoingWasMoved'
  BY DEF IInv, Unique, Kept, InHand, OutgoingWasMoved
<1> QED
  BY <1>2, <1>3, <1>4 DEF IInv

(* A creation that fails leaves everything as it was.                      *)
LEMMA NewFailsStep == IInv /\ tape_new_fails => IInv'
<1> SUFFICES ASSUME IInv, tape_new_fails PROVE IInv'
  OBVIOUS
<1> USE DEF tape_new_fails, desc, history
<1>1. Shape' /\ Fresh'
  BY DEF IInv, Shape, Fresh
<1>2. Carried'
  BY DEF IInv, Carried, MoveHolds, ExchangeHolds
<1>3. Unique' /\ Kept' /\ OutgoingWasMoved'
  BY DEF IInv, Unique, Kept, InHand, OutgoingWasMoved
<1> QED
  BY <1>1, <1>2, <1>3 DEF IInv

(* The one step that runs beside the robot: what the robot carries was     *)
(* known before, and drives are not touched.                               *)
LEMMA NewEndStep == IInv /\ new_vcartridge_end => IInv'
<1> SUFFICES ASSUME IInv, new_vcartridge_end PROVE IInv'
  OBVIOUS
<1> USE ElementsAssumption
<1>0. adding \in NewTape /\ adding.t \notin known /\ adding # Idle /\ ~loading
  BY DEF new_vcartridge_end, IInv, Fresh, Shape
<1> PICK e \in Slots \cup IEs, n \in Tapes : e = adding.e /\ n = adding.t
  BY <1>0 DEF NewTape
<1>1. /\ e \in Elements /\ e \notin Drives /\ n \notin known /\ n # NoTape
      /\ \A g \in Elements : data'[g] = IF g = e THEN n ELSE data[g]
  BY <1>0 DEF new_vcartridge_end, Put, IInv, Shape, Elements
<1>2. /\ data' \in [Elements -> Holds]
      /\ impexp' = [i \in IEs |-> impexp[i] \/ i = e]
      /\ moved' = moved \ {n} /\ known' = known \cup {n}
      /\ lost' = (lost \cup {data[e]}) \ {NoTape}
      /\ adding' = Idle
      /\ UNCHANGED <<loading, exported, arm>>
  BY <1>1 DEF new_vcartridge_end, Put, IInv, Shape, Holds
<1>3. Shape' /\ Fresh'
  BY <1>0, <1>1, <1>2 DEF IInv, Shape, Fresh
<1>4. Unique'
  BY <1>1, <1>2 DEF IInv, Unique, Shape
<1>5. OutgoingWasMoved'
  <2> SUFFICES ASSUME NEW i \in IEs, data'[i] # NoTape, ~impexp'[i]
               PROVE  data'[i] \in moved'
    BY DEF OutgoingWasMoved
  <2>1. i # e /\ ~impexp[i] /\ i \in Elements
    BY <1>2 DEF Elements
  <2>2. data'[i] = data[i] /\ data[i] \in known
    BY <2>1, <1>1 DEF IInv, Shape
  <2> QED
    BY <2>1, <2>2, <1>1, <1>2 DEF IInv, OutgoingWasMoved
<1>6. Kept'
  <2>1. InHand' = InHand
    BY <1>2 DEF InHand
  <2> SUFFICES ASSUME NEW x \in known
               PROVE  (\E g \in Elements : data'[g] = x) \/ x \in exported \cup lost' \cup InHand
    BY <1>1, <1>2, <2>1 DEF Kept
  <2> QED
    BY <1>1, <1>2 DEF IInv, Kept, Shape
<1>7. Carried'
  <2>1. CASE arm = Idle
    BY <2>1, <1>2 DEF Carried
  <2>2. CASE arm \in MoveArm /\ MoveHolds
    <3>1. MoveHolds'
      BY <2>2, <1>1, <1>2 DEF MoveHolds, MoveArm, IInv, Shape
    <3> QED
      BY <3>1, <2>2, <1>2 DEF Carried
  <2>3. CASE arm \in ExchangeArm /\ ExchangeHolds
    <3>1. ExchangeHolds'
      BY <2>3, <1>1, <1>2 DEF ExchangeHolds, ExchangeArm, IInv, Shape
    <3> QED
      BY <3>1, <2>3, <1>2 DEF Carried
  <2> QED
    BY <2>1, <2>2, <2>3 DEF IInv, Carried
<1> QED
  BY <1>3, <1>4, <1>5, <1>6, <1>7 DEF IInv

(* What leaves a port goes to the export list.                             *)
LEMMA ExportStep == IInv /\ mchanger_check_for_exported_volumes => IInv'
<1> SUFFICES ASSUME IInv, mchanger_check_for_exported_volumes PROVE IInv'
  OBVIOUS
<1> USE ElementsAssumption
    DEF mchanger_check_for_exported_volumes, MchangerLock, IoctlLock, history
<1>0. /\ arm = Idle /\ adding = Idle /\ ~loading
      /\ UNCHANGED <<arm, adding, loading, known, moved, lost, impexp>>
  OBVIOUS
<1> PICK out \in SUBSET {e \in IEs : data[e] # NoTape /\ ~impexp[e]} :
         /\ data' = [e \in Elements |-> IF e \in out THEN NoTape ELSE data[e]]
         /\ exported' = exported \cup {data[e] : e \in out}
  OBVIOUS
<1>1. /\ out \subseteq Elements
      /\ \A g \in Elements : data'[g] = IF g \in out THEN NoTape ELSE data[g]
      /\ data' \in [Elements -> Holds]
  BY DEF Elements, IInv, Shape, Holds
<1>2. Shape'
  BY <1>0, <1>1, SMT DEF IInv, Shape
<1>3. Fresh' /\ Carried'
  BY <1>0 DEF Fresh, Carried
<1>4. Unique'
  BY <1>0, <1>1, SMT DEF IInv, Unique, Shape
<1>5. Kept'
  BY <1>0, <1>1, IdleHand, SMT DEF IInv, Kept
<1>6. OutgoingWasMoved'
  BY <1>0, <1>1 DEF IInv, OutgoingWasMoved, Elements
<1> QED
  BY <1>2, <1>3, <1>4, <1>5, <1>6 DEF IInv

(* What leaves the export list goes to a free slot.                        *)
LEMMA ReloadStep ==
    ASSUME IInv, NEW t \in Tapes, mchanger_reload_export_vcartridge(t)
    PROVE  IInv'
<1> USE ElementsAssumption DEF mchanger_reload_export_vcartridge, MchangerLock, IoctlLock, Put
<1>0. /\ arm = Idle /\ adding = Idle /\ ~loading /\ t \in exported
      /\ UNCHANGED <<arm, adding, loading, known, lost, impexp>>
  OBVIOUS
<1> PICK s \in Slots : s = Min(FreeSlots) /\ data[s] = NoTape
  BY FreeElement DEF FreeSlots
<1>1. /\ s \in Elements /\ s \notin IEs
      /\ \A g \in Elements : data'[g] = IF g = s THEN t ELSE data[g]
      /\ data' \in [Elements -> Holds]
      /\ exported' = exported \ {t} /\ moved' = moved \ {t}
  BY DEF Elements, IInv, Shape, Holds
<1>2. Shape'
  BY <1>0, <1>1 DEF IInv, Shape
<1>3. Fresh' /\ Carried'
  BY <1>0 DEF Fresh, Carried
<1>4. Unique'
  BY <1>0, <1>1, SMT DEF IInv, Unique, Shape
<1>5. Kept'
  BY <1>0, <1>1, IdleHand DEF IInv, Kept, Shape
<1>6. OutgoingWasMoved'
  BY <1>0, <1>1, SMT DEF IInv, OutgoingWasMoved, Unique, Elements
<1> QED
  BY <1>2, <1>3, <1>4, <1>5, <1>6 DEF IInv

(* A deleted cartridge is gone from its one place.                         *)
LEMMA DeleteStep ==
    ASSUME IInv, NEW t \in Tapes, mchanger_delete_vcartridge(t)
    PROVE  IInv'
<1> USE ElementsAssumption DEF mchanger_delete_vcartridge, MchangerLock, IoctlLock
<1>0. /\ arm = Idle /\ adding = Idle /\ ~loading
      /\ UNCHANGED <<arm, adding, loading, lost>>
      /\ known' = known \ {t} /\ moved' = moved \ {t}
  OBVIOUS
<1>1. /\ \A g \in Elements : data'[g] = IF data[g] = t THEN NoTape ELSE data[g]
      /\ data' \in [Elements -> Holds]
      /\ exported' = exported \ {t}
      /\ impexp' \in [IEs -> BOOLEAN]
      /\ \A i \in IEs : impexp'[i] = (impexp[i] /\ data[i] # t)
  <2>1. ASSUME NEW e \in Elements, data[e] = t, data' = [data EXCEPT ![e] = NoTape],
               impexp' = [i \in IEs |-> impexp[i] /\ i # e], exported' = exported
        PROVE  <1>1!:
    BY <2>1, SMT DEF IInv, Shape, Unique, Holds, Elements
  <2>2. ASSUME t \in exported, exported' = exported \ {t}, data' = data, impexp' = impexp
        PROVE  <1>1!:
    BY <2>2, SMT DEF IInv, Shape, Unique, Elements
  <2> QED
    BY <2>1, <2>2
<1>2. Shape'
  BY <1>0, <1>1 DEF IInv, Shape
<1>3. Fresh' /\ Carried'
  BY <1>0 DEF Fresh, Carried
<1>4. Unique'
  BY <1>0, <1>1, SMT DEF IInv, Unique, Shape
<1>5. Kept'
  BY <1>0, <1>1, IdleHand DEF IInv, Kept, Shape
<1>6. OutgoingWasMoved'
  BY <1>0, <1>1 DEF IInv, OutgoingWasMoved, Elements
<1> QED
  BY <1>2, <1>3, <1>4, <1>5, <1>6 DEF IInv

-----------------------------------------------------------------------------
(* The invariant is inductive.                                             *)
LEMMA NextIInv ==
    ASSUME IInv, ~SelfExchange, [Next]_vars
    PROVE  IInv'
<1>1. ASSUME Robot PROVE IInv'
  BY <1>1, MoveStep, MoveUnloadStep, MoveEndStep, ExchangeStep, ExchangeUnloadStep,
     ExchangeEndStep DEF Robot
<1>2. ASSUME Management PROVE IInv'
  BY <1>2, LoadStep, LoadExportedStep, LoadDoneStep, NewStep, NewFailsStep, NewEndStep,
     ExportStep, ReloadStep, DeleteStep DEF Management
<1> QED
  BY <1>1, <1>2, Stutter DEF Next

(* Hence it always holds.                                                  *)
LEMMA Inductive ==
    ASSUME ~SelfExchange
    PROVE  Spec => []IInv
BY InitIInv, NextIInv, PTL DEF Spec

(* However the robot and the addition of cartridges interleave, and        *)
(* whichever unload fails, no cartridge is in two elements or in one and   *)
(* on the export list.                                                     *)
THEOREM InOnePlaceAlways ==
    ASSUME ~SelfExchange
    PROVE  Spec => []InOnePlace
<1>1. IInv => InOnePlace
  BY ElementsAssumption DEF IInv, Unique, InOnePlace, Places
<1> QED
  BY <1>1, Inductive, PTL

(* Between commands every cartridge is somewhere, or is one that an        *)
(* addition overwrote or a failing EXCHANGE MEDIUM dropped.                *)
THEOREM AccountedAlways ==
    ASSUME ~SelfExchange
    PROVE  Spec => []Accounted
<1>1. IInv => Accounted
  BY IdleHand DEF IInv, Kept, Accounted, Places
<1> QED
  BY <1>1, Inductive, PTL

(* Only what the robot has moved can be taken for an export.               *)
THEOREM OutgoingWasMovedAlways ==
    ASSUME ~SelfExchange
    PROVE  Spec => []OutgoingWasMoved
<1>1. IInv => OutgoingWasMoved
  BY DEF IInv
<1> QED
  BY <1>1, Inductive, PTL

-----------------------------------------------------------------------------
(***************************************************************************)
(* What READ ELEMENT STATUS reports, for any elements and cartridges.  In  *)
(* the middle of a command the descriptor of a drive that has unloaded     *)
(* still tells of its cartridge.                                           *)
(***************************************************************************)
Types ==
    /\ full \in [Elements -> BOOLEAN]
    /\ source \in [Elements -> Slots \cup {0}]
    /\ pvoltag \in [Elements -> Holds]
    /\ moved \subseteq Tapes /\ lost \subseteq Tapes
    /\ last \in [Tapes -> Slots \cup {0}]

Moving == arm.pc \in {"unload", "assign"}
Exchanging == arm.pc \in {"exchange", "exchange assign"}
Carries ==
    CASE Moving -> {arm.t}
      [] Exchanging -> {arm.t, arm.u}
      [] OTHER -> {}
Unloaded ==
    CASE arm.pc = "assign" -> {arm.s} \cap Drives
      [] arm.pc = "exchange assign" -> {arm.s, arm.f} \cap Drives
      [] OTHER -> {}

(* A descriptor is true, or it still lists a lost cartridge: one that no   *)
(* element holds and the robot does not carry, so that it never comes back.*)
Tells(e) == full[e] = (data[e] # NoTape) /\ pvoltag[e] = data[e]
Stale(e) ==
    /\ full[e]
    /\ pvoltag[e] \in (lost \cap known) \ (exported \cup Carries)
    /\ \A g \in Elements : data[g] # pvoltag[e]
Labels == \A e \in Elements \ Unloaded : Tells(e) \/ Stale(e)

(* SourceIsLastSlot, also in the middle of a command, and what the end of  *)
(* the command will read for the cartridges that are carried.              *)
Origin(e, t) == e \in Slots \/ last[t] = 0 \/ source[e] = last[t]
Sources ==
    /\ \A e \in Elements :
          data[e] # NoTape => last[data[e]] = 0 \/ source[e] = last[data[e]]
    /\ Moving \/ Exchanging => Origin(arm.s, arm.t)
    /\ Exchanging => Origin(arm.f, arm.u)

Described == Types /\ Labels /\ Sources

(* An empty changer has empty descriptors.                                 *)
LEMMA DescribedInit == Init => Described
<1> SUFFICES ASSUME Init PROVE Described
  OBVIOUS
<1> USE DEF Init
<1>1. Types
  BY DEF Types, Holds
<1>2. Labels
  BY DEF Labels, Tells
<1>3. arm.pc = "idle"
  BY DEF Idle
<1>4. Sources
  BY <1>3 DEF Sources, Moving, Exchanging
<1> QED
  BY <1>1, <1>2, <1>4 DEF Described

(* Between commands nothing is carried and no drive is half unloaded.      *)
LEMMA IdleArm ==
    /\ arm = Idle => Carries = {} /\ Unloaded = {} /\ ~Moving /\ ~Exchanging
    /\ arm' = Idle => Carries' = {} /\ Unloaded' = {} /\ ~Moving' /\ ~Exchanging'
<1>1. Idle.pc = "idle"
  BY DEF Idle
<1>2. arm = Idle => ~Moving /\ ~Exchanging /\ arm.pc # "assign" /\ arm.pc # "exchange assign"
  BY <1>1 DEF Moving, Exchanging
<1>3. arm' = Idle =>
         ~Moving' /\ ~Exchanging' /\ arm'.pc # "assign" /\ arm'.pc # "exchange assign"
  BY <1>1 DEF Moving, Exchanging
<1> QED
  BY <1>2, <1>3 DEF Carries, Unloaded

(* A step that leaves elements, descriptors, robot and history alone.      *)
LEMMA DescribedUnchanged ==
    ASSUME Described, UNCHANGED <<data, desc, exported, arm, history>>
    PROVE  Described'
<1> USE DEF desc, history
<1>1. Types'
  BY DEF Described, Types
<1>2. Labels'
  BY DEF Described, Labels, Tells, Stale, Carries, Unloaded, Moving, Exchanging
<1>3. Sources'
  BY DEF Described, Sources, Origin, Moving, Exchanging
<1> QED
  BY <1>1, <1>2, <1>3 DEF Described

(* A cartridge that management puts into a slot, a port or, at the start,  *)
(* a drive: it is not one that a stale descriptor lists, because those are *)
(* known and not exported, and the robot does not carry it.                *)
LEMMA DescribedPut ==
    ASSUME IInv, Described, NEW e \in Elements \ Unloaded, NEW t \in Tapes, Put(e, t),
           UNCHANGED arm, t \notin known \/ t \in exported, t \notin Carries,
           known' = known \cup {t}, exported' \subseteq exported,
           lost \subseteq lost', lost' \subseteq Tapes
    PROVE  Described'
<1> USE ElementsAssumption DEF Put
<1>1. Types'
  BY DEF Described, Types, IInv, Shape, Holds
<1>2. \A g \in Elements :
         /\ data'[g] = IF g = e THEN t ELSE data[g]
         /\ full'[g] = IF g = e THEN TRUE ELSE full[g]
         /\ pvoltag'[g] = IF g = e THEN t ELSE pvoltag[g]
  BY DEF Described, Types, IInv, Shape
<1>3. Carries' = Carries /\ Unloaded' = Unloaded /\ Moving' = Moving /\ Exchanging' = Exchanging
  BY DEF Carries, Unloaded, Moving, Exchanging
<1>4. Labels'
  <2> SUFFICES ASSUME NEW g \in Elements \ Unloaded PROVE Tells(g)' \/ Stale(g)'
    BY <1>3 DEF Labels
  <2>1. CASE g = e
    <3>1. data'[g] = t /\ full'[g] = TRUE /\ pvoltag'[g] = t /\ t # NoTape
      BY <2>1, <1>2
    <3> QED
      BY <3>1 DEF Tells
  <2>2. CASE g # e /\ Tells(g)
    BY <2>2, <1>2 DEF Tells
  <2>3. CASE g # e /\ Stale(g)
    <3>1. pvoltag[g] # t
      BY <2>3 DEF Stale
    <3> QED
      BY <2>3, <3>1, <1>2, <1>3, SMT DEF Stale
  <2> QED
    BY <2>1, <2>2, <2>3 DEF Described, Labels
<1>5. Sources'
  <2>1. \A u \in Tapes : last'[u] = IF u = t THEN 0 ELSE last[u]
    BY DEF Described, Types
  <2>2. \A g \in Elements :
          data'[g] # NoTape => last'[data'[g]] = 0 \/ source'[g] = last'[data'[g]]
    BY <1>2, <2>1, SMT DEF Described, Sources, IInv, Shape, Holds
  <2>3. Moving => arm.t \in Tapes
    BY ArmIsMove DEF Moving, IInv, MoveArm
  <2>4. Exchanging => arm.t \in Tapes /\ arm.u \in Tapes
    BY ArmIsExchange DEF Exchanging, IInv, ExchangeArm
  <2>5. \A s, u : u \in Tapes /\ Origin(s, u) => Origin(s, u)'
    BY <2>1 DEF Origin
  <2> QED
    BY <1>3, <2>2, <2>3, <2>4, <2>5 DEF Described, Sources
<1> QED
  BY <1>1, <1>4, <1>5 DEF Described

(***************************************************************************)
(* The steps of the robot.                                                 *)
(***************************************************************************)
(* A command reads the cartridges of its elements: no stale descriptor     *)
(* lists one of them.                                                      *)
LEMMA DescribedBegin ==
    ASSUME IInv, Described, ~SelfExchange,
           NEW s \in Elements, NEW f \in Elements, NEW d \in Elements,
           mchanger_cmd_move_medium(s, d) \/ mchanger_cmd_exchange_medium(s, f, d)
    PROVE  Described'
<1> USE ElementsAssumption DEF desc, history
<1>0. /\ arm = Idle /\ Unloaded = {} /\ data[s] # NoTape
      /\ UNCHANGED <<data, desc, exported, history>>
  BY IdleArm DEF mchanger_cmd_move_medium, mchanger_cmd_exchange_medium, MchangerLock
<1>1. Types'
  BY <1>0 DEF Described, Types
<1>2. CASE mchanger_cmd_move_medium(s, d)
  <2>1. /\ arm'.s = s /\ arm'.t = data[s] /\ ~Exchanging' /\ arm'.pc # "exchange assign"
        /\ arm'.pc = IF s \in Drives THEN "unload" ELSE "assign"
    BY <1>2 DEF mchanger_cmd_move_medium, Exchanging
  <2>2. Moving'
    BY <2>1 DEF Moving
  <2>3. Carries' = {data[s]} /\ Unloaded' = {}
    BY <2>1, <2>2 DEF Carries, Unloaded
  <2>4. Labels'
    BY <1>0, <2>3 DEF Described, Labels, Tells, Stale
  <2>5. Sources'
    BY <1>0, <2>1 DEF Described, Sources, Origin
  <2> QED
    BY <1>1, <2>4, <2>5 DEF Described
<1>3. CASE mchanger_cmd_exchange_medium(s, f, d)
  <2>1. /\ arm'.s = s /\ arm'.t = data[s] /\ arm'.f = f /\ arm'.u = data[f] /\ data[f] # NoTape
        /\ arm'.pc = "exchange"
    BY <1>3 DEF mchanger_cmd_exchange_medium
  <2>2. Exchanging' /\ ~Moving'
    BY <2>1 DEF Moving, Exchanging
  <2>3. Carries' = {data[s], data[f]} /\ Unloaded' = {}
    BY <2>1, <2>2 DEF Carries, Unloaded
  <2>4. Labels'
    BY <1>0, <2>3 DEF Described, Labels, Tells, Stale
  <2>5. Sources'
    BY <1>0, <2>1 DEF Described, Sources, Origin
  <2> QED
    BY <1>1, <2>4, <2>5 DEF Described
<1> QED
  BY <1>2, <1>3

(* MOVE MEDIUM: the drive unloads and its descriptor is out of date until  *)
(* the end of the command, or it fails and nothing has changed.            *)
LEMMA DescribedMoveUnload == IInv /\ Described /\ move_unload => Described'
<1> SUFFICES ASSUME IInv, Described, move_unload PROVE Described'
  OBVIOUS
<1> USE ElementsAssumption DEF desc, history
<1>0. arm \in MoveArm /\ MoveHolds /\ arm.pc = "unload" /\ Moving /\ ~Exchanging
  BY ArmIsMove DEF IInv, move_unload, Moving, Exchanging
<1>a. arm.s \in Drives /\ data[arm.s] = arm.t /\ Unloaded = {} /\ Carries = {arm.t}
  BY <1>0 DEF MoveHolds, Unloaded, Carries
<1>1. Types'
  BY DEF Described, Types, move_unload
<1>2. CASE arm' = Idle /\ data' = data
  <2>1. Labels'
    BY <1>2, <1>a, IdleArm DEF Described, Labels, Tells, Stale, move_unload
  <2>2. Sources'
    BY <1>2, IdleArm DEF Described, Sources, move_unload
  <2> QED
    BY <1>1, <2>1, <2>2 DEF Described
<1>3. CASE data' = [data EXCEPT ![arm.s] = NoTape] /\ arm' = [arm EXCEPT !.pc = "assign"]
  <2>1. /\ arm'.s = arm.s /\ arm'.t = arm.t /\ arm'.pc = "assign"
        /\ \A g \in Elements : data'[g] = IF g = arm.s THEN NoTape ELSE data[g]
    BY <1>0, <1>3 DEF MoveArm, IInv, Shape
  <2>2. Moving' /\ ~Exchanging'
    BY <2>1 DEF Moving, Exchanging
  <2>3. Unloaded' = {arm.s} /\ Carries' = {arm.t}
    BY <2>1, <2>2, <1>a DEF Unloaded, Carries
  <2>4. Labels'
    <3> SUFFICES ASSUME NEW g \in Elements, g # arm.s PROVE Tells(g)' \/ Stale(g)'
      BY <2>3 DEF Labels
    <3>1. Tells(g) \/ Stale(g)
      BY <1>a DEF Described, Labels
    <3>2. CASE Tells(g)
      BY <3>2, <2>1 DEF Tells, move_unload
    <3>3. CASE Stale(g)
      <4>1. pvoltag[g] \in known /\ \A h \in Elements : data'[h] # pvoltag[g]
        BY <3>3, <2>1, SMT DEF Stale, IInv, Shape
      <4> QED
        BY <3>3, <4>1, <1>a, <2>3 DEF Stale, move_unload
    <3> QED
      BY <3>1, <3>2, <3>3
  <2>5. Sources'
    BY <1>0, <2>1, <2>2 DEF Described, Sources, Origin, move_unload
  <2> QED
    BY <1>1, <2>4, <2>5 DEF Described
<1> QED
  BY <1>2, <1>3 DEF move_unload

(* The end of MOVE MEDIUM brings both descriptors up to date, from what    *)
(* the elements then hold; a cartridge that is overwritten leaves no       *)
(* descriptor behind.                                                      *)
LEMMA DescribedMoveEnd == IInv /\ Described /\ move_end => Described'
<1> SUFFICES ASSUME IInv, Described, move_end PROVE Described'
  OBVIOUS
<1>0. /\ arm \in MoveArm /\ MoveHolds /\ arm.pc = "assign"
      /\ Moving /\ ~Exchanging
  BY ArmIsMove DEF IInv, move_end, Moving, Exchanging
<1> PICK s \in Elements, d \in Elements, t \in Tapes : s = arm.s /\ d = arm.d /\ t = arm.t
  BY <1>0 DEF MoveArm
<1> USE ElementsAssumption
<1>a. Unloaded = {s} \cap Drives /\ Carries = {t}
  BY <1>0 DEF Unloaded, Carries
<1>b. s # d /\ t # NoTape /\ \A e \in Elements : data[e] = t => e = s
  BY <1>0 DEF MoveHolds
<1>1. \A g \in Elements : data'[g] = IF g = d THEN t ELSE IF g = s THEN NoTape ELSE data[g]
  BY <1>0 DEF IInv, Shape, move_end, MoveHolds
<1>2. /\ arm' = Idle /\ exported' = exported /\ known' = known
      /\ full' = [full EXCEPT ![d] = TRUE, ![s] = FALSE]
      /\ pvoltag' = [pvoltag EXCEPT ![d] = t, ![s] = NoTape]
      /\ source' = [source EXCEPT ![d] = update_source(source, s), ![s] = 0]
      /\ last' = [last EXCEPT ![t] = LeftSlot(t, s)]
      /\ moved' = moved \cup {t}
      /\ lost' = (lost \cup {data[d], data[s]}) \ {t, NoTape}
  BY <1>1, <1>b DEF move_end
<1>3. Types'
  <2>1. update_source(source, s) \in Slots \cup {0} /\ LeftSlot(t, s) \in Slots \cup {0}
    BY DEF Described, Types, update_source, LeftSlot
  <2>2. data[d] \in Holds /\ data[s] \in Holds
    BY DEF IInv, Shape
  <2> QED
    BY <1>2, <2>1, <2>2 DEF Described, Types, Holds
<1>4. Labels'
  <2> SUFFICES ASSUME NEW g \in Elements PROVE Tells(g)' \/ Stale(g)'
    BY <1>2, IdleArm DEF Labels
  <2>1. CASE g \in {d, s}
    <3>1. /\ full'[g] = (data'[g] # NoTape)
          /\ pvoltag'[g] = data'[g]
      BY <2>1, <1>b, <1>1, <1>2 DEF Described, Types
    <3> QED
      BY <3>1 DEF Tells
  <2>2. CASE g \notin {d, s}
    <3>1. full'[g] = full[g] /\ pvoltag'[g] = pvoltag[g] /\ data'[g] = data[g]
      BY <2>2, <1>1, <1>2 DEF Described, Types
    <3>2. CASE Tells(g)
      BY <3>1, <3>2 DEF Tells
    <3>3. CASE Stale(g)
      <4>1. pvoltag[g] # t /\ pvoltag[g] # NoTape /\ \A h \in Elements : data'[h] # pvoltag[g]
        BY <3>3, <1>a, <1>1, SMT DEF Stale, IInv, Shape
      <4>2. Carries' = {}
        BY <1>2, IdleArm
      <4> QED
        BY <3>1, <3>3, <4>1, <4>2, <1>2, SMT DEF Stale
    <3> QED
      BY <2>2, <3>2, <3>3, <1>a DEF Described, Labels
  <2> QED
    BY <2>1, <2>2
<1>5. Sources'
  <2>0. ~Moving' /\ ~Exchanging'
    BY <1>2, IdleArm
  <2> SUFFICES ASSUME NEW g \in Elements, data'[g] # NoTape
               PROVE  last'[data'[g]] = 0 \/ source'[g] = last'[data'[g]]
    BY <2>0 DEF Sources
  <2>1. CASE g = d
    <3>1. Origin(s, t)
      BY <1>0 DEF Described, Sources
    <3>2. last'[t] = LeftSlot(t, s) /\ source'[d] = update_source(source, s)
      BY <1>b, <1>2 DEF Described, Types
    <3> QED
      BY <2>1, <3>1, <3>2, <1>1 DEF Origin, LeftSlot, update_source
  <2>2. CASE g # d
    <3>1. g # s /\ data'[g] = data[g] /\ data[g] # t /\ data[g] \in Tapes
      BY <2>2, <1>1, <1>b DEF IInv, Shape, Holds
    <3>2. last'[data[g]] = last[data[g]] /\ source'[g] = source[g]
      BY <2>2, <3>1, <1>2 DEF Described, Types
    <3> QED
      BY <3>1, <3>2 DEF Described, Sources
  <2> QED
    BY <2>1, <2>2
<1> QED
  BY <1>3, <1>4, <1>5 DEF Described

(* EXCHANGE MEDIUM: the drives unload.  When the second one fails the      *)
(* first one's cartridge is lost, and its descriptor goes stale.           *)
LEMMA DescribedExchangeUnload == IInv /\ Described /\ exchange_unload => Described'
<1> SUFFICES ASSUME IInv, Described, exchange_unload PROVE Described'
  OBVIOUS
<1>0. /\ arm \in ExchangeArm /\ ExchangeHolds /\ arm.pc = "exchange"
      /\ ~Moving /\ Exchanging
  BY ArmIsExchange DEF IInv, exchange_unload, Moving, Exchanging
<1> PICK s \in Elements, f \in Elements, t \in Tapes, u \in Tapes :
         s = arm.s /\ f = arm.f /\ t = arm.t /\ u = arm.u
  BY <1>0 DEF ExchangeArm
<1> USE ElementsAssumption
<1>a. Unloaded = {} /\ Carries = {t, u}
  BY <1>0 DEF Unloaded, Carries
<1>b. /\ t \in known \ exported
      /\ \A e \in Elements : data[e] = t => e = s
      /\ s \in Drives => data[s] = t
  BY <1>0 DEF ExchangeHolds
<1> DEFINE Empty(S) == [e \in Elements |-> IF e \in S \cap Drives THEN NoTape ELSE data[e]]
<1>1. /\ UNCHANGED <<full, pvoltag, source, last, exported, known, moved>>
      /\ \/ /\ data' = Empty({s, f}) /\ arm' = [arm EXCEPT !.pc = "exchange assign"]
            /\ lost' = lost
         \/ data' = data /\ arm' = Idle /\ lost' = lost
         \/ /\ data' = Empty({s}) /\ arm' = Idle
            /\ lost' = IF s \in Drives THEN lost \cup {t} ELSE lost
  BY DEF exchange_unload, desc
<1>2. \A g \in Elements : data'[g] = NoTape \/ data'[g] = data[g]
  BY <1>1
<1>3. Types'
  BY <1>1 DEF Described, Types
<1>4. ASSUME NEW g \in Elements, Stale(g), Carries' \subseteq Carries PROVE Stale(g)'
  <2>1. pvoltag[g] # NoTape /\ \A h \in Elements : data'[h] # pvoltag[g]
    BY <1>4, <1>2, SMT DEF Stale, IInv, Shape
  <2>2. lost \subseteq lost'
    BY <1>1
  <2> QED
    BY <1>4, <1>1, <2>1, <2>2 DEF Stale
<1>5. CASE data' = data /\ arm' = Idle
  <2>1. Labels'
    BY <1>1, <1>4, <1>5, <1>a, IdleArm DEF Described, Labels, Tells
  <2>2. Sources'
    BY <1>1, <1>5, IdleArm DEF Described, Sources
  <2> QED
    BY <1>3, <2>1, <2>2 DEF Described
<1>6. CASE /\ data' = Empty({s}) /\ arm' = Idle
           /\ lost' = IF s \in Drives THEN lost \cup {t} ELSE lost
  <2>1. \A g \in Elements : data'[g] = IF g = s /\ s \in Drives THEN NoTape ELSE data[g]
    BY <1>6
  <2>2. Labels'
    <3> SUFFICES ASSUME NEW g \in Elements PROVE Tells(g)' \/ Stale(g)'
      BY <1>6, IdleArm DEF Labels
    <3>1. CASE Stale(g)
      BY <3>1, <1>4, <1>6, IdleArm
    <3>2. CASE Tells(g) /\ ~(g = s /\ s \in Drives)
      BY <3>2, <2>1, <1>1 DEF Tells
    <3>3. CASE Tells(g) /\ g = s /\ s \in Drives
      <4>1. full[g] /\ pvoltag[g] = t
        BY <3>3, <1>b DEF Tells
      <4>2. \A h \in Elements : data'[h] # t
        BY <3>3, <2>1, <1>b
      <4> QED
        BY <4>1, <4>2, <3>3, <1>1, <1>6, <1>b, IdleArm DEF Stale
    <3> QED
      BY <3>1, <3>2, <3>3, <1>a DEF Described, Labels
  <2>3. Sources'
    BY <2>1, <1>1, <1>6, IdleArm DEF Described, Sources
  <2> QED
    BY <1>3, <2>2, <2>3 DEF Described
<1>7. CASE data' = Empty({s, f}) /\ arm' = [arm EXCEPT !.pc = "exchange assign"]
  <2>1. /\ arm'.pc = "exchange assign" /\ arm'.s = s /\ arm'.f = f /\ arm'.t = t /\ arm'.u = u
        /\ \A g \in Elements : data'[g] = IF g \in {s, f} \cap Drives THEN NoTape ELSE data[g]
    BY <1>0, <1>7 DEF ExchangeArm
  <2>2. Exchanging' /\ ~Moving'
    BY <2>1 DEF Exchanging, Moving
  <2>3. Unloaded' = {s, f} \cap Drives /\ Carries' = {t, u}
    BY <2>1, <2>2 DEF Unloaded, Carries
  <2>4. Labels'
    <3> SUFFICES ASSUME NEW g \in Elements, g \notin {s, f} \cap Drives
                 PROVE  Tells(g)' \/ Stale(g)'
      BY <2>3 DEF Labels
    <3>1. CASE Stale(g)
      BY <3>1, <1>4, <1>a, <2>3
    <3>2. CASE Tells(g)
      BY <3>2, <2>1, <1>1 DEF Tells
    <3> QED
      BY <3>1, <3>2, <1>a DEF Described, Labels
  <2>5. Sources'
    <3>1. Origin(s, t)' /\ Origin(f, u)'
      BY <1>0, <1>1 DEF Described, Sources, Origin
    <3> QED
      BY <2>1, <2>2, <3>1, <1>1 DEF Described, Sources
  <2> QED
    BY <1>3, <2>4, <2>5 DEF Described
<1> QED
  BY <1>1, <1>5, <1>6, <1>7

(* The end of EXCHANGE MEDIUM brings the three descriptors up to date, and *)
(* the source address of the second destination is the one that the first  *)
(* destination had before.                                                 *)
LEMMA DescribedExchangeEnd == IInv /\ Described /\ exchange_end => Described'
<1> SUFFICES ASSUME IInv, Described, exchange_end PROVE Described'
  OBVIOUS
<1>0. /\ arm \in ExchangeArm /\ ExchangeHolds /\ arm.pc = "exchange assign"
      /\ ~Moving /\ Exchanging
  BY ArmIsExchange DEF IInv, exchange_end, Moving, Exchanging
<1> PICK s \in Elements, f \in Elements, d \in Elements, t \in Tapes, u \in Tapes :
         s = arm.s /\ f = arm.f /\ d = arm.d /\ t = arm.t /\ u = arm.u
  BY <1>0 DEF ExchangeArm
<1> USE ElementsAssumption
<1>a. Unloaded = {s, f} \cap Drives /\ Carries = {t, u}
  BY <1>0 DEF Unloaded, Carries
<1>b. /\ s # f /\ f # d /\ t # u /\ t # NoTape /\ u # NoTape
      /\ \A e \in Elements : data[e] = t => e = s
      /\ \A e \in Elements : data[e] = u => e = f
  BY <1>0 DEF ExchangeHolds
<1>1. \A g \in Elements :
         data'[g] = IF g = d THEN u ELSE IF g = f THEN t ELSE IF g = s THEN NoTape ELSE data[g]
  BY <1>0, <1>b DEF IInv, Shape, exchange_end, Exchanged, ExchangeHolds
<1>2. /\ arm' = Idle /\ exported' = exported /\ known' = known
      /\ full' = [full EXCEPT ![f] = TRUE, ![s] = FALSE, ![d] = TRUE]
      /\ pvoltag' = [e \in Elements |-> IF e \in {s, f, d} THEN data'[e] ELSE pvoltag[e]]
      /\ source' = [[source EXCEPT ![f] = update_source(source, s)]
                        EXCEPT ![d] = update_source(source, f)]
      /\ last' = [last EXCEPT ![t] = LeftSlot(t, s), ![u] = LeftSlot(u, f)]
      /\ moved' = moved \cup {t, u}
      /\ lost' = (lost \cup {data[s], data[f], data[d]}) \ {t, u, NoTape}
  BY DEF exchange_end, exchange_full, exchange_source
<1>3. Types'
  <2>1. /\ {update_source(source, s), update_source(source, f)} \subseteq Slots \cup {0}
        /\ {LeftSlot(t, s), LeftSlot(u, f)} \subseteq Slots \cup {0}
    BY SMT DEF Described, Types, update_source, LeftSlot
  <2>2. \A g \in Elements : data[g] \in Holds /\ data'[g] \in Holds
    BY <1>1 DEF IInv, Shape, Holds
  <2> QED
    <3>1. /\ full' \in [Elements -> BOOLEAN] /\ source' \in [Elements -> Slots \cup {0}]
          /\ last' \in [Tapes -> Slots \cup {0}]
      BY <1>2, <2>1 DEF Described, Types
    <3>2. /\ pvoltag' \in [Elements -> Holds]
          /\ moved' \subseteq Tapes /\ lost' \subseteq Tapes
      BY <1>2, <2>2, SMT DEF Described, Types, Holds
    <3> QED
      BY <3>1, <3>2 DEF Types
<1>4. Labels'
  <2> SUFFICES ASSUME NEW g \in Elements PROVE Tells(g)' \/ Stale(g)'
    BY <1>2, IdleArm DEF Labels
  <2>1. CASE g \in {s, f, d}
    <3>1. full'[g] = (data'[g] # NoTape)
      BY <2>1, <1>b, <1>1, <1>2 DEF Described, Types
    <3>2. pvoltag'[g] = data'[g]
      BY <2>1, <1>2
    <3> QED
      BY <3>1, <3>2 DEF Tells
  <2>2. CASE g \notin {s, f, d}
    <3>1. full'[g] = full[g] /\ pvoltag'[g] = pvoltag[g] /\ data'[g] = data[g]
      BY <2>2, <1>1, <1>2 DEF Described, Types
    <3>2. CASE Tells(g)
      BY <3>1, <3>2 DEF Tells
    <3>3. CASE Stale(g)
      <4>1. /\ pvoltag[g] \notin {t, u, NoTape}
            /\ \A h \in Elements : data'[h] # pvoltag[g]
        BY <3>3, <1>a, <1>1, SMT DEF Stale, IInv, Shape
      <4>2. Carries' = {}
        BY <1>2, IdleArm
      <4> QED
        BY <3>1, <3>3, <4>1, <4>2, <1>2 DEF Stale
    <3> QED
      BY <2>2, <3>2, <3>3, <1>a DEF Described, Labels
  <2> QED
    BY <2>1, <2>2
<1>5. Sources'
  <2>0. ~Moving' /\ ~Exchanging'
    BY <1>2, IdleArm
  <2> SUFFICES ASSUME NEW g \in Elements, data'[g] # NoTape
               PROVE  last'[data'[g]] = 0 \/ source'[g] = last'[data'[g]]
    BY <2>0 DEF Sources
  <2>a. Origin(s, t) /\ Origin(f, u)
    BY <1>0 DEF Described, Sources
  <2>b. /\ last'[t] = LeftSlot(t, s) /\ last'[u] = LeftSlot(u, f)
        /\ source'[f] = update_source(source, s) /\ source'[d] = update_source(source, f)
    BY <1>b, <1>2 DEF Described, Types
  <2>1. CASE g = d
    BY <2>1, <2>a, <2>b, <1>1 DEF Origin, LeftSlot, update_source
  <2>2. CASE g = f
    BY <2>2, <2>a, <2>b, <1>1, <1>b DEF Origin, LeftSlot, update_source
  <2>3. CASE g \notin {d, f}
    <3>1. g # s /\ data'[g] = data[g] /\ data[g] \notin {t, u} /\ data[g] \in Tapes
      BY <2>3, <1>1, <1>b DEF IInv, Shape, Holds
    <3>2. last'[data[g]] = last[data[g]] /\ source'[g] = source[g]
      BY <2>3, <3>1, <1>2 DEF Described, Types
    <3> QED
      BY <3>1, <3>2 DEF Described, Sources
  <2> QED
    BY <2>1, <2>2, <2>3
<1> QED
  BY <1>3, <1>4, <1>5 DEF Described

-----------------------------------------------------------------------------
(***************************************************************************)
(* The ioctls.                                                             *)
(***************************************************************************)
(* A cartridge that is loaded or added was not known.                      *)
LEMMA DescribedAdds ==
    ASSUME IInv, Described,
           \/ \E t \in Tapes, e \in Elements : mchanger_load_vcartridge(t, e)
           \/ new_vcartridge_end
    PROVE  Described'
<1> USE ElementsAssumption
<1>1. ASSUME NEW t \in Tapes, NEW e \in Elements, mchanger_load_vcartridge(t, e)
      PROVE  Described'
  <2>1. /\ Put(e, t) /\ t \notin known /\ known' = known \cup {t} /\ arm = Idle
        /\ UNCHANGED <<arm, exported, lost>>
    BY <1>1 DEF mchanger_load_vcartridge, IInv, Shape
  <2>2. Carries = {} /\ Unloaded = {} /\ lost \subseteq Tapes
    BY <2>1, IdleArm DEF Described, Types
  <2> QED
    BY <2>1, <2>2, DescribedPut
<1>2. ASSUME new_vcartridge_end PROVE Described'
  <2>0. adding \in NewTape /\ adding.t \notin known
    BY <1>2 DEF new_vcartridge_end, IInv, Fresh
  <2> PICK e \in Slots \cup IEs, n \in Tapes : e = adding.e /\ n = adding.t
    BY <2>0 DEF NewTape
  <2>1. /\ Put(e, n) /\ n \notin known /\ known' = known \cup {n} /\ UNCHANGED <<arm, exported>>
        /\ lost' = (lost \cup {data[e]}) \ {NoTape}
    BY <1>2, <2>0 DEF new_vcartridge_end
  <2>2. e \in Elements \ Unloaded
    BY DEF Elements, Unloaded
  <2>3. n \notin Carries
    BY <2>1, ArmIsMove, ArmIsExchange
       DEF Carries, Moving, Exchanging, IInv, MoveHolds, ExchangeHolds
  <2>4. lost \subseteq lost' /\ lost' \subseteq Tapes
    BY <2>1, <2>2 DEF Described, Types, IInv, Shape, Holds
  <2> QED
    BY <2>1, <2>2, <2>3, <2>4, DescribedPut
<1> QED
  BY <1>1, <1>2

(* The ports that are emptied have no cartridge in their descriptors, and  *)
(* a cartridge that is exported was in an element.                         *)
LEMMA DescribedExport ==
    IInv /\ Described /\ mchanger_check_for_exported_volumes => Described'
<1> SUFFICES ASSUME IInv, Described, mchanger_check_for_exported_volumes PROVE Described'
  OBVIOUS
<1> USE ElementsAssumption
    DEF mchanger_check_for_exported_volumes, MchangerLock, IoctlLock, history
<1>0. arm = Idle /\ UNCHANGED <<arm, known, moved, last, lost, source>>
  OBVIOUS
<1> PICK out \in SUBSET {e \in IEs : data[e] # NoTape /\ ~impexp[e]} :
         /\ data' = [e \in Elements |-> IF e \in out THEN NoTape ELSE data[e]]
         /\ full' = [e \in Elements |-> full[e] /\ e \notin out]
         /\ pvoltag' = [e \in Elements |-> IF e \in out THEN NoTape ELSE pvoltag[e]]
         /\ exported' = exported \cup {data[e] : e \in out}
  OBVIOUS
<1>a. Carries' = {} /\ Unloaded' = {} /\ Unloaded = {} /\ ~Moving' /\ ~Exchanging'
  BY <1>0, IdleArm
<1>b. out \subseteq Elements
  BY DEF Elements
<1>1. Types'
  BY <1>0, SMT DEF Described, Types, Holds
<1>2. Labels'
  <2> SUFFICES ASSUME NEW g \in Elements PROVE Tells(g)' \/ Stale(g)'
    BY <1>a DEF Labels
  <2>1. CASE g \in out
    BY <2>1 DEF Tells
  <2>2. CASE g \notin out /\ Tells(g)
    BY <2>2 DEF Tells, Described, Types
  <2>3. CASE g \notin out /\ Stale(g)
    <3>1. full'[g] /\ pvoltag'[g] = pvoltag[g] /\ pvoltag[g] \in lost \cap known
      BY <2>3 DEF Stale
    <3>2. pvoltag[g] \notin exported'
      BY <2>3, <1>b DEF Stale
    <3>3. \A h \in Elements : data'[h] # pvoltag[g]
      BY <2>3, <3>1, SMT DEF Stale, IInv, Shape
    <3> QED
      BY <3>1, <3>2, <3>3, <1>0, <1>a DEF Stale
  <2> QED
    BY <2>1, <2>2, <2>3, <1>a DEF Described, Labels
<1>3. Sources'
  BY <1>0, <1>a DEF Described, Sources
<1> QED
  BY <1>1, <1>2, <1>3 DEF Described

(* A cartridge that leaves the export list is none that a descriptor lists.*)
LEMMA DescribedReload ==
    ASSUME IInv, Described, NEW t \in Tapes, mchanger_reload_export_vcartridge(t)
    PROVE  Described'
<1> USE ElementsAssumption DEF mchanger_reload_export_vcartridge, MchangerLock, IoctlLock
<1>1. Min(FreeSlots) \in Elements
  BY FreeElement DEF FreeSlots, Elements
<1>2. Carries = {} /\ Unloaded = {} /\ lost \subseteq Tapes
  BY IdleArm DEF Described, Types
<1>3. known' = known \cup {t} /\ exported' \subseteq exported
  BY DEF IInv, Shape
<1> QED
  BY <1>1, <1>2, <1>3, DescribedPut

(* The descriptor of a deleted cartridge's element is cleared; the         *)
(* cartridge is none that a stale descriptor lists.                        *)
LEMMA DescribedDelete ==
    ASSUME IInv, Described, NEW t \in Tapes, mchanger_delete_vcartridge(t)
    PROVE  Described'
<1> USE ElementsAssumption DEF mchanger_delete_vcartridge, MchangerLock, IoctlLock
<1>0. /\ arm = Idle /\ UNCHANGED <<arm, lost, source>>
      /\ known' = known \ {t} /\ moved' = moved \ {t}
      /\ last' = [last EXCEPT ![t] = 0]
  OBVIOUS
<1>a. Carries' = {} /\ Unloaded' = {} /\ Unloaded = {} /\ ~Moving' /\ ~Exchanging'
  BY <1>0, IdleArm
<1>b. ASSUME NEW g \in Elements, Stale(g) PROVE pvoltag[g] # t
  BY <1>b DEF Stale
<1>1. ASSUME NEW e \in Elements, data[e] = t,
             data' = [data EXCEPT ![e] = NoTape], full' = [full EXCEPT ![e] = FALSE],
             pvoltag' = [pvoltag EXCEPT ![e] = NoTape], exported' = exported
      PROVE  Types' /\ Labels'
  <2>1. \A g \in Elements : /\ data'[g] = IF g = e THEN NoTape ELSE data[g]
                            /\ full'[g] = IF g = e THEN FALSE ELSE full[g]
                            /\ pvoltag'[g] = IF g = e THEN NoTape ELSE pvoltag[g]
    BY <1>1, SMT DEF IInv, Shape, Described, Types
  <2>2. Types'
    BY <1>0, <1>1 DEF Described, Types, Holds
  <2>3. Labels'
    <3> SUFFICES ASSUME NEW g \in Elements PROVE Tells(g)' \/ Stale(g)'
      BY <1>a DEF Labels
    <3>1. CASE g = e
      BY <3>1, <2>1 DEF Tells
    <3>2. CASE g # e /\ Tells(g)
      BY <3>2, <2>1 DEF Tells
    <3>3. CASE g # e /\ Stale(g)
      <4>1. \A h \in Elements : data'[h] # pvoltag[g]
        BY <3>3, <2>1, SMT DEF Stale, IInv, Shape
      <4>2. full'[g] = full[g] /\ pvoltag'[g] = pvoltag[g] /\ pvoltag[g] # t
        BY <3>3, <2>1, <1>b
      <4>3. pvoltag[g] \in (lost' \cap known') \ (exported' \cup Carries')
        BY <3>3, <4>2, <1>0, <1>1, <1>a DEF Stale
      <4> QED
        BY <3>3, <4>1, <4>2, <4>3 DEF Stale
    <3> QED
      BY <3>1, <3>2, <3>3, <1>a DEF Described, Labels
  <2> QED
    BY <2>2, <2>3
<1>2. ASSUME t \in exported, exported' = exported \ {t}, UNCHANGED <<data, full, pvoltag>>
      PROVE  Types' /\ Labels'
  <2>1. Types'
    BY <1>0, <1>2 DEF Described, Types
  <2>2. Labels'
    BY <1>0, <1>2, <1>a, <1>b DEF Described, Labels, Tells, Stale
  <2> QED
    BY <2>1, <2>2
<1>3. Sources'
  <2>1. \A u \in Tapes : last'[u] = IF u = t THEN 0 ELSE last[u]
    BY <1>0 DEF Described, Types
  <2>2. \A g \in Elements : data'[g] = NoTape \/ data'[g] = data[g]
    BY DEF IInv, Shape
  <2> QED
    BY <1>0, <1>a, <2>1, <2>2, SMT DEF Described, Sources, IInv, Shape, Holds
<1> QED
  BY <1>1, <1>2, <1>3 DEF Described

-----------------------------------------------------------------------------
(* The descriptors' invariant is inductive, given that of the elements.    *)
LEMMA NextDescribed ==
    ASSUME IInv, Described, ~SelfExchange, [Next]_vars
    PROVE  Described'
<1>1. ASSUME Robot PROVE Described'
  BY <1>1, DescribedBegin, DescribedMoveUnload, DescribedMoveEnd, DescribedExchangeUnload,
     DescribedExchangeEnd DEF Robot
<1>2. ASSUME Management PROVE Described'
  <2>1. ASSUME NEW t \in Tapes, load_exported(t) PROVE Described'
    <3>1. t \notin known /\ known' = known \cup {t} /\ exported' = exported \cup {t}
      BY <2>1 DEF load_exported
    <3>2. UNCHANGED <<data, desc, arm, moved, last, lost>>
      BY <2>1 DEF load_exported
    <3>3. Types'
      BY <3>2 DEF Described, Types, desc
    <3>4. Labels'
      <4>1. Carries' = Carries /\ Unloaded' = Unloaded
        BY <3>2 DEF Carries, Unloaded, Moving, Exchanging
      <4>2. ASSUME NEW g \in Elements, Stale(g) PROVE Stale(g)'
        BY <3>1, <3>2, <4>1, <4>2 DEF Stale, desc
      <4> QED
        BY <3>2, <4>1, <4>2 DEF Described, Labels, Tells, desc
    <3>5. Sources'
      BY <3>2 DEF Described, Sources, Origin, Moving, Exchanging, desc
    <3> QED
      BY <3>3, <3>4, <3>5 DEF Described
  <2>2. ASSUME \/ coremod_load_done \/ tape_new_fails
               \/ \E t \in Tapes, slot \in BOOLEAN, attached \in BOOLEAN :
                     mchanger_new_vcartridge(t, slot, attached)
        PROVE  Described'
    <3>1. UNCHANGED <<data, desc, exported, arm, history>>
      BY <2>2 DEF coremod_load_done, tape_new_fails, mchanger_new_vcartridge
    <3> QED
      BY <3>1, DescribedUnchanged
  <2> QED
    BY <1>2, <2>1, <2>2, DescribedAdds, DescribedExport, DescribedReload, DescribedDelete
       DEF Management
<1>3. ASSUME UNCHANGED vars PROVE Described'
  <2>1. UNCHANGED <<data, desc, exported, arm, history>>
    BY <1>3 DEF vars
  <2> QED
    BY <2>1, DescribedUnchanged
<1> QED
  BY <1>1, <1>2, <1>3 DEF Next

(* Hence it always holds.                                                  *)
LEMMA AlwaysDescribed ==
    ASSUME ~SelfExchange
    PROVE  Spec => [](IInv /\ Described)
<1>1. Init => IInv /\ Described
  BY InitIInv, DescribedInit
<1>2. IInv /\ Described /\ [Next]_vars => (IInv /\ Described)'
  BY NextIInv, NextDescribed
<1> QED
  BY <1>1, <1>2, PTL DEF Spec

(* Every variable keeps its type; the source address of an element is a    *)
(* slot or none.                                                           *)
THEOREM TypesKept ==
    ASSUME ~SelfExchange
    PROVE  Spec => []TypeOK
<1>1. ASSUME IInv, Described PROVE TypeOK
  <2>1. arm = Idle \/ ({arm.s, arm.d} \subseteq Elements /\ arm.t \in Tapes)
    BY <1>1 DEF IInv, Carried, MoveArm, ExchangeArm
  <2>2. adding = Idle \/ (adding.e \in Slots \cup IEs /\ adding.t \in Tapes)
    BY <1>1 DEF IInv, Fresh, NewTape
  <2>3. exported \subseteq Tapes
    BY <1>1 DEF IInv, Shape
  <2> QED
    BY <1>1, <2>1, <2>2, <2>3 DEF IInv, Shape, Described, Types, Holds, TypeOK
<1> QED
  BY <1>1, AlwaysDescribed, PTL

(* Between commands READ ELEMENT STATUS tells the truth about every        *)
(* element, but for the cartridges that a failing EXCHANGE MEDIUM lost.    *)
THEOREM StatusTrueAlways ==
    ASSUME ~SelfExchange
    PROVE  Spec => []StatusTrue
<1>1. Described => StatusTrue
  BY IdleArm DEF Described, Labels, Tells, Stale, StatusTrue
<1> QED
  BY <1>1, AlwaysDescribed, PTL

(* The source storage address is the slot that the robot last took the     *)
(* cartridge from, through any sequence of moves and exchanges.            *)
THEOREM SourceIsLastSlotAlways ==
    ASSUME ~SelfExchange
    PROVE  Spec => []SourceIsLastSlot
<1>1. Described => SourceIsLastSlot
  BY DEF Described, Sources, SourceIsLastSlot
<1> QED
  BY <1>1, AlwaysDescribed, PTL
=============================================================================
