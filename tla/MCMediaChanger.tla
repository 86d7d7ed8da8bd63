--------------------------- MODULE MCMediaChanger ---------------------------
(***************************************************************************)
(* MediaChanger with interchangeable cartridges.                           *)
(***************************************************************************)
EXTENDS MediaChanger, TLC

Symmetry == Permutations(Tapes)

(* Between commands, the source addresses that something may still depend  *)
(* on.  That of an empty slot or drive is written before it is read next,  *)
(* and that of a slot is read only by SourceIsLastSlot.                    *)
LiveSource(e) ==
    IF data[e] = NoTape THEN arm # Idle \/ e \in IEs
    ELSE arm # Idle \/ e \notin Slots \/ last[data[e]] # 0

View ==
    <<loading, data, full, impexp, [e \in Elements |-> IF LiveSource(e) THEN source[e] ELSE 0],
      pvoltag, exported, arm, adding, history>>
=============================================================================
