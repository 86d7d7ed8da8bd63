---------------------------- MODULE MCReservation ----------------------------
(***************************************************************************)
(* Reservation on small instances.                                         *)
(***************************************************************************)
EXTENDS Reservation, TLC

Symmetry == Permutations(Initiators)

(* Nothing the device does depends on the last answer or the generation.   *)
View == <<registration_list, reservation, known, sense>>
=============================================================================
