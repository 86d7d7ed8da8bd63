----------------------------- MODULE MCTapeDrive -----------------------------
(***************************************************************************)
(* TapeDrive with one initiator and management, which is the second one    *)
(* that moves cartridges.                                                  *)
(***************************************************************************)
EXTENDS TapeDrive
=============================================================================
