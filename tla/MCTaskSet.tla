----------------------------- MODULE MCTaskSet -----------------------------
(* Instances of TaskSet for TLC.                                           *)
EXTENDS TaskSet

CONSTANTS t1, t2, t3, a1
=============================================================================
