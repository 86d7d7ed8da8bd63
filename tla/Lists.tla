-------------------------------- MODULE Lists --------------------------------
(***************************************************************************)
(* The lists of the code (export/queue.h) as sequences: what Append, Head  *)
(* and Tail do not cover.  They are three operators of SequencesExt; the   *)
(* rest of it, and Bags with it, would be part of every proof obligation   *)
(* about a list.                                                           *)
(***************************************************************************)
EXTENDS Integers, Sequences, Functions

(* On a list or not, which flags such as BINT_ALLOC_INSERTED tell.         *)
Contains(list, e) == \E i \in 1..Len(list) : list[i] = e

(* SLIST_INSERT_AFTER the element before place i, or SLIST_INSERT_HEAD.    *)
InsertAt(list, i, e) == SubSeq(list, 1, i - 1) \o <<e>> \o SubSeq(list, i, Len(list))

(* SLIST_REMOVE and TAILQ_REMOVE of the element at place i.                *)
RemoveAt(list, i) == SubSeq(list, 1, i - 1) \o SubSeq(list, i + 1, Len(list))
===============================================================================
