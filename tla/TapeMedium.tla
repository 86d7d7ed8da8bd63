------------------------------ MODULE TapeMedium ------------------------------
(***************************************************************************)
(* What a tape partition promises an initiator: a log of blocks and marks, *)
(* a position in it, and a prefix of it that a power failure leaves alone. *)
(* TapePartition implements it with lookups, maps and caches.  A step is   *)
(* one command with its outcome in res.                                    *)
(***************************************************************************)
EXTENDS Integers, FiniteSets, SequencesExt, FiniteSetsExt

CONSTANTS Values, Kinds, Counts, MaxBlocks

VARIABLES
    worm,   \* the cartridge is write-once
    log,    \* the blocks and marks, [k, v]
    pos,    \* how many of them are before the position
    synced, \* how many of them are on disk
    res     \* the last command and its outcome

vars == <<worm, log, pos, synced, res>>

Init ==
    /\ worm \in BOOLEAN
    /\ log = <<>> /\ pos = 0 /\ synced = 0
    /\ res = [cmd |-> "LOAD", arg |-> <<>>, st |-> "GOOD", out |-> <<>>]

Answer(cmd, arg, st, out) ==
    res' = [cmd |-> cmd, arg |-> arg, st |-> st, out |-> out]

BeforePosition == SubSeq(log, 1, pos)
SyncedBeforePosition == Min({synced, pos})

-----------------------------------------------------------------------------
(* A written block or mark follows the position and ends the data, unless  *)
(* the cartridge is write-once and there is data after the position.       *)
Overwrite(cmd, arg, tail, Durable(_)) ==
    \/ /\ Answer(cmd, arg, "WORM", <<>>)
       /\ worm /\ pos < Len(log)
       /\ UNCHANGED <<log, pos>>
       /\ synced' = Len(log)
    \/ /\ Answer(cmd, arg, "GOOD", <<>>)
       /\ ~(worm /\ pos < Len(log))
       /\ log' = BeforePosition \o tail
       /\ pos' = Len(log')
       /\ synced' \in SyncedBeforePosition..Len(log')
       /\ Durable(synced')
    \/ /\ Answer(cmd, arg, "MEDIA_ERROR", <<>>)
       /\ IsPrefix(BeforePosition, log')
       /\ pos' \in pos..Len(log')
       /\ synced' \in SyncedBeforePosition..Len(log')

(* Only a buffered WRITE may be answered before its blocks are on disk.    *)
Write(v, n, buffered) ==
    Overwrite("WRITE", <<v, n, buffered>>, [j \in 1..n |-> [k |-> "D", v |-> v]],
              LAMBDA s : buffered \/ s = Len(log'))

WriteFilemarks(k, n) ==
    IF n = 0
    THEN /\ Answer("WRITE FILEMARKS", <<k, n>>, "GOOD", <<>>)
         /\ synced' = Len(log)
         /\ UNCHANGED <<log, pos>>
    ELSE Overwrite("WRITE FILEMARKS", <<k, n>>, [j \in 1..n |-> [k |-> k, v |-> 0]],
                   LAMBDA s : s = Len(log'))

Erase == Overwrite("ERASE", <<>>, <<>>, LAMBDA s : s = Len(log'))

-----------------------------------------------------------------------------
(* Commands that only move first bring everything written to disk.         *)
Move(p) ==
    /\ pos' = p
    /\ synced' = Len(log)
    /\ UNCHANGED log

(* READ stops after a mark or a block of another size, or at the end.      *)
Read(sz, n) ==
    LET Matches(i) == i <= Len(log) /\ log[i] = [k |-> "D", v |-> sz]
        got == Max({j \in 0..n : \A i \in (pos + 1)..(pos + j) : Matches(i)})
        at  == pos + got + 1
        st  == CASE got = n -> "GOOD"
                 [] got < n /\ at > Len(log) -> "EOD"
                 [] OTHER -> CASE log[at].k = "F" -> "FILEMARK"
                               [] log[at].k = "S" -> "SETMARK"
                               [] log[at].k = "D" /\ log[at].v < sz -> "UNDERLENGTH"
                               [] OTHER -> "OVERLENGTH"
    IN /\ Answer("READ", <<sz, n>>, st, [j \in 1..got |-> sz])
       /\ Move(IF st \in {"GOOD", "EOD"} THEN pos + got ELSE at)

(* LOCATE beyond the data, or to a filemark there is not, ends at the end. *)
(* At the very end it may say either that it is there or that it is the    *)
(* end.                                                                    *)
Locate(type, a) ==
    LET files == {i \in DOMAIN log : log[i].k = "F"}
        file  == {i \in files : Cardinality({j \in files : j < i}) = a}
        goal  == CASE type = "BLOCK" -> a
                   [] type = "FILE" /\ file # {} -> Min(file) - 1
                   [] type = "FILE" /\ file = {} ->
                          IF log = <<>> /\ a = 0 THEN 0 ELSE Len(log) + 1
                   [] type = "EOD" -> Len(log)
    IN \E st \in {"GOOD", "EOD"} :
           /\ Answer("LOCATE", <<type, a>>, st, <<>>)
           /\ goal < Len(log) => st = "GOOD"
           /\ goal > Len(log) => st = "EOD"
           /\ Move(Min({goal, Len(log)}))

(***************************************************************************)
(* SPACE over n blocks, filemarks or setmarks, back if n is negative.  It  *)
(* ends beyond the last one counted, or beyond a mark that it may not      *)
(* cross, and reports how many are left.  At either end of the data the    *)
(* outcome may be GOOD, with a count left.                                 *)
(***************************************************************************)
Space(code, n) ==
    LET back   == n < 0
        want   == IF back THEN -n ELSE n
        kind   == CASE code = "BLOCKS" -> "D" [] code = "FILEMARKS" -> "F" [] OTHER -> "S"
        stops  == CASE code = "BLOCKS" -> {"F", "S"} [] code = "FILEMARKS" -> {"S"} [] OTHER -> {}
        Over(i) == IF back THEN i..pos ELSE (pos + 1)..i
        Left(i) == want - Cardinality({j \in Over(i) : log[j].k = kind})
        ends   == {i \in IF back THEN 1..pos ELSE (pos + 1)..Len(log) :
                       log[i].k \in stops \/ Left(i) = 0}
        end    == IF back THEN Max(ends) ELSE Min(ends)
        edge   == IF back THEN 1 ELSE Len(log)
    IN \/ /\ ends # {}
          /\ Answer("SPACE", <<code, n>>,
                    CASE log[end].k \notin stops -> "GOOD"
                      [] log[end].k \in stops /\ log[end].k = "F" -> "FILEMARK"
                      [] OTHER -> "SETMARK", <<Left(end)>>)
          /\ Move(IF back THEN end - 1 ELSE end)
       \/ /\ ends = {}
          /\ \E st \in {"GOOD", IF back THEN "BOM" ELSE "EOD"} :
                 Answer("SPACE", <<code, n>>, st, <<Left(edge)>>)
          /\ Move(IF back THEN 0 ELSE Len(log))

(***************************************************************************)
(* READ POSITION gives the block number.  The file number counts the       *)
(* filemarks before the position, and may count one right after it; with   *)
(* blocks not on disk yet it may count fewer.  Only at the beginning does  *)
(* it say so.                                                              *)
(***************************************************************************)
ReadPosition ==
    LET Files(n) == Cardinality({i \in 1..n : log[i].k = "F"})
    IN \E file \in 0..Files(Min({pos + 1, Len(log)})), bop \in BOOLEAN :
           /\ Answer("READ POSITION", <<>>, "GOOD", <<pos, file, bop>>)
           /\ synced = Len(log) => file >= Files(pos)
           /\ bop => pos = 0
           /\ UNCHANGED <<log, pos, synced>>

Rewind == Answer("REWIND", <<>>, "GOOD", <<>>) /\ Move(0)

(***************************************************************************)
(* The machine stops, possibly within a command.  What was on disk is      *)
(* there after the restart, up to the position if the command overwrites;  *)
(* what follows it is unspecified.                                         *)
(***************************************************************************)
Crash ==
    \E cmd \in {<<>>, <<"WRITE">>, <<"WRITE FILEMARKS">>, <<"ERASE">>, <<"READ">>,
                <<"LOCATE">>, <<"SPACE">>, <<"REWIND">>} :
        /\ Answer("CRASH", cmd, "GOOD", <<>>)
        /\ IsPrefix(SubSeq(log, 1, IF cmd \in {<<"WRITE">>, <<"WRITE FILEMARKS">>, <<"ERASE">>}
                                   THEN SyncedBeforePosition ELSE synced), log')
        /\ pos' = 0
        /\ synced' = Len(log')

Next ==
    /\ \/ \E v \in Values, n \in Counts, buffered \in BOOLEAN : Write(v, n, buffered)
       \/ \E k \in Kinds, n \in Counts \cup {0} : WriteFilemarks(k, n)
       \/ \E sz \in Values, n \in Counts : Read(sz, n)
       \/ \E type \in {"BLOCK", "FILE", "EOD"}, a \in 0..MaxBlocks : Locate(type, a)
       \/ \E code \in {"BLOCKS", "FILEMARKS", "SETMARKS"}, n \in Counts, s \in {1, -1} :
              Space(code, s * n)
       \/ Rewind
       \/ Erase
       \/ ReadPosition
       \/ Crash
    /\ UNCHANGED worm

Spec == Init /\ [][Next]_vars
===============================================================================
