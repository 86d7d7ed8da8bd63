---------------------------- MODULE SegmentsProofs ----------------------------
(***************************************************************************)
(* The owners of units for any disks, partitions, segment maps and failing *)
(* writes, where the disk check finds no segment map with a gap: the       *)
(* inductive invariant, the kinds of effect a step has on the owners, and  *)
(* that none of them breaks it; the steps; and the theorems.               *)
(***************************************************************************)
EXTENDS SegmentsInvariant, TLAPS

(* Most steps need no arithmetic; those that do cite SMT.                  *)
USE Zenon

-----------------------------------------------------------------------------
(* A segment is a partition, a type and a place in the pages of that type. *)
LEMMA SegFacts ==
    /\ \A v \in Parts, t \in Types : \A s \in Slots(t) : <<v, t, s>> \in Segs
    /\ \A k \in Segs : /\ k[1] \in Parts /\ k[2] \in Types /\ k[3] \in Slots(k[2])
                       /\ k = <<k[1], k[2], k[3]>>
  BY SMT DEF Segs

(* NONE and SELF are no units.                                             *)
LEMMA NoneFacts == NONE \notin Units /\ SELF \notin Units /\ SELF # NONE
  BY NoneAssumption, SelfAssumption

(***************************************************************************)
(* The kinds of effect a step has on references, bitmap and UNMAPs.        *)
(***************************************************************************)
(* Some references are gone.                                               *)
Fewer ==
    /\ bmap' = bmap
    /\ unmap_list' \subseteq unmap_list
    /\ raw' \in [Parts -> Units \cup {NONE}]
    /\ unit' \in [Parts -> Units \cup {NONE}]
    /\ tmap' \in [Segs -> Units \cup {NONE, SELF}]
    /\ tmem' \in [Segs -> Units \cup {NONE, SELF}]
    /\ \A v \in Parts : raw'[v] \in {NONE, raw[v]} /\ unit'[v] \in {NONE, unit[v]}
    /\ \A k \in Segs : tmem'[k] \in {NONE, tmem[k]} /\ tmap'[k] \in {NONE, tmem'[k]}

(* A caller takes a unit that is not marked and has no UNMAP.              *)
Takes(v) ==
    /\ pc[v] \in {"scan", "wait"}
    /\ \E u \in Units \ (bmap \cup unmap_list) :
           /\ bmap' = bmap \cup {u}
           /\ unit' = [unit EXCEPT ![v] = u]
           /\ UNCHANGED <<unmap_list, raw, tmap, tmem>>

(* A caller gives back its unit.                                           *)
Releases(v) ==
    /\ \/ bmap' = bmap \ {unit[v]}
       \/ "release" \in Failing /\ bmap' = bmap
    /\ unmap_list' \in {unmap_list, unmap_list \cup ({unit[v]} \cap bmap)}
    /\ unit' = [unit EXCEPT ![v] = NONE]
    /\ UNCHANGED <<raw, tmap, tmem>>

(* The unit of a caller begins its partition.                              *)
Heads(v) ==
    /\ raw' = [raw EXCEPT ![v] = unit[v]]
    /\ unit' = [unit EXCEPT ![v] = NONE]
    /\ tmap' = Empty(tmap, v)
    /\ tmem' = Empty(tmem, v)
    /\ UNCHANGED <<bmap, unmap_list>>

(* The unit of a caller is listed in its segment map.                      *)
Lists(v, t, s) ==
    /\ List(v, t, s, unit[v])
    /\ unit' = [unit EXCEPT ![v] = NONE]
    /\ UNCHANGED <<bmap, unmap_list, raw>>

(* The first metadata segment is listed.                                   *)
ListsSelf(v) ==
    /\ List(v, "META", FirstSlot, SELF)
    /\ UNCHANGED <<bmap, unmap_list, raw, unit>>

(* A caller gets back a unit from a segment that is no longer on disk.     *)
Pulls(v, k) ==
    /\ k \in Segs /\ k[1] = v
    /\ tmap[k] = NONE
    /\ ~tmap_skip_segment(k[2], k[3])
    /\ unit' = [unit EXCEPT ![v] = tmem[k]]
    /\ tmem' = [tmem EXCEPT ![k] = NONE]
    /\ UNCHANGED <<bmap, unmap_list, raw, tmap>>

(* A caller gets back the unit its partition begins with.                  *)
Forgets(v) ==
    /\ Forget(v)
    /\ unit' = [unit EXCEPT ![v] = raw[v]]
    /\ UNCHANGED <<bmap, unmap_list>>

(* A partition has at most the units it had, and nothing else happens.     *)
Shrinks(v) == UnitsOf(v)' \subseteq UnitsOf(v) /\ UNCHANGED <<bmap, unmap_list>>

(* All that a step of a caller does to the units of its partition.         *)
Effect(v) == Takes(v) \/ Releases(v) \/ Shrinks(v)

(* The control variables keep their shape.                                 *)
Control ==
    /\ pc = [v \in Parts |-> pc[v]]
    /\ op = [v \in Parts |-> op[v]]
    /\ typ \in [Parts -> Types]
    /\ at = [v \in Parts |-> at[v]]

(* Dropping references (a restart, the end of a call) breaks nothing.      *)
LEMMA FewerOwned == ASSUME Owned, Control', Fewer PROVE Owned'
  <1> USE NoneFacts DEF Owned
  <1>1. Shape'
    BY DEF Shape, Control, Fewer
  <1>2. OnDisk'
    BY DEF OnDisk, Fewer
  <1>3. Distinct'
    BY SMT DEF Distinct, Fewer, Shape
  <1>4. Marked'
    BY DEF Marked, Fewer, Shape
  <1> QED BY <1>1, <1>2, <1>3, <1>4

(* bint_get_block hands out a unit that nothing refers to.                 *)
LEMMA TakesOwned == ASSUME Owned, Control', NEW v \in Parts, Takes(v) PROVE Owned'
  <1> USE NoneFacts DEF Owned
  <1>0. PICK u \in Units \ (bmap \cup unmap_list) :
            /\ bmap' = bmap \cup {u}
            /\ unit' = [unit EXCEPT ![v] = u]
            /\ UNCHANGED <<unmap_list, raw, tmap, tmem>>
    BY DEF Takes
  <1>1. Shape'
    BY <1>0 DEF Shape, Control
  <1>2. OnDisk'
    BY <1>0 DEF OnDisk
  <1>3. Distinct'
    BY <1>0, SMT DEF Distinct, Shape, Marked
  <1>4. Marked'
    BY <1>0 DEF Marked, Shape
  <1> QED BY <1>1, <1>2, <1>3, <1>4

(* bint_release_block frees a unit that only its caller refers to.         *)
LEMMA ReleasesOwned == ASSUME Owned, Control', NEW v \in Parts, Releases(v) PROVE Owned'
  <1> USE NoneFacts DEF Owned
  <1>1. Shape'
    BY DEF Shape, Control, Releases
  <1>2. OnDisk'
    BY DEF OnDisk, Releases
  <1>3. Distinct'
    BY SMT DEF Distinct, Shape, Releases
  <1>4. Marked'
    BY SMT DEF Marked, Shape, Distinct, Releases
  <1> QED BY <1>1, <1>2, <1>3, <1>4

(* tape_add_partition records the unit that its caller has.                *)
LEMMA HeadsOwned ==
    ASSUME Owned, Control', NEW v \in Parts, Heads(v)
    PROVE  Owned' /\ Shrinks(v)
  <1> USE NoneFacts DEF Owned
  <1>1. Shape'
    BY DEF Shape, Control, Heads, Empty
  <1>2. OnDisk'
    BY DEF OnDisk, Heads, Empty
  <1>3. Distinct'
    BY SMT DEF Distinct, Shape, Heads, Empty
  <1>4. Marked'
    BY DEF Marked, Shape, Heads, Empty
  <1>5. Shrinks(v)
    BY DEF Shrinks, UnitsOf, Shape, Heads, Empty
  <1> QED BY <1>1, <1>2, <1>3, <1>4, <1>5

(* alloc_segment lists the unit that its caller has.                       *)
LEMMA ListsOwned ==
    ASSUME Owned, Control', NEW v \in Parts, NEW t, NEW s, Lists(v, t, s)
    PROVE  Owned' /\ Shrinks(v)
  <1> USE NoneFacts DEF Owned
  <1> DEFINE k == <<v, t, s>>
  <1>0. /\ tmap' = [tmap EXCEPT ![k] = unit[v]]
        /\ tmem' = [tmem EXCEPT ![k] = unit[v]]
        /\ unit' = [unit EXCEPT ![v] = NONE]
        /\ UNCHANGED <<bmap, unmap_list, raw>>
    BY DEF Lists, List
  <1> HIDE DEF k
  <1>1. Shape'
    <2>1. unit[v] \in Units \cup {NONE} /\ unit[v] # SELF
      BY DEF Shape
    <2>2. /\ unit' \in [Parts -> Units \cup {NONE}]
          /\ tmap' \in [Segs -> Units \cup {NONE, SELF}]
          /\ tmem' \in [Segs -> Units \cup {NONE, SELF}]
      BY <1>0, <2>1 DEF Shape
    <2>3. \A l \in Segs : tmem'[l] = SELF => tmem[l] = SELF
      BY <1>0, <2>1 DEF Shape
    <2> QED BY <1>0, <2>2, <2>3 DEF Shape, Control
  <1>2. OnDisk'
    BY <1>0 DEF OnDisk, Shape
  <1>3. Distinct'
    BY <1>0, SMT DEF Distinct, Shape
  <1>4. Marked'
    BY <1>0 DEF Marked, Shape
  <1>5. Shrinks(v)
    BY <1>0 DEF Shrinks, UnitsOf, Shape
  <1> QED BY <1>1, <1>2, <1>3, <1>4, <1>5

(* The first metadata segment is no unit of its own.                       *)
LEMMA ListsSelfOwned ==
    ASSUME Owned, Control', NEW v \in Parts, ListsSelf(v)
    PROVE  Owned' /\ Shrinks(v)
  <1> USE NoneFacts DEF Owned
  <1>1. Shape'
    BY SegFacts DEF Shape, Control, ListsSelf, List, tmap_skip_segment
  <1>2. OnDisk'
    BY SegFacts DEF OnDisk, Shape, ListsSelf, List, tmap_skip_segment
  <1>3. Distinct'
    BY SegFacts, SMT DEF Distinct, Shape, ListsSelf, List, tmap_skip_segment
  <1>4. Marked'
    BY SegFacts DEF Marked, Shape, ListsSelf, List, tmap_skip_segment
  <1>5. Shrinks(v)
    BY DEF Shrinks, UnitsOf, Shape, ListsSelf, List
  <1> QED BY <1>1, <1>2, <1>3, <1>4, <1>5

(* tmap_eod_segments takes over a unit that is off the disk already.       *)
LEMMA PullsOwned ==
    ASSUME Owned, Control', NEW v \in Parts, NEW k, Pulls(v, k)
    PROVE  Owned' /\ Shrinks(v)
  <1> USE NoneFacts DEF Owned
  <1>1. Shape'
    BY SMT DEF Shape, Control, Pulls
  <1>2. OnDisk'
    BY DEF OnDisk, Shape, Pulls
  <1>3. Distinct'
    BY SMT DEF Distinct, Shape, Pulls
  <1>4. Marked'
    BY DEF Marked, Shape, Pulls
  <1>5. Shrinks(v)
    BY DEF Shrinks, UnitsOf, Shape, Pulls
  <1> QED BY <1>1, <1>2, <1>3, <1>4, <1>5

(* free_tmaps_block takes over the first unit of its partition.            *)
LEMMA ForgetsOwned ==
    ASSUME Owned, Control', NEW v \in Parts, Forgets(v)
    PROVE  Owned' /\ Shrinks(v)
  <1> USE NoneFacts DEF Owned
  <1>1. Shape'
    BY DEF Shape, Control, Forgets, Forget, Empty
  <1>2. OnDisk'
    BY DEF OnDisk, Shape, Forgets, Forget, Empty
  <1>3. Distinct'
    BY SMT DEF Distinct, Shape, Forgets, Forget, Empty
  <1>4. Marked'
    BY DEF Marked, Shape, Forgets, Forget, Empty
  <1>5. Shrinks(v)
    BY DEF Shrinks, UnitsOf, Shape, Forgets, Forget, Empty
  <1> QED BY <1>1, <1>2, <1>3, <1>4, <1>5

-----------------------------------------------------------------------------
(* What a step of one caller leaves alone: the other callers.              *)
Frame(v) ==
    \A w \in Parts \ {v} :
        /\ pc'[w] = pc[w] /\ op'[w] = op[w] /\ typ'[w] = typ[w] /\ at'[w] = at[w]
        /\ raw'[w] = raw[w] /\ unit'[w] = unit[w]
        /\ \A k \in Segs : k[1] = w => tmem'[k] = tmem[k] /\ tmap'[k] = tmap[k]

Keeps(v) == Owned' /\ Frame(v) /\ Effect(v) /\ CutFirst(v)' /\ UNCHANGED check

(* The others keep what they are releasing off the disk.                   *)
LEMMA FrameCutFirst ==
    ASSUME Shape, NEW v \in Parts, Frame(v), NEW w \in Parts \ {v}, CutFirst(w)
    PROVE  CutFirst(w)'
  <1> DEFINE t == typ[w]
             s == at[w]
  <1>1. /\ typ'[w] = t /\ at'[w] = s /\ t \in Types
        /\ Releasing(w)' = Releasing(w)
    BY DEF Frame, Shape, Releasing
  <1>2. \A q \in Slots(t) : /\ tmem'[<<w, t, q>>] = tmem[<<w, t, q>>]
                            /\ tmap'[<<w, t, q>>] = tmap[<<w, t, q>>]
    BY <1>1, SegFacts DEF Frame
  <1>3. SegmentsFrom(w, t, s)' = SegmentsFrom(w, t, s)
    BY <1>1, <1>2 DEF SegmentsFrom
  <1>4. SegmentsFrom(w, t, s) \subseteq Slots(t)
    BY DEF SegmentsFrom
  <1> QED BY <1>1, <1>2, <1>3, <1>4 DEF CutFirst

(* A step that changes no reference but the caller's own.                  *)
LEMMA QuietFewer ==
    ASSUME Shape, OnDisk, NEW v \in Parts,
           UNCHANGED <<bmap, unmap_list, raw, tmap, tmem>>,
           unit' = unit \/ unit' = [unit EXCEPT ![v] = NONE]
    PROVE  Fewer /\ Shrinks(v)
  <1>1. Fewer
    BY DEF Shape, OnDisk, Fewer
  <1>2. unit'[v] \in {unit[v], NONE}
    BY DEF Shape
  <1>3. UnitsOf(v)' \subseteq UnitsOf(v)
    BY <1>2, NoneFacts DEF UnitsOf
  <1> QED BY <1>1, <1>3 DEF Shrinks

(* A step of the disks, which leaves the segments as they are.             *)
LEMMA Moves ==
    ASSUME Shape, NEW v \in Parts, CutFirst(v), NEW l, Goto(v, l), UNCHANGED segvars,
           unit' = unit \/ \E u : unit' = [unit EXCEPT ![v] = u],
           \/ l \in {"none", "lock", "unlist", "eligible", "scan", "wait", "got"}
           \/ pc[v] = "drop" /\ l = "relist"
           \/ pc[v] = "relist" /\ l = "dropped"
    PROVE  Control' /\ Frame(v) /\ CutFirst(v)'
  <1>1. Control'
    BY DEF Shape, Control, Goto, segvars
  <1>2. Frame(v)
    BY DEF Shape, Frame, Goto, segvars
  <1>3. SegmentsFrom(v, typ[v], at[v])' = SegmentsFrom(v, typ[v], at[v])
    BY DEF SegmentsFrom, segvars
  <1>4. pc'[v] = l
    BY DEF Goto, Shape
  <1>5. Releasing(v)' => Releasing(v)
    BY <1>4 DEF segvars, Releasing
  <1>6. CutFirst(v)'
    BY <1>3, <1>5 DEF CutFirst, segvars
  <1> QED BY <1>1, <1>2, <1>6

(***************************************************************************)
(* bdev_get_block and bdev_release_block.                                  *)
(***************************************************************************)
LEMMA TakeKeeps ==
    ASSUME Owned, NEW v \in Parts, CutFirst(v), NEW u, u \notin bmap, u \notin unmap_list,
           Take(v, u), UNCHANGED segvars, pc[v] \in {"scan", "wait"}
    PROVE  Keeps(v)
  <1>1. CASE NextIndex(v)
    <2>1. Control' /\ Frame(v) /\ CutFirst(v)'
      BY <1>1, Moves DEF NextIndex, Owned
    <2>2. Fewer /\ Shrinks(v)
      BY <1>1, QuietFewer DEF NextIndex, diskvars, segvars, Owned
    <2> QED BY <2>1, <2>2, FewerOwned DEF Keeps, Effect, segvars
  <1>2. CASE /\ u \in Units
             /\ bmap' = bmap \cup {u}
             /\ Return(v, "got", u)
             /\ UNCHANGED unmap_list
    <2>1. Control' /\ Frame(v) /\ CutFirst(v)'
      BY <1>2, Moves DEF Return, Owned
    <2>2. Takes(v)
      BY <1>2 DEF Return, Takes, segvars
    <2> QED BY <2>1, <2>2, TakesOwned DEF Keeps, Effect, segvars
  <1> QED BY <1>1, <1>2 DEF Take

(* Every step of bdev_get_block and bdev_release_block.                    *)
LEMMA BlockDeviceKeeps ==
    ASSUME Owned, NEW v \in Parts, CutFirst(v), BlockDeviceStep(v), UNCHANGED segvars
    PROVE  Keeps(v)
  <1> USE DEF Owned
  <1>q. ASSUME Control', Fewer, Shrinks(v), Frame(v), CutFirst(v)'
        PROVE  Keeps(v)
    BY <1>q, FewerOwned DEF Keeps, Effect, segvars
  <1>1. CASE bint_get_eligible(v)
    <2> DEFINE d == IF pc[v] = "get"
                    THEN IF eligible # NONE THEN eligible
                         ELSE IF alloc_list # <<>> THEN Head(alloc_list) ELSE NONE
                    ELSE disk[v]
    <2>1. EligibleIs(v, d) /\ UNCHANGED diskvars
      BY <1>1 DEF bint_get_eligible
    <2> HIDE DEF d
    <2>2. /\ Goto(v, "none") \/ Goto(v, "lock") \/ Goto(v, "unlist")
          /\ unit' = unit \/ unit' = [unit EXCEPT ![v] = NONE]
      BY <2>1 DEF EligibleIs, Return
    <2>3. Fewer /\ Shrinks(v)
      BY <2>1, <2>2, QuietFewer DEF diskvars, segvars
    <2>4. Control' /\ Frame(v) /\ CutFirst(v)'
      BY <2>2, Moves
    <2> QED BY <1>q, <2>3, <2>4
  <1>2. CASE bdev_remove_from_alloc_list(v)
    <2>1. Fewer /\ Shrinks(v)
      BY <1>2, QuietFewer DEF bdev_remove_from_alloc_list, diskvars, segvars
    <2>2. Control' /\ Frame(v) /\ CutFirst(v)'
      BY <1>2, Moves DEF bdev_remove_from_alloc_list, Owned
    <2> QED BY <1>q, <2>1, <2>2
  <1>3. CASE bint_get_block_lock(v)
    <2>1. Fewer /\ Shrinks(v)
      BY <1>3, QuietFewer DEF bint_get_block_lock, diskvars, segvars
    <2>2. Control' /\ Frame(v) /\ CutFirst(v)'
      BY <1>3, Moves DEF bint_get_block_lock, Owned
    <2> QED BY <1>q, <2>1, <2>2
  <1>4. CASE bint_get_block(v)
    <2>1. ASSUME NEW u \in Clear(v) \ unmap_list, Take(v, u) PROVE Keeps(v)
      BY <1>4, <2>1, TakeKeeps DEF Clear, bint_get_block
    <2>2. CASE Goto(v, "wait") /\ UNCHANGED <<poolvars, diskvars, bint_lock, disk, page, unit>>
      <3>1. Fewer /\ Shrinks(v)
        BY <2>2, QuietFewer DEF diskvars, segvars
      <3>2. Control' /\ Frame(v) /\ CutFirst(v)'
        BY <2>2, Moves
      <3> QED BY <1>q, <3>1, <3>2
    <2>3. CASE NextIndex(v)
      <3>1. Fewer /\ Shrinks(v)
        BY <2>3, QuietFewer DEF NextIndex, diskvars, segvars
      <3>2. Control' /\ Frame(v) /\ CutFirst(v)'
        BY <2>3, Moves DEF NextIndex, Owned
      <3> QED BY <1>q, <3>1, <3>2
    <2> QED BY <1>4, <2>1, <2>2, <2>3 DEF bint_get_block
  <1>5. CASE bint_index_unmap_done(v)
    <2>1. PICK u \in Clear(v) : u \notin unmap_list /\ Take(v, u)
      BY <1>5 DEF bint_index_unmap_done
    <2> QED BY <1>5, <2>1, TakeKeeps DEF Clear, bint_index_unmap_done
  <1>6. CASE bint_get_block_fails(v)
    <2>1. Fewer /\ Shrinks(v)
      BY <1>6, QuietFewer DEF bint_get_block_fails, Return, diskvars, segvars
    <2>2. Control' /\ Frame(v) /\ CutFirst(v)'
      BY <1>6, Moves DEF bint_get_block_fails, Return, Owned
    <2> QED BY <1>q, <2>1, <2>2
  <1>7. CASE bint_release_block(v)
    <2>1. Releases(v)
      BY <1>7 DEF bint_release_block, Releases, segvars
    <2>2. Control' /\ Frame(v) /\ CutFirst(v)'
      BY <1>7, Moves DEF bint_release_block
    <2> QED BY <2>1, <2>2, ReleasesOwned DEF Keeps, Effect, segvars
  <1>8. CASE bdev_alloc_list_insert(v)
    <2>1. Fewer /\ Shrinks(v)
      BY <1>8, QuietFewer DEF bdev_alloc_list_insert, Return, diskvars, segvars
    <2>2. Control' /\ Frame(v) /\ CutFirst(v)'
      BY <1>8, Moves DEF bdev_alloc_list_insert, Return
    <2> QED BY <1>q, <2>1, <2>2
  <1> QED BY <1>1, <1>2, <1>3, <1>4, <1>5, <1>6, <1>7, <1>8 DEF BlockDeviceStep

-----------------------------------------------------------------------------
(* The steps of an operation on segments.                                  *)

(* Only the variables of one caller change.                                *)
Acts(v) ==
    /\ \E l : pc' = [pc EXCEPT ![v] = l]
    /\ op' = op \/ \E o : op' = [op EXCEPT ![v] = o]
    /\ typ' = typ \/ \E t \in Types : typ' = [typ EXCEPT ![v] = t]
    /\ at' = at \/ \E s : at' = [at EXCEPT ![v] = s]
    /\ raw' = raw \/ \E u : raw' = [raw EXCEPT ![v] = u]
    /\ unit' = unit \/ \E u : unit' = [unit EXCEPT ![v] = u]
    /\ \A k \in Segs : k[1] # v => tmem'[k] = tmem[k] /\ tmap'[k] = tmap[k]

(* Such a step leaves the other callers alone.                             *)
LEMMA ActsFrame == ASSUME Shape, NEW v \in Parts, Acts(v) PROVE Control' /\ Frame(v)
  <1> USE DEF Shape, Acts
  <1>1. pc' = [w \in Parts |-> pc'[w]] /\ \A w \in Parts \ {v} : pc'[w] = pc[w]
    OBVIOUS
  <1>2. op' = [w \in Parts |-> op'[w]] /\ \A w \in Parts \ {v} : op'[w] = op[w]
    OBVIOUS
  <1>3. typ' \in [Parts -> Types] /\ \A w \in Parts \ {v} : typ'[w] = typ[w]
    BY SMT
  <1>4. at' = [w \in Parts |-> at'[w]] /\ \A w \in Parts \ {v} : at'[w] = at[w]
    OBVIOUS
  <1>5. \A w \in Parts \ {v} : raw'[w] = raw[w] /\ unit'[w] = unit[w]
    OBVIOUS
  <1> QED BY <1>1, <1>2, <1>3, <1>4, <1>5 DEF Control, Frame

(* The two types of segments.                                              *)
LEMMA TypesFacts == "META" \in Types /\ "DATA" \in Types
  BY DEF Types

(* The end of an operation.                                                *)
LEMMA Ends ==
    ASSUME Owned, NEW v \in Parts, End(v), UNCHANGED <<raw, tmap, tmem, check>>
    PROVE  Keeps(v)
  <1> USE DEF Owned
  <1>1. Acts(v)
    BY TypesFacts DEF Acts, End, Begin, Return, Goto
  <1>2. Fewer /\ Shrinks(v)
    BY QuietFewer DEF End, Return, devvars, diskvars
  <1>3. CutFirst(v)'
    BY DEF CutFirst, Releasing, End, Return, Goto, Shape
  <1> QED BY <1>1, <1>2, <1>3, ActsFrame, FewerOwned DEF Keeps, Effect

(* The beginning of an operation, or of its next part.                     *)
LEMMA Begins ==
    ASSUME Owned, NEW v \in Parts, NEW o, NEW t \in Types, NEW s, NEW l,
           l \in {"idle", "get", "cut", "unhead", "dead"},
           Begin(v, o, t, s), Continue(v, l), UNCHANGED <<raw, tmap, tmem, check>>
    PROVE  Keeps(v)
  <1> USE DEF Owned
  <1>1. Acts(v)
    BY DEF Acts, Begin, Continue, Goto
  <1>2. Fewer /\ Shrinks(v)
    BY QuietFewer DEF Continue, devvars, diskvars
  <1>3. CutFirst(v)'
    BY DEF CutFirst, Releasing, Continue, Goto, Shape
  <1> QED BY <1>1, <1>2, <1>3, ActsFrame, FewerOwned DEF Keeps, Effect

(* A unit that could not be recorded is given back.                        *)
LEMMA GivesBack ==
    ASSUME Owned, NEW v \in Parts, op[v] \notin {"tail", "all"}, Continue(v, "drop"),
           UNCHANGED segvars
    PROVE  Keeps(v)
  <1> USE DEF Owned
  <1>1. Acts(v)
    BY DEF Acts, Continue, Goto, segvars
  <1>2. Fewer /\ Shrinks(v)
    BY QuietFewer DEF Continue, devvars, diskvars, segvars
  <1>3. CutFirst(v)'
    BY DEF CutFirst, Releasing, Continue, Goto, Shape, segvars
  <1> QED BY <1>1, <1>2, <1>3, ActsFrame, FewerOwned DEF Keeps, Effect, segvars

(* What follows the last page of a segment map.                            *)
LEMMA EodEndKeeps ==
    ASSUME Owned, NEW v \in Parts, eod_segments_end(v), UNCHANGED <<raw, tmap, tmem, check>>
    PROVE  Keeps(v)
  <1>1. ASSUME NEW o, NEW t \in Types, NEW s, eod_segments(v, o, t, s)
        PROVE  Keeps(v)
    BY <1>1, Begins DEF eod_segments
  <1>2. ASSUME Begin(v, "all", "DATA", FirstSlot), Continue(v, "unhead")
        PROVE  Keeps(v)
    BY <1>2, TypesFacts, Begins
  <1> QED BY <1>1, <1>2, Ends, TypesFacts DEF eod_segments_end

(* tape_add_partition, with its failing writes.                            *)
LEMMA AddPartitionKeeps ==
    ASSUME Owned, NEW v \in Parts, tape_add_partition(v)
    PROVE  Keeps(v)
  <1> USE DEF Owned
  <1>1. CASE /\ raw' = [raw EXCEPT ![v] = unit[v]]
             /\ tmap' = Empty(tmap, v)
             /\ tmem' = Empty(tmem, v)
             /\ End(v)
    <2>1. Acts(v)
      BY <1>1, TypesFacts DEF Acts, End, Begin, Return, Goto, Empty
    <2>2. Heads(v)
      BY <1>1 DEF Heads, End, Return, devvars, diskvars
    <2>3. CutFirst(v)'
      BY <1>1 DEF CutFirst, Releasing, End, Return, Goto, Shape
    <2> QED BY <2>1, <2>2, <2>3, ActsFrame, HeadsOwned DEF Keeps, Effect, tape_add_partition
  <1>2. CASE /\ Continue(v, "drop")
             /\ UNCHANGED <<raw, tmap, tmem, op, typ, at, done>>
    BY <1>2, GivesBack DEF tape_add_partition, segvars
  <1>3. CASE End(v) /\ UNCHANGED <<raw, tmap, tmem>>
    BY <1>3, Ends DEF tape_add_partition
  <1> QED BY <1>1, <1>2, <1>3 DEF tape_add_partition

(* alloc_segment lists its unit, or gives it back.                         *)
LEMMA TmapWriteKeeps ==
    ASSUME Owned, NEW v \in Parts, tmap_write(v)
    PROVE  Keeps(v)
  <1> USE DEF Owned
  <1>1. CASE List(v, typ[v], at[v], unit[v]) /\ End(v)
    <2>1. Acts(v)
      <3>1. ASSUME NEW k \in Segs, k[1] # v
            PROVE  tmem'[k] = tmem[k] /\ tmap'[k] = tmap[k]
        <4>1. k # <<v, typ[v], at[v]>>
          BY <3>1, SMT
        <4> QED BY <1>1, <4>1 DEF List, Shape
      <3> QED BY <1>1, <3>1, TypesFacts DEF Acts, tmap_write, End, Begin, Return, Goto
    <2>2. Lists(v, typ[v], at[v])
      BY <1>1 DEF Lists, End, Return, devvars, diskvars, tmap_write
    <2>3. CutFirst(v)'
      BY <1>1 DEF CutFirst, Releasing, End, Return, Goto, Shape
    <2> QED BY <2>1, <2>2, <2>3, ActsFrame, ListsOwned DEF Keeps, Effect, tmap_write
  <1>2. CASE Continue(v, "drop") /\ UNCHANGED <<tmap, tmem, op, typ, at, done>>
    BY <1>2, GivesBack DEF tmap_write, segvars
  <1> QED BY <1>1, <1>2 DEF tmap_write

(* alloc_segment begins.                                                   *)
LEMMA AllocSegmentKeeps ==
    ASSUME Owned, NEW v \in Parts, NEW t \in Types, tape_partition_alloc_segment(v, t)
    PROVE  Keeps(v)
  <1> USE DEF Owned
  <1>1. PICK s \in Slots(t) :
            \/ /\ tmap_skip_segment(t, s)
               /\ List(v, t, s, SELF)
               /\ UNCHANGED <<bdevvars, op, typ, at, done>>
            \/ /\ Begin(v, "alloc", t, s)
               /\ Continue(v, "get")
               /\ UNCHANGED <<tmap, tmem>>
    BY DEF tape_partition_alloc_segment
  <1>2. CASE /\ tmap_skip_segment(t, s)
             /\ List(v, t, s, SELF)
             /\ UNCHANGED <<bdevvars, op, typ, at, done>>
    <2>1. t = "META" /\ s = FirstSlot
      BY <1>2 DEF tmap_skip_segment
    <2>2. ListsSelf(v)
      BY <1>2, <2>1 DEF ListsSelf, bdevvars, diskvars, tape_partition_alloc_segment
    <2>3. Acts(v)
      <3>1. ASSUME NEW k \in Segs, k[1] # v
            PROVE  tmem'[k] = tmem[k] /\ tmap'[k] = tmap[k]
        <4>1. k # <<v, t, s>>
          BY <3>1, SMT
        <4> QED BY <1>2, <4>1 DEF List, Shape
      <3>2. pc' = [pc EXCEPT ![v] = pc[v]]
        BY <1>2 DEF bdevvars, Shape
      <3> QED BY <1>2, <3>1, <3>2 DEF Acts, bdevvars, tape_partition_alloc_segment
    <2>4. CutFirst(v)'
      <3>1. pc'[v] = "idle"
        BY <1>2 DEF tape_partition_alloc_segment, Idle, bdevvars
      <3> QED BY <3>1 DEF CutFirst, Releasing
    <2> QED BY <2>2, <2>3, <2>4, ActsFrame, ListsSelfOwned DEF Keeps, Effect, tape_partition_alloc_segment
  <1>3. CASE Begin(v, "alloc", t, s) /\ Continue(v, "get") /\ UNCHANGED <<tmap, tmem>>
    BY <1>3, Begins DEF tape_partition_alloc_segment
  <1> QED BY <1>1, <1>2, <1>3

(* tmap_eod_segments writes a page without its units.                      *)
LEMMA EodSegmentsKeeps ==
    ASSUME Owned, NEW v \in Parts, tmap_eod_segments(v)
    PROVE  Keeps(v)
  <1> USE DEF Owned
  <1>1. CASE /\ tmap' = [k \in Segs |->
                            IF k[1] = v /\ k[2] = typ[v] /\ k[3] \in SegmentsFrom(v, typ[v], at[v])
                            THEN NONE ELSE tmap[k]]
             /\ Continue(v, "release")
             /\ UNCHANGED <<op, typ, at, done>>
    <2>1. UNCHANGED <<raw, tmem, check>>
      BY DEF tmap_eod_segments
    <2>2. Acts(v)
      BY <1>1, <2>1 DEF Acts, Continue, Goto
    <2>3. Fewer
      BY <1>1, <2>1 DEF Fewer, Continue, devvars, diskvars, Shape, OnDisk
    <2>5. Shrinks(v)
      BY <1>1, <2>1 DEF Shrinks, UnitsOf, Continue, devvars, diskvars
    <2>4. CutFirst(v)'
      <3>1. SegmentsFrom(v, typ[v], at[v])' = SegmentsFrom(v, typ[v], at[v])
        BY <1>1, <2>1 DEF SegmentsFrom
      <3>2. ASSUME NEW r \in SegmentsFrom(v, typ[v], at[v])
            PROVE  tmap'[<<v, typ[v], r>>] = NONE
        <4>1. r \in Slots(typ[v]) /\ typ[v] \in Types
          BY <3>2 DEF SegmentsFrom, Shape
        <4>2. <<v, typ[v], r>> \in Segs
          BY <4>1, SegFacts
        <4> QED BY <1>1, <3>2, <4>2
      <3> QED BY <1>1, <3>1, <3>2 DEF CutFirst
    <2> QED BY <2>1, <2>2, <2>3, <2>4, <2>5, ActsFrame, FewerOwned DEF Keeps, Effect
  <1>2. CASE eod_segments_end(v) /\ UNCHANGED tmap
    BY <1>2, EodEndKeeps DEF tmap_eod_segments
  <1> QED BY <1>1, <1>2 DEF tmap_eod_segments

(* What is left to release after a segment.                                *)
LEMMA NextFrom ==
    ASSUME NEW v \in Parts, NEW t \in Types, NEW s \in Slots(t), tmem[<<v, t, s>>] # NONE,
           \A q \in Slots(t) : q # s => tmem'[<<v, t, q>>] = tmem[<<v, t, q>>],
           NEW r \in SegmentsFrom(v, t, <<s[1], s[2] + 1>>)'
    PROVE  r \in SegmentsFrom(v, t, s)
  <1>1. s[1] \in Nat /\ s[2] \in Nat /\ s = <<s[1], s[2]>>
    BY MapsAssumption, SMT DEF Slots, tape_partition_get_max_tmaps
  <1>2. /\ r \in Slots(t) /\ r[1] = s[1] /\ r[2] >= s[2] + 1
        /\ ~tmap_skip_segment(t, r)
        /\ \A q \in Slots(t) : (q[1] = s[1] /\ s[2] + 1 <= q[2] /\ q[2] <= r[2])
                                   => tmem'[<<v, t, q>>] # NONE
    BY DEF SegmentsFrom
  <1>3. \A q \in Slots(t) : q[2] \in Nat /\ q = <<q[1], q[2]>>
    BY MapsAssumption, SMT DEF Slots, tape_partition_get_max_tmaps
  <1>4. ASSUME NEW q \in Slots(t), q[1] = s[1], s[2] <= q[2], q[2] <= r[2]
        PROVE  tmem[<<v, t, q>>] # NONE
    <2>1. CASE q = s
      BY <2>1
    <2>2. CASE q # s
      <3>1. q[2] # s[2]
        BY <1>1, <1>3, <1>4, <2>2
      <3> QED BY <1>1, <1>2, <1>3, <1>4, <2>2, <3>1, SMT
    <2> QED BY <2>1, <2>2
  <1> QED BY <1>1, <1>2, <1>3, <1>4, SMT DEF SegmentsFrom

(* tmap_eod_segments goes on to its next unit.                             *)
LEMMA ReleaseSegmentKeeps ==
    ASSUME Owned, NEW v \in Parts, CutFirst(v), ReleaseSegment(v)
    PROVE  Keeps(v)
  <1> USE DEF Owned
  <1>0. PICK t, s : t = typ[v] /\ s = at[v]
    OBVIOUS
  <1> DEFINE k == <<v, t, s>>
  <1>1. pc[v] = "release" /\ t \in Types /\ UNCHANGED <<raw, tmap, check>>
    BY <1>0 DEF ReleaseSegment, Shape
  <1>2. \A r \in SegmentsFrom(v, t, s) : tmap[<<v, t, r>>] = NONE
    BY <1>0, <1>1 DEF CutFirst, Releasing
  <1>3. ASSUME s \in Slots(t), tmem[k] # NONE, at' = [at EXCEPT ![v] = <<s[1], s[2] + 1>>],
               UNCHANGED <<op, typ>>,
               \A q \in Slots(t) : q # s => tmem'[<<v, t, q>>] = tmem[<<v, t, q>>]
        PROVE  CutFirst(v)'
    <2>1. at'[v] = <<s[1], s[2] + 1>> /\ typ'[v] = t
      BY <1>0, <1>3 DEF Shape
    <2>2. ASSUME NEW r \in SegmentsFrom(v, t, <<s[1], s[2] + 1>>)'
          PROVE  tmap'[<<v, t, r>>] = NONE
      <3>1. r \in SegmentsFrom(v, t, s)
        BY <1>1, <1>3, <2>2, NextFrom
      <3> QED BY <1>1, <1>2, <3>1
    <2>3. SegmentsFrom(v, typ[v], at[v])' = SegmentsFrom(v, t, <<s[1], s[2] + 1>>)'
      BY <2>1 DEF SegmentsFrom
    <2> QED BY <2>1, <2>2, <2>3 DEF CutFirst
  <1>4. CASE /\ s \in Slots(t) /\ tmem[k] # NONE
             /\ at' = [at EXCEPT ![v] = <<s[1], s[2] + 1>>]
             /\ UNCHANGED <<bdevvars, tmem, op, typ>>
    <2>1. Acts(v)
      <3>1. pc' = [pc EXCEPT ![v] = pc[v]]
        BY <1>4 DEF bdevvars, Shape
      <3> QED BY <1>1, <1>4, <3>1 DEF Acts, bdevvars
    <2>2. Fewer /\ Shrinks(v)
      BY <1>1, <1>4, QuietFewer DEF bdevvars, diskvars
    <2>3. CutFirst(v)'
      BY <1>3, <1>4
    <2> QED BY <1>1, <2>1, <2>2, <2>3, ActsFrame, FewerOwned DEF Keeps, Effect
  <1>5. CASE /\ s \in Slots(t) /\ tmem[k] # NONE
             /\ at' = [at EXCEPT ![v] = <<s[1], s[2] + 1>>]
             /\ ~tmap_skip_segment(t, s)
             /\ tmem' = [tmem EXCEPT ![k] = NONE]
             /\ Drop(v, tmem[k])
             /\ UNCHANGED <<op, typ>>
    <2>1. k \in Segs
      BY <1>1, <1>5, SegFacts
    <2>2. \A l \in Segs : l # k => tmem'[l] = tmem[l]
      BY <1>5 DEF Shape
    <2>3. Acts(v)
      <3>1. \A l \in Segs : l[1] # v => l # k
        BY SMT
      <3> QED BY <1>1, <1>5, <2>2, <3>1 DEF Acts, Drop, Goto
    <2>4. s \in SegmentsFrom(v, t, s)
      <3>1. /\ s[2] \in Nat
            /\ \A q \in Slots(t) : q[2] \in Nat /\ q = <<q[1], q[2]>>
        BY <1>5, MapsAssumption, SMT DEF Slots, tape_partition_get_max_tmaps
      <3>2. ASSUME NEW q \in Slots(t), q[1] = s[1], s[2] <= q[2], q[2] <= s[2]
            PROVE  q = s
        <4>1. q[2] = s[2]
          BY <3>1, <3>2, SMT
        <4> QED BY <1>5, <3>1, <3>2, <4>1
      <3> QED BY <1>5, <3>1, <3>2, SMT DEF SegmentsFrom
    <2>5. Pulls(v, k)
      BY <1>1, <1>2, <1>5, <2>1, <2>4 DEF Pulls, Drop, devvars, diskvars
    <2>6. CutFirst(v)'
      <3>1. \A q \in Slots(t) : q # s => tmem'[<<v, t, q>>] = tmem[<<v, t, q>>]
        BY <1>1, <2>2, SegFacts
      <3> QED BY <1>3, <1>5, <3>1
    <2> QED BY <1>1, <2>3, <2>5, <2>6, ActsFrame, PullsOwned DEF Keeps, Effect
  <1>6. CASE eod_segments(v, op[v], t, <<s[1] + 1, 0>>) /\ UNCHANGED tmem
    BY <1>1, <1>6, Begins DEF eod_segments
  <1>7. CASE eod_segments_end(v) /\ UNCHANGED tmem
    BY <1>1, <1>7, EodEndKeeps
  <1> QED BY <1>0, <1>4, <1>5, <1>6, <1>7 DEF ReleaseSegment

(* A released unit, and what its caller does next.                         *)
LEMMA ReleasedKeeps ==
    ASSUME Owned, NEW v \in Parts, CutFirst(v), Released(v)
    PROVE  Keeps(v)
  <1> USE DEF Owned
  <1>1. CASE End(v)
    BY <1>1, Ends DEF Released
  <1>2. CASE op[v] \in {"tail", "all"} /\ Continue(v, "release") /\ UNCHANGED <<op, typ, at, done>>
    <2>1. UNCHANGED segvars /\ pc[v] = "dropped"
      BY <1>2 DEF Released, segvars
    <2>2. Acts(v)
      BY <1>2, <2>1 DEF Acts, Continue, Goto, segvars
    <2>3. Fewer /\ Shrinks(v)
      BY <1>2, <2>1, QuietFewer DEF Continue, devvars, diskvars, segvars
    <2>4. CutFirst(v)'
      <3>1. SegmentsFrom(v, typ[v], at[v])' = SegmentsFrom(v, typ[v], at[v])
        BY <2>1 DEF SegmentsFrom, segvars
      <3>2. Releasing(v)
        BY <1>2, <2>1 DEF Releasing
      <3> QED BY <2>1, <3>1, <3>2 DEF CutFirst, segvars
    <2> QED BY <2>1, <2>2, <2>3, <2>4, ActsFrame, FewerOwned DEF Keeps, Effect, segvars
  <1> QED BY <1>1, <1>2 DEF Released

(* free_tmaps_block, with its failing writes.                              *)
LEMMA FreeTmapsBlockKeeps ==
    ASSUME Owned, NEW v \in Parts, tape_partition_free_tmaps_block(v)
    PROVE  Keeps(v)
  <1> USE DEF Owned
  <1>1. CASE Forget(v) /\ Begin(v, "gone", "META", FirstSlot) /\ Drop(v, raw[v])
    <2>1. Acts(v)
      BY <1>1, TypesFacts DEF Acts, Forget, Empty, Begin, Drop, Goto
    <2>2. Forgets(v)
      BY <1>1 DEF Forgets, Drop, devvars, diskvars
    <2>3. CutFirst(v)'
      BY <1>1 DEF CutFirst, Releasing, Drop, Goto, Begin, Shape
    <2> QED BY <2>1, <2>2, <2>3, ActsFrame, ForgetsOwned DEF Keeps, Effect, tape_partition_free_tmaps_block
  <1>2. CASE Forget(v) /\ End(v)
    <2>1. Acts(v)
      BY <1>2, TypesFacts DEF Acts, Forget, Empty, End, Begin, Return, Goto
    <2>2. Fewer
      BY <1>2 DEF Fewer, Forget, Empty, End, Return, devvars, diskvars, Shape, OnDisk
    <2>4. Shrinks(v)
      BY <1>2, NoneFacts DEF Shrinks, UnitsOf, Forget, Empty, End, Return, devvars, diskvars, Shape
    <2>3. CutFirst(v)'
      BY <1>2 DEF CutFirst, Releasing, End, Return, Goto, Shape
    <2> QED BY <2>1, <2>2, <2>3, <2>4, ActsFrame, FewerOwned DEF Keeps, Effect, tape_partition_free_tmaps_block
  <1>3. ASSUME NEW l \in {"idle", "dead"}, Begin(v, NONE, "META", FirstSlot), Continue(v, l),
               UNCHANGED <<raw, tmap, tmem>>
        PROVE  Keeps(v)
    BY <1>3, Begins, TypesFacts DEF tape_partition_free_tmaps_block
  <1> QED BY <1>1, <1>2, <1>3 DEF tape_partition_free_tmaps_block

(* Every step of a caller, none of which happens during a disk check.      *)
LEMMA CallerKeeps ==
    ASSUME IInv, NEW v \in Parts, Step(v) \/ Start(v)
    PROVE  Keeps(v) /\ check = NONE
  <1> USE DEF IInv
  <1>1. CutFirst(v)
    OBVIOUS
  <1>2. CASE Step(v)
    <2>1. pc[v] # "idle"
      BY <1>2 DEF Step, BlockDeviceStep, bint_get_eligible, bdev_remove_from_alloc_list,
                  bint_get_block_lock, bint_get_block, bint_index_unmap_done,
                  bint_get_block_fails, bint_release_block, bdev_alloc_list_insert,
                  tape_add_partition, tmap_write, NoUnit, tmap_eod_segments, ReleaseSegment,
                  Released, tape_partition_free_tmaps_block
    <2>2. check = NONE
      BY <2>1 DEF Checking
    <2>3. NoUnit(v) => Keeps(v)
      BY Ends DEF NoUnit
    <2> QED BY <1>1, <1>2, <2>2, <2>3, BlockDeviceKeeps, AddPartitionKeeps, TmapWriteKeeps,
               EodSegmentsKeeps, ReleaseSegmentKeeps, ReleasedKeeps, FreeTmapsBlockKeeps DEF Step
  <1>3. CASE Start(v)
    <2>1. CASE tape_partition_new(v)
      BY <2>1, Begins, TypesFacts DEF tape_partition_new, Idle
    <2>2. ASSUME NEW t \in Types, tape_partition_alloc_segment(v, t)
          PROVE  Keeps(v) /\ check = NONE
      BY <2>2, AllocSegmentKeeps DEF tape_partition_alloc_segment, Idle
    <2>3. CASE tape_partition_write_eod(v)
      BY <2>3, Begins, TypesFacts DEF tape_partition_write_eod, eod_segments, Idle
    <2>4. CASE tape_partition_free_alloc(v)
      BY <2>4, Begins, TypesFacts DEF tape_partition_free_alloc, eod_segments, Idle
    <2> QED BY <1>3, <2>1, <2>2, <2>3, <2>4 DEF Start
  <1> QED BY <1>2, <1>3

(* Nobody begins to look for a unit with one in hand.                      *)
LEMMA CallerHolds ==
    ASSUME Shape, NEW v \in Parts, Holding(v), Step(v) \/ Start(v)
    PROVE  Holding(v)'
  <1> USE DEF Shape, Holding
  <1>1. ASSUME NEW l, Continue(v, l), l = "drop" \/ pc[v] \notin {"got", "drop"}
        PROVE  Holding(v)'
    BY <1>1 DEF Continue, Goto
  <1>2. ASSUME NEW l, NEW u, Return(v, l, u), u = NONE \/ l = "got"
        PROVE  Holding(v)'
    BY <1>2 DEF Return, Goto
  <1>3. ASSUME NEW l, Goto(v, l), UNCHANGED unit, pc[v] \notin {"got", "drop"}
        PROVE  Holding(v)'
    BY <1>3 DEF Goto
  <1>4. ASSUME NEW u, Take(v, u), pc[v] \in {"scan", "wait"} PROVE Holding(v)'
    BY <1>2, <1>3, <1>4 DEF Take, NextIndex
  <1>5. CASE BlockDeviceStep(v)
    <2>1. bint_get_eligible(v) => Holding(v)'
      BY <1>2, <1>3 DEF bint_get_eligible, EligibleIs
    <2>2. bint_get_block(v) \/ bint_index_unmap_done(v) => Holding(v)'
      BY <1>3, <1>4 DEF bint_get_block, bint_index_unmap_done, NextIndex
    <2>3. bint_release_block(v) => Holding(v)'
      BY DEF bint_release_block
    <2>4. bdev_remove_from_alloc_list(v) \/ bint_get_block_lock(v) => Holding(v)'
      BY <1>3 DEF bdev_remove_from_alloc_list, bint_get_block_lock
    <2>5. bint_get_block_fails(v) \/ bdev_alloc_list_insert(v) => Holding(v)'
      BY <1>2 DEF bint_get_block_fails, bdev_alloc_list_insert
    <2> QED BY <1>5, <2>1, <2>2, <2>3, <2>4, <2>5 DEF BlockDeviceStep
  <1>6. ASSUME eod_segments_end(v), pc[v] \notin {"got", "drop"} PROVE Holding(v)'
    BY <1>1, <1>2, <1>6 DEF eod_segments_end, eod_segments, End
  <1>7. tape_add_partition(v) \/ tmap_write(v) \/ NoUnit(v) => Holding(v)'
    BY <1>1, <1>2 DEF tape_add_partition, tmap_write, NoUnit, End
  <1>8. tmap_eod_segments(v) \/ Released(v) => Holding(v)'
    BY <1>1, <1>2, <1>6 DEF tmap_eod_segments, Released, End
  <1>9. ASSUME NEW u, Drop(v, u) PROVE Holding(v)'
    BY <1>9 DEF Drop, Goto
  <1>10. ReleaseSegment(v) => Holding(v)'
    BY <1>1, <1>6, <1>9 DEF ReleaseSegment, eod_segments, bdevvars
  <1>11. tape_partition_free_tmaps_block(v) => Holding(v)'
    BY <1>1, <1>2, <1>9 DEF tape_partition_free_tmaps_block, End
  <1>12. Start(v) => Holding(v)'
    BY <1>1 DEF Start, Idle, tape_partition_new, tape_partition_alloc_segment,
                tape_partition_write_eod, tape_partition_free_alloc, eod_segments, bdevvars
  <1> QED BY <1>5, <1>7, <1>8, <1>10, <1>11, <1>12 DEF Step

-----------------------------------------------------------------------------
(* The remaining steps, and the invariant.                                 *)

(* So the steps of callers keep the invariant,                             *)
LEMMA CallerKeepsInv ==
    ASSUME IInv, NEW v \in Parts, Step(v) \/ Start(v)
    PROVE  IInv'
  <1>1. Keeps(v) /\ check = NONE
    BY CallerKeeps
  <1>2. \A w \in Parts : CutFirst(w)'
    BY <1>1, FrameCutFirst DEF IInv, Keeps, Owned
  <1>3. \A w \in Parts : Holding(w)'
    <2>1. Holding(v)'
      BY CallerHolds DEF IInv, Owned
    <2> QED BY <1>1, <2>1 DEF IInv, Holding, Keeps, Frame
  <1>4. Checking'
    BY <1>1 DEF Checking, Keeps
  <1> QED BY <1>1, <1>2, <1>3, <1>4 DEF IInv, Keeps

(* A step that leaves the callers and the segments alone.                  *)
LEMMA SameCutFirst ==
    ASSUME NEW v \in Parts, CutFirst(v), UNCHANGED <<pc, op, typ, at, tmap, tmem>>
    PROVE  CutFirst(v)'
  <1>1. SegmentsFrom(v, typ[v], at[v])' = SegmentsFrom(v, typ[v], at[v])
    BY DEF SegmentsFrom
  <1> QED BY <1>1 DEF CutFirst, Releasing

(* a step that touches neither keeps the invariant,                        *)
LEMMA QuietInv ==
    ASSUME IInv, UNCHANGED <<bmap, pc, unit, segvars>>, unmap_list' \subseteq unmap_list
    PROVE  IInv'
  <1>1. UNCHANGED <<raw, tmap, tmem, op, typ, at, check>>
    BY DEF segvars
  <1>2. Control'
    BY <1>1 DEF IInv, Owned, Shape, Control
  <1>3. Fewer
    BY <1>1 DEF IInv, Owned, Shape, OnDisk, Fewer
  <1>4. \A v \in Parts : CutFirst(v)' /\ Holding(v)'
    BY <1>1, SameCutFirst DEF IInv, Holding
  <1>5. Checking'
    BY <1>1 DEF IInv, Checking, NoGaps
  <1> QED BY <1>2, <1>3, <1>4, <1>5, FewerOwned DEF IInv

(* a restart, which requests a disk check only without gaps,               *)
LEMMA RestartKeepsInv ==
    ASSUME IInv, ~AnyCheck, NEW checked \in BOOLEAN, Restart(checked)
    PROVE  IInv'
  <1> USE DEF Restart, Reload, IInv, Owned
  <1>1. Control'
    BY TypesFacts DEF Control
  <1>2. Fewer
    BY DEF Fewer, Shape, OnDisk
  <1>3. \A v \in Parts : CutFirst(v)' /\ Holding(v)'
    BY DEF CutFirst, Releasing, Holding
  <1>4. Checking'
    BY DEF Checking, NoGaps
  <1> QED BY <1>1, <1>2, <1>3, <1>4, FewerOwned

(* and the disk check, which finds every unit in use.                      *)
LEMMA CheckKeepsInv == ASSUME IInv, bint_index_check PROVE IInv'
  <1> USE NoneFacts DEF IInv, Owned
  <1> DEFINE I == Index(check[1], check[2])
             found == tape_check_block \cap I
  <1>1. /\ check # NONE
        /\ bmap' = (bmap \ I) \cup found
        /\ UNCHANGED <<unmap_list, pc, unit, raw, tmap, tmem, op, typ, at>>
    BY DEF bint_index_check
  <1>2. (\A v \in Parts : pc[v] = "idle" /\ unit[v] = NONE) /\ tmem = tmap /\ NoGaps
    BY <1>1 DEF Checking
  <1>3. tape_check_block \subseteq Units
    BY SMT DEF tape_check_block, Shape
  <1>4. \A v \in Parts : raw[v] # NONE => raw[v] \in tape_check_block
    BY DEF tape_check_block, Shape
  <1>5. ASSUME NEW k \in Segs, tmem[k] \in Units PROVE tmem[k] \in tape_check_block
    <2>1. /\ k[1] \in Parts /\ k[2] \in Types /\ k[3] \in Slots(k[2])
          /\ k = <<k[1], k[2], k[3]>>
      BY SegFacts
    <2>2. tmap[k] \in Units
      BY <1>2, <1>5
    <2>3. \A s \in Slots(k[2]) :
              s = k[3] \/ Before(s, k[3]) => tmap[<<k[1], k[2], s>>] # NONE
      BY <1>2, <2>1, <2>2 DEF NoGaps
    <2> QED BY <1>2, <2>2, <2>3 DEF tape_check_block
  <1> HIDE DEF I
  <1>6. Shape'
    BY <1>1, <1>3 DEF Shape
  <1>7. OnDisk' /\ Distinct'
    BY <1>1 DEF OnDisk, Distinct
  <1>8. Marked'
    BY <1>1, <1>2, <1>4, <1>5 DEF Marked
  <1>9. \A v \in Parts : CutFirst(v)' /\ Holding(v)'
    BY <1>1, SameCutFirst DEF Holding
  <1>10. Checking'
    BY <1>1, <1>2 DEF Checking, NoGaps
  <1> QED BY <1>6, <1>7, <1>8, <1>9, <1>10

(* The invariant holds when there are no partitions yet,                   *)
LEMMA InitInv == Init => IInv
  <1> SUFFICES ASSUME Init PROVE IInv
    OBVIOUS
  <1> USE NoneFacts, TypesFacts DEF Init, BlockDeviceInit
  <1>1. Shape
    BY DEF Shape
  <1>2. OnDisk /\ Distinct /\ Marked
    BY DEF OnDisk, Distinct, Marked
  <1>3. \A v \in Parts : CutFirst(v) /\ Holding(v)
    BY DEF CutFirst, Releasing, Holding
  <1>4. Checking
    BY DEF Checking
  <1> QED BY <1>1, <1>2, <1>3, <1>4 DEF IInv, Owned

(* and is kept by every step.                                              *)
LEMMA NextInv == ASSUME ~AnyCheck, IInv, [Next]_vars PROVE IInv'
  <1>1. CASE UNCHANGED vars
    BY <1>1, QuietInv DEF vars, bdevvars, diskvars
  <1>2. CASE UnmapEnds
    BY <1>2, QuietInv DEF UnmapEnds, bio_unmap_end_bio
  <1> QED BY <1>1, <1>2, CallerKeepsInv, RestartKeepsInv, CheckKeepsInv DEF Next

-----------------------------------------------------------------------------
(* The invariant in terms of Refs.                                         *)
LEMMA RefsFacts ==
    ASSUME Owned, NEW u \in Units, NEW a \in Refs(u)
    PROVE  \/ \E v \in Parts : a = <<"first", v>> /\ raw[v] = u
           \/ \E k \in Segs : a = <<"segment", k>> /\ tmem[k] = u
           \/ \E v \in Parts : a = <<"caller", v>> /\ unit[v] = u
  BY NoneFacts DEF Refs, Owned, OnDisk

(* The three properties follow.                                            *)
LEMMA OwnedMeans == Owned => OneOwner /\ InUseIsMarked /\ UnmapSparesUnits
  <1> SUFFICES ASSUME Owned PROVE OneOwner /\ InUseIsMarked /\ UnmapSparesUnits
    OBVIOUS
  <1>1. ASSUME NEW u \in Units, NEW a \in Refs(u), NEW b \in Refs(u) PROVE a = b
    BY <1>1, NoneFacts, RefsFacts, SMT DEF Owned, Distinct
  <1>2. ASSUME NEW u \in Units, NEW a \in Refs(u) PROVE u \in bmap \ unmap_list
    BY <1>2, NoneFacts, RefsFacts, SMT DEF Owned, Marked
  <1> QED BY <1>1, <1>2 DEF OneOwner, InUseIsMarked, UnmapSparesUnits, InUse

(***************************************************************************)
(* Whatever writes fail and wherever the machine stops, no unit is ever    *)
(* referred to twice (core/tape_partition.c, core/bdev.c), as long as the  *)
(* disk check meets no segment map with a gap.                             *)
(***************************************************************************)
THEOREM UnitsHaveOneOwner == ASSUME ~AnyCheck PROVE Spec => []OneOwner
  <1>1. IInv /\ [Next]_vars => IInv'
    BY NextInv
  <1>2. IInv => OneOwner
    BY OwnedMeans DEF IInv
  <1> QED BY <1>1, <1>2, InitInv, PTL DEF Spec

(***************************************************************************)
(* Under the same condition a unit in use is marked in the bitmap on disk, *)
(* so bint_get_block does not hand it out and bint_index_check keeps it.   *)
(***************************************************************************)
THEOREM UnitsInUseAreMarked == ASSUME ~AnyCheck PROVE Spec => []InUseIsMarked
  <1>1. IInv /\ [Next]_vars => IInv'
    BY NextInv
  <1>2. IInv => InUseIsMarked
    BY OwnedMeans DEF IInv
  <1> QED BY <1>1, <1>2, InitInv, PTL DEF Spec

(***************************************************************************)
(* Under the same condition no UNMAP in flight hits a unit in use          *)
(* (bint_release_block, bint_get_block, bint_index_unmap_done).            *)
(***************************************************************************)
THEOREM UnmapsSpareUnits == ASSUME ~AnyCheck PROVE Spec => []UnmapSparesUnits
  <1>1. IInv /\ [Next]_vars => IInv'
    BY NextInv
  <1>2. IInv => UnmapSparesUnits
    BY OwnedMeans DEF IInv
  <1> QED BY <1>1, <1>2, InitInv, PTL DEF Spec

-----------------------------------------------------------------------------
(* The partitions use the units as UnitPool says.                          *)

(* At the beginning no partition has a unit, and all are available.        *)
LEMMA PoolInit == Init => Abstract!Init
  <1> SUFFICES ASSUME Init PROVE Abstract!Init
    OBVIOUS
  <1>1. \A v \in Parts : UnitsOf(v) = {}
    BY NoneFacts DEF Init, BlockDeviceInit, UnitsOf
  <1> QED BY <1>1 DEF Init, BlockDeviceInit, Abstract!Init

(***************************************************************************)
(* A step of a caller leaves the other partitions their units, and takes,  *)
(* gives back or loses units of its own.                                   *)
(***************************************************************************)
LEMMA CallerPool ==
    ASSUME IInv, NEW v \in Parts, Keeps(v)
    PROVE  [Abstract!Next]_(Abstract!pool)
  <1> DEFINE owns == [w \in Parts |-> UnitsOf(w)]
             available == Units \ bmap
  <1>1. ASSUME NEW w \in Parts \ {v} PROVE UnitsOf(w)' = UnitsOf(w)
    <2>1. /\ raw'[w] = raw[w] /\ unit'[w] = unit[w]
          /\ \A k \in Segs : k[1] = w => tmem'[k] = tmem[k]
      BY DEF Keeps, Frame
    <2> QED BY <2>1 DEF UnitsOf
  <1>2. owns' = [owns EXCEPT ![v] = UnitsOf(v)']
    BY <1>1
  <1>3. CASE Shrinks(v)
    <2> DEFINE us == UnitsOf(v) \ UnitsOf(v)'
    <2>1. us \subseteq owns[v] /\ UnitsOf(v)' = owns[v] \ us
      BY <1>3 DEF Shrinks
    <2>2. Abstract!Lose(v, us)
      BY <1>2, <1>3, <2>1 DEF Abstract!Lose, Shrinks
    <2> QED BY <2>1, <2>2 DEF Abstract!Next
  <1>4. CASE Takes(v)
    <2>1. PICK u \in Units \ (bmap \cup unmap_list) :
              /\ bmap' = bmap \cup {u}
              /\ unit' = [unit EXCEPT ![v] = u]
              /\ UNCHANGED <<unmap_list, raw, tmap, tmem>>
      BY <1>4 DEF Takes
    <2>2. unit[v] = NONE
      BY <1>4 DEF Takes, IInv, Holding
    <2>3. UnitsOf(v)' = owns[v] \cup {u}
      BY <2>1, <2>2, NoneFacts DEF UnitsOf, IInv, Owned, Shape
    <2>4. Abstract!Take(v, u)
      BY <1>2, <2>1, <2>3 DEF Abstract!Take
    <2> QED BY <2>1, <2>4 DEF Abstract!Next
  <1>5. CASE Releases(v)
    <2> DEFINE u == unit[v]
    <2>1. CASE u = NONE
      <3>1. UNCHANGED <<bmap, unmap_list>>
        <4>1. unit[v] \notin bmap
          BY <2>1, NoneFacts DEF IInv, Owned, Shape
        <4>2. bmap \ {unit[v]} = bmap /\ unmap_list \cup ({unit[v]} \cap bmap) = unmap_list
          BY <4>1
        <4> QED BY <1>5, <4>2 DEF Releases
      <3>2. UnitsOf(v)' = UnitsOf(v)
        BY <1>5, <2>1, NoneFacts DEF Releases, UnitsOf, IInv, Owned, Shape
      <3>3. owns' = owns
        BY <1>1, <3>2
      <3> QED BY <3>1, <3>3 DEF Abstract!pool
    <2>2. CASE u # NONE
      <3>1. u \in Units /\ u \in bmap /\ u \in owns[v]
        BY <2>2 DEF IInv, Owned, Shape, Marked, UnitsOf
      <3>2. UnitsOf(v)' = owns[v] \ {u}
        <4>1. raw[v] # u /\ \A k \in Segs : tmem[k] # u
          BY <2>2 DEF IInv, Owned, Distinct
        <4> QED BY <1>5, <4>1, NoneFacts DEF Releases, UnitsOf, IInv, Owned, Shape
      <3>3. \/ available' = available \cup {u}
            \/ "release" \in Failing /\ available' = available
        BY <1>5, <3>1 DEF Releases
      <3>4. unmap_list' \in {unmap_list, unmap_list \cup {u}}
        BY <1>5, <3>1 DEF Releases
      <3>5. Abstract!Give(v, u)
        BY <1>2, <3>1, <3>2, <3>3, <3>4 DEF Abstract!Give
      <3> QED BY <3>1, <3>5 DEF Abstract!Next
    <2> QED BY <2>1, <2>2
  <1> QED BY <1>3, <1>4, <1>5 DEF Keeps, Effect

(* After a restart a partition has the units that are its own on disk.     *)
LEMMA RestartPool ==
    ASSUME IInv, NEW checked \in BOOLEAN, Restart(checked)
    PROVE  Abstract!Next
  <1>1. ASSUME NEW v \in Parts PROVE UnitsOf(v)' \subseteq UnitsOf(v)
    BY NoneFacts DEF UnitsOf, Restart, Reload, IInv, Owned, OnDisk
  <1>2. \A v \in Parts : UnitsOf(v)' \in SUBSET Units
    BY DEF UnitsOf
  <1>3. UNCHANGED bmap /\ unmap_list' = {}
    BY DEF Restart, Reload
  <1>4. Abstract!Crash
    BY <1>1, <1>2, <1>3 DEF Abstract!Crash
  <1> QED BY <1>4 DEF Abstract!Next

(* The disk check makes units available that no partition has.             *)
LEMMA CheckPool ==
    ASSUME IInv, bint_index_check
    PROVE  Abstract!Next
  <1> DEFINE us == bmap \ bmap'
  <1>1. UNCHANGED <<unmap_list, raw, tmap, tmem, unit>>
    BY DEF bint_index_check
  <1>2. \A v \in Parts : UnitsOf(v)' = UnitsOf(v)
    BY <1>1 DEF UnitsOf
  <1>3. bmap \subseteq Units /\ bmap' \subseteq bmap
    <2>1. tape_check_block \subseteq bmap
      BY NoneFacts, SMT DEF tape_check_block, IInv, Owned, Shape, OnDisk, Marked
    <2> QED BY <2>1 DEF bint_index_check, IInv, Owned, Shape
  <1>4. \A v \in Parts : UnitsOf(v) \subseteq bmap'
    <2>1. Owned'
      BY CheckKeepsInv DEF IInv
    <2>2. \A v \in Parts : UnitsOf(v)' \subseteq bmap'
      BY <2>1, NoneFacts DEF UnitsOf, Owned, Marked
    <2> QED BY <1>2, <2>2
  <1>5. us \subseteq Abstract!Lost
    BY <1>3, <1>4 DEF Abstract!Lost
  <1>6. Abstract!Check(us)
    BY <1>1, <1>2, <1>3, <1>5 DEF Abstract!Check
  <1> QED BY <1>5, <1>6 DEF Abstract!Next

(* The end of an UNMAP is one of the pool.                                 *)
LEMMA UnmapPool == ASSUME UnmapEnds PROVE Abstract!Next
  <1>1. PICK u \in unmap_list : bio_unmap_end_bio(u) /\ UNCHANGED segvars
    BY DEF UnmapEnds
  <1>2. \A v \in Parts : UnitsOf(v)' = UnitsOf(v)
    BY <1>1 DEF UnitsOf, segvars, bio_unmap_end_bio
  <1>3. Abstract!UnmapEnds(u)
    BY <1>1, <1>2 DEF Abstract!UnmapEnds, bio_unmap_end_bio
  <1> QED BY <1>3 DEF Abstract!Next

(***************************************************************************)
(* For any disks, partitions and failing writes, the steps of core/bdev.c, *)
(* core/tape_partition.c and core/bcheck.c, with all their locks, lists    *)
(* and pages, are steps of UnitPool: no unit changes hands but through the *)
(* bitmap, no partition's caller touches the units of another, a crash     *)
(* gives nobody a unit, and a disk check that meets no gap frees only what *)
(* nobody owns.                                                            *)
(***************************************************************************)
THEOREM SegmentsImplementPool == ASSUME ~AnyCheck PROVE Spec => ImplementsPool
  <1>1. IInv /\ [Next]_vars => IInv'
    BY NextInv
  <1>2. IInv /\ [Next]_vars => [Abstract!Next]_(Abstract!pool)
    <2> SUFFICES ASSUME IInv, [Next]_vars PROVE [Abstract!Next]_(Abstract!pool)
      OBVIOUS
    <2>1. CASE UNCHANGED vars
      BY <2>1 DEF vars, bdevvars, diskvars, segvars, Abstract!pool, UnitsOf
    <2>2. ASSUME NEW v \in Parts, Step(v) \/ Start(v)
          PROVE  [Abstract!Next]_(Abstract!pool)
      BY <2>2, CallerKeeps, CallerPool
    <2> QED BY <2>1, <2>2, UnmapPool, RestartPool, CheckPool DEF Next
  <1> QED BY <1>1, <1>2, InitInv, PoolInit, PTL DEF Spec, ImplementsPool, Abstract!Spec
===============================================================================
