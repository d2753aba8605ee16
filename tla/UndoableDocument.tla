-------------------------- MODULE UndoableDocument --------------------------
(***************************************************************************)
(* What undo and redo promise a user, without stacks, files or failures.   *)
(*                                                                         *)
(* A document is a timeline of values and a position in it.  An edit cuts  *)
(* the future off and appends a value; undo and redo only move along the   *)
(* timeline.  At most `capacity' values are remembered on the side that a  *)
(* step moves away from, and the ones nearest the position are kept.       *)
(***************************************************************************)
EXTENDS Integers, Sequences

CONSTANTS
  Value,        \* the values a document can have
  MaxCapacity   \* the largest capacity a user may choose

VARIABLES
  timeline,     \* every value undo or redo can still reach, oldest first
  position,     \* the index of the current value
  capacity      \* how many values are remembered beside the current one

vars == <<timeline, position, capacity>>

AtMost(a, b) == IF a <= b THEN a ELSE b

Init ==
  /\ timeline \in {<<v>> : v \in Value}
  /\ position = 1
  /\ capacity \in 1 .. MaxCapacity

Edit(v) ==
  LET kept == AtMost(position, capacity)
  IN /\ timeline' = Append(SubSeq(timeline, position - kept + 1, position), v)
     /\ position' = kept + 1
     /\ UNCHANGED capacity

Undo ==
  /\ position > 1
  /\ LET ahead == AtMost(Len(timeline) - position + 1, capacity)
     IN timeline' = SubSeq(timeline, 1, position - 1 + ahead)
  /\ position' = position - 1
  /\ UNCHANGED capacity

Redo ==
  /\ position < Len(timeline)
  /\ LET behind == AtMost(position, capacity)
     IN /\ timeline' = SubSeq(timeline, position - behind + 1, Len(timeline))
        /\ position' = behind + 1
  /\ UNCHANGED capacity

(* Another document, or the same one read again: no history.               *)
Replace(v) ==
  /\ timeline' = <<v>>
  /\ position' = 1
  /\ capacity' \in 1 .. MaxCapacity

SetCapacity ==
  /\ capacity' \in 1 .. MaxCapacity
  /\ UNCHANGED <<timeline, position>>

Next ==
  \/ \E v \in Value : Edit(v) \/ Replace(v)
  \/ Undo
  \/ Redo
  \/ SetCapacity

Spec == Init /\ [][Next]_vars

=============================================================================
