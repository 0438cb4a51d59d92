----------------------------- MODULE BoundedFifo -----------------------------
(***************************************************************************)
(* What the helper expects of a queue: a first-in first-out sequence of at *)
(* most QueueSize characters.  Adding to a full queue reports failure and  *)
(* changes nothing; removing from an empty one answers Nul and changes     *)
(* nothing.  added and removed are what the last call of each kind         *)
(* returned.                                                               *)
(***************************************************************************)
EXTENDS Integers, Sequences

CONSTANTS QueueSize, Byte, Nul

VARIABLES fifo, added, removed

fifoVars == <<fifo, added, removed>>

Init ==
  /\ fifo = <<>>
  /\ added = TRUE
  /\ removed = Nul

Add(c) ==
  /\ added' = (Len(fifo) < QueueSize)
  /\ fifo' = IF Len(fifo) < QueueSize THEN Append(fifo, c) ELSE fifo
  /\ UNCHANGED removed

Remove ==
  /\ removed' = IF fifo = <<>> THEN Nul ELSE Head(fifo)
  /\ fifo' = IF fifo = <<>> THEN fifo ELSE Tail(fifo)
  /\ UNCHANGED added

Next == Remove \/ \E c \in Byte : Add(c)

Spec == Init /\ [][Next]_fifoVars
=============================================================================
