--------------------------- MODULE SequentialQueue ---------------------------
(***************************************************************************)
(* One circular queue used by one thread at a time, which is how main uses *)
(* the input queues and how serverDecoder uses its tempQueue: any order of *)
(* calls of addToTheQueue and removeFromTheQueue.                          *)
(***************************************************************************)
EXTENDS CircularQueue

VARIABLES
  q,        \* the queue
  added,    \* what the last addToTheQueue returned
  removed   \* what the last removeFromTheQueue returned

queueVars == <<q, added, removed>>

Init ==
  /\ \E garbage \in [Slot -> Byte] : q = setupTheQueue(garbage)
  /\ added = TRUE
  /\ removed = Nul

Add(c) ==
  /\ added' = CanAdd(q)
  /\ q' = addToTheQueue(q, c)
  /\ UNCHANGED removed

Remove ==
  /\ removed' = FrontOfQueue(q)
  /\ q' = removeFromTheQueue(q)
  /\ UNCHANGED added

Next == Remove \/ \E c \in Byte : Add(c)

Spec == Init /\ [][Next]_queueVars

-----------------------------------------------------------------------------
(* head, tail and countOfEntries always describe the same entries.         *)
TypeOK ==
  /\ WellFormed(q)
  /\ added \in BOOLEAN
  /\ removed \in Byte

(* Whatever the order of the calls, and however often head and tail wrap   *)
(* round, the array of 1_helper.c behaves as a bounded FIFO: no entry is   *)
(* lost, repeated or overtaken, and a refused call changes nothing.        *)
Fifo == INSTANCE BoundedFifo WITH fifo <- Contents(q)

ImplementsFifo == Fifo!Spec
=============================================================================
