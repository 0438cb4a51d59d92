---------------------------- MODULE CircularQueue ----------------------------
(***************************************************************************)
(* The circular character queue of the helper node: structForQueueBoi      *)
(* (encDec.h) and the three functions of 1_helper.c that work on it, each  *)
(* as the function of the queue it computes when nobody else touches the   *)
(* queue.  The queue's size field never changes after setupTheQueue and is *)
(* the same for every queue of the program, so it is a constant here.      *)
(***************************************************************************)
EXTENDS Integers, Sequences

CONSTANTS
  QueueSize,   \* sizeOfQueue in main: 5
  Byte,        \* the characters a message can hold
  Nul          \* the character '\0'

ASSUME QueueSizeAssumption == QueueSize \in Nat \ {0}
ASSUME NulAssumption       == Nul \in Byte

\* The indexes of the values array.
Slot == 0 .. QueueSize - 1

Queue == [head : Slot, tail : Slot, countOfEntries : 0 .. QueueSize,
          values : [Slot -> Byte]]

\* Mutant: head and tail run past the end of the array.
NextSlotPastEnd(i) == i + 1

\* The slot after i, wrapping round at the end of the array.
NextSlot(i) == (i + 1) % QueueSize

\* A fresh queue; malloc leaves arbitrary bytes in its array.
setupTheQueue(garbage) ==
  [head |-> 0, tail |-> 0, countOfEntries |-> 0, values |-> garbage]

\* A full queue refuses the character and is left as it was.
CanAdd(q) == q.countOfEntries # QueueSize

addToTheQueue(q, c) ==
  IF CanAdd(q)
  THEN [head           |-> q.head,
        tail           |-> NextSlot(q.tail),
        countOfEntries |-> q.countOfEntries + 1,
        values         |-> [q.values EXCEPT ![q.tail] = c]]
  ELSE q

\* An empty queue answers '\0' and is left as it was.
CanRemove(q) == q.countOfEntries # 0

\* Mutant: the youngest slot is read instead of the oldest.
FrontFromTail(q) == IF CanRemove(q) THEN q.values[q.tail] ELSE Nul

FrontOfQueue(q) == IF CanRemove(q) THEN q.values[q.head] ELSE Nul

\* Mutant: the entry leaves but is still counted.
RemoveUncounted(q) ==
  IF CanRemove(q) THEN [q EXCEPT !.head = NextSlot(@)] ELSE q

removeFromTheQueue(q) ==
  IF CanRemove(q)
  THEN [head           |-> NextSlot(q.head),
        tail           |-> q.tail,
        countOfEntries |-> q.countOfEntries - 1,
        values         |-> q.values]
  ELSE q

-----------------------------------------------------------------------------
(* What a queue means: the characters waiting in it, oldest first.         *)

Contents(q) ==
  [k \in 1 .. q.countOfEntries |-> q.values[(q.head + (k - 1)) % QueueSize]]

\* head, tail and the count agree on which slots are in use.
WellFormed(q) ==
  /\ q \in Queue
  /\ q.tail = (q.head + q.countOfEntries) % QueueSize
=============================================================================
