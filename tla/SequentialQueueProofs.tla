------------------------ MODULE SequentialQueueProofs ------------------------
(***************************************************************************)
(* The circular queue of 1_helper.c implements a bounded FIFO for every    *)
(* queue size and every set of characters.                                 *)
(***************************************************************************)
EXTENDS SequentialQueue, CircularQueueProofs, SequenceTheorems, TLAPS

(* addToTheQueue keeps head, tail and the count in step.                   *)
LEMMA AddKeepsWellFormed ==
  ASSUME NEW x, WellFormed(x), NEW c \in Byte
  PROVE  WellFormed(addToTheQueue(x, c))
<1>1. CASE ~CanAdd(x)
  BY <1>1 DEF addToTheQueue
<1>2. CASE CanAdd(x)
  <2>1. x.countOfEntries \in 0 .. QueueSize - 1
    BY <1>2, QueueSizeAssumption DEF CanAdd, WellFormed, Queue
  <2>2. addToTheQueue(x, c) \in Queue
    BY <1>2, <2>1, QueueSizeAssumption, NextSlotIsSlot
       DEF addToTheQueue, WellFormed, Queue
  <2>3. NextSlot(x.tail) = (x.head + (x.countOfEntries + 1)) % QueueSize
    BY <2>1, ShiftByOne DEF WellFormed, Queue
  <2> QED  BY <1>2, <2>2, <2>3 DEF addToTheQueue, WellFormed
<1> QED  BY <1>1, <1>2

(* removeFromTheQueue keeps head, tail and the count in step.              *)
LEMMA RemoveKeepsWellFormed ==
  ASSUME NEW x, WellFormed(x)
  PROVE  WellFormed(removeFromTheQueue(x))
<1>1. CASE ~CanRemove(x)
  BY <1>1 DEF removeFromTheQueue
<1>2. CASE CanRemove(x)
  <2> DEFINE n == x.countOfEntries - 1
  <2>1. n \in 0 .. QueueSize - 1
    BY <1>2, QueueSizeAssumption DEF CanRemove, WellFormed, Queue
  <2>2. removeFromTheQueue(x) \in Queue
    BY <1>2, <2>1, QueueSizeAssumption, NextSlotIsSlot
       DEF removeFromTheQueue, WellFormed, Queue
  <2>3. (NextSlot(x.head) + n) % QueueSize = (x.head + (n + 1)) % QueueSize
    BY <2>1, ShiftByOne DEF WellFormed, Queue
  <2>4. n + 1 = x.countOfEntries
    BY QueueSizeAssumption DEF WellFormed, Queue
  <2> QED  BY <1>2, <2>2, <2>3, <2>4 DEF removeFromTheQueue, WellFormed
<1> QED  BY <1>1, <1>2

-----------------------------------------------------------------------------
(* A well-formed queue's contents are a sequence of characters as long as  *)
(* the count says.                                                         *)
LEMMA ContentsIsSequence ==
  ASSUME NEW x, WellFormed(x)
  PROVE  /\ Contents(x) \in Seq(Byte)
         /\ Len(Contents(x)) = x.countOfEntries
         /\ DOMAIN Contents(x) = 1 .. x.countOfEntries
<1>1. x.countOfEntries \in Nat
  BY QueueSizeAssumption DEF WellFormed, Queue
<1>2. ASSUME NEW k \in 1 .. x.countOfEntries
      PROVE  x.values[(x.head + (k - 1)) % QueueSize] \in Byte
  <2>1. (x.head + (k - 1)) % QueueSize \in Slot
    BY <1>1, QueueSizeAssumption DEF WellFormed, Queue, Slot
  <2> QED  BY <2>1 DEF WellFormed, Queue
<1>3. Contents(x) \in [1 .. x.countOfEntries -> Byte]
  BY <1>2 DEF Contents
<1> QED  BY <1>1, <1>3

(* An accepted character becomes the youngest entry.                       *)
LEMMA AddAppends ==
  ASSUME NEW x, WellFormed(x), CanAdd(x), NEW c \in Byte
  PROVE  Contents(addToTheQueue(x, c)) = Append(Contents(x), c)
<1> DEFINE y == addToTheQueue(x, c)
           n == x.countOfEntries
<1>1. /\ n \in 0 .. QueueSize - 1
      /\ y.countOfEntries = n + 1
      /\ y.head = x.head
      /\ y.values = [x.values EXCEPT ![x.tail] = c]
      /\ x.head \in Slot
      /\ x.tail \in Slot
      /\ x.tail = (x.head + n) % QueueSize
      /\ x.values \in [Slot -> Byte]
  BY QueueSizeAssumption DEF CanAdd, addToTheQueue, WellFormed, Queue
<1>2. /\ Contents(x) \in Seq(Byte)
      /\ Len(Contents(x)) = n
  BY ContentsIsSequence
<1>3. ASSUME NEW k \in 1 .. n + 1
      PROVE  Contents(y)[k] = Append(Contents(x), c)[k]
  <2>1. Contents(y)[k] = y.values[(x.head + (k - 1)) % QueueSize]
    BY <1>1, <1>3 DEF Contents
  <2>2. (x.head + (k - 1)) % QueueSize \in Slot
    BY <1>1, <1>3, QueueSizeAssumption DEF Slot
  <2>3. CASE k = n + 1
    <3>1. k - 1 = n
      BY <1>1, <2>3
    <3>2. Contents(y)[k] = c
      BY <1>1, <2>1, <2>2, <3>1
    <3> QED  BY <1>2, <2>3, <3>2
  <2>4. CASE k # n + 1
    <3>1. k \in 1 .. n
      BY <1>1, <1>3, <2>4
    <3>2. (x.head + (k - 1)) % QueueSize # x.tail
      <4>1. /\ k - 1 \in 0 .. QueueSize - 1
            /\ k - 1 # n
        BY <1>1, <3>1, QueueSizeAssumption
      <4> HIDE DEF n
      <4> QED  BY <1>1, <4>1, DistinctOffsets
    <3>3. Contents(y)[k] = x.values[(x.head + (k - 1)) % QueueSize]
      BY <1>1, <2>1, <2>2, <3>2
    <3>4. Contents(x)[k] = x.values[(x.head + (k - 1)) % QueueSize]
      BY <3>1 DEF Contents
    <3> QED  BY <1>2, <3>1, <3>3, <3>4
  <2> QED  BY <2>3, <2>4
<1>4. /\ Contents(y) \in Seq(Byte)
      /\ Len(Contents(y)) = n + 1
  BY <1>1, AddKeepsWellFormed, ContentsIsSequence
<1>5. /\ Append(Contents(x), c) \in Seq(Byte)
      /\ Len(Append(Contents(x), c)) = n + 1
  BY <1>2
<1>6. Contents(y) = Append(Contents(x), c)
  <2> HIDE DEF y, n
  <2> QED  BY <1>3, <1>4, <1>5, SeqEqual
<1> QED  BY <1>6

(* The character removed is the oldest entry, and the others stay.         *)
LEMMA RemoveTakesHead ==
  ASSUME NEW x, WellFormed(x), CanRemove(x)
  PROVE  /\ Contents(x) # <<>>
         /\ FrontOfQueue(x) = Head(Contents(x))
         /\ Contents(removeFromTheQueue(x)) = Tail(Contents(x))
<1> DEFINE y == removeFromTheQueue(x)
           n == x.countOfEntries - 1
<1>1. /\ n \in 0 .. QueueSize - 1
      /\ x.countOfEntries = n + 1
      /\ y.countOfEntries = n
      /\ y.head = NextSlot(x.head)
      /\ y.values = x.values
      /\ x.head \in Slot
  BY QueueSizeAssumption DEF CanRemove, removeFromTheQueue, WellFormed, Queue
<1>2. /\ Contents(x) \in Seq(Byte)
      /\ Len(Contents(x)) = n + 1
  BY <1>1, ContentsIsSequence
<1>3. Contents(x) # <<>>
  BY <1>1, <1>2
<1>4. FrontOfQueue(x) = Head(Contents(x))
  <2>1. (x.head + (1 - 1)) % QueueSize = x.head
    BY <1>1, QueueSizeAssumption DEF Slot
  <2>2. Contents(x)[1] = x.values[(x.head + (1 - 1)) % QueueSize]
    BY <1>1 DEF Contents
  <2> QED  BY <1>2, <1>3, <2>1, <2>2 DEF FrontOfQueue
<1>5. ASSUME NEW k \in 1 .. n
      PROVE  Contents(y)[k] = Tail(Contents(x))[k]
  <2> DEFINE m == k - 1
  <2>1. m \in 0 .. QueueSize - 1 /\ m + 1 = k /\ (k + 1) - 1 = m + 1
    BY <1>1, <1>5, QueueSizeAssumption
  <2>2. (NextSlot(x.head) + m) % QueueSize = (x.head + (m + 1)) % QueueSize
    BY <1>1, <2>1, ShiftByOne
  <2>3. Contents(y)[k] = x.values[(NextSlot(x.head) + m) % QueueSize]
    BY <1>1, <1>5 DEF Contents
  <2>4. Contents(x)[k + 1] = x.values[(x.head + ((k + 1) - 1)) % QueueSize]
    BY <1>1, <1>5 DEF Contents
  <2>5. Tail(Contents(x))[k] = Contents(x)[k + 1]
    BY <1>1, <1>2, <1>3, <1>5
  <2> QED  BY <2>1, <2>2, <2>3, <2>4, <2>5
<1>6. Contents(y) = Tail(Contents(x))
  <2>1. /\ Contents(y) \in Seq(Byte)
        /\ Len(Contents(y)) = n
    BY <1>1, RemoveKeepsWellFormed, ContentsIsSequence
  <2>2. /\ Tail(Contents(x)) \in Seq(Byte)
        /\ Len(Tail(Contents(x))) = n
    BY <1>1, <1>2, <1>3
  <2> HIDE DEF y, n
  <2> QED  BY <1>5, <2>1, <2>2, SeqEqual
<1> QED  BY <1>3, <1>4, <1>6

-----------------------------------------------------------------------------
(* TypeOK, with the agreement of head, tail and countOfEntries, is an      *)
(* invariant of every order of calls on one queue.                         *)
THEOREM QueueStaysWellFormed == Spec => []TypeOK
<1>1. Init => TypeOK
  BY QueueSizeAssumption, NulAssumption
     DEF Init, TypeOK, WellFormed, Queue, Slot, setupTheQueue
<1>2. TypeOK /\ [Next]_queueVars => TypeOK'
  <2> SUFFICES ASSUME TypeOK, [Next]_queueVars
               PROVE  TypeOK'
    OBVIOUS
  <2>1. ASSUME NEW c \in Byte, Add(c)
        PROVE  TypeOK'
    BY <2>1, AddKeepsWellFormed DEF Add, TypeOK, CanAdd
  <2>2. CASE Remove
    <3>1. FrontOfQueue(q) \in Byte
      BY NulAssumption DEF TypeOK, WellFormed, Queue, FrontOfQueue
    <3> QED  BY <2>2, <3>1, RemoveKeepsWellFormed DEF Remove, TypeOK
  <2>3. CASE UNCHANGED queueVars
    BY <2>3 DEF queueVars, TypeOK
  <2> QED  BY <2>1, <2>2, <2>3 DEF Next
<1> QED  BY <1>1, <1>2, PTL DEF Spec

(* The circular queue implements the bounded FIFO: every call of           *)
(* addToTheQueue and removeFromTheQueue is a step of BoundedFifo on the    *)
(* queue's contents, with the same answer.                                 *)
THEOREM QueueImplementsFifo == Spec => ImplementsFifo
<1>1. Init => Fifo!Init
  BY DEF Init, Fifo!Init, Contents, setupTheQueue
<1>2. TypeOK /\ [Next]_queueVars => [Fifo!Next]_<<Contents(q), added, removed>>
  <2> SUFFICES ASSUME TypeOK, [Next]_queueVars
               PROVE  [Fifo!Next]_<<Contents(q), added, removed>>
    OBVIOUS
  <2>0. WellFormed(q) /\ q.countOfEntries \in 0 .. QueueSize
    BY DEF TypeOK, WellFormed, Queue
  <2>1. ASSUME NEW c \in Byte, Add(c)
        PROVE  Fifo!Add(c)
    <3>1. CanAdd(q) = (Len(Contents(q)) < QueueSize)
      BY <2>0, ContentsIsSequence, QueueSizeAssumption DEF CanAdd
    <3>2. CanAdd(q) => Contents(q') = Append(Contents(q), c)
      BY <2>0, <2>1, AddAppends DEF Add
    <3>3. ~CanAdd(q) => Contents(q') = Contents(q)
      BY <2>1 DEF Add, addToTheQueue
    <3> QED  BY <2>1, <3>1, <3>2, <3>3 DEF Add, Fifo!Add
  <2>2. CASE Remove
    <3>1. CanRemove(q) <=> Contents(q) # <<>>
      BY <2>0, ContentsIsSequence, QueueSizeAssumption DEF CanRemove
    <3>2. CanRemove(q) => /\ FrontOfQueue(q) = Head(Contents(q))
                          /\ Contents(q') = Tail(Contents(q))
      BY <2>0, <2>2, RemoveTakesHead DEF Remove
    <3>3. ~CanRemove(q) => /\ FrontOfQueue(q) = Nul
                           /\ Contents(q') = Contents(q)
      BY <2>2 DEF Remove, removeFromTheQueue, FrontOfQueue
    <3>4. Fifo!Remove
      BY <2>2, <3>1, <3>2, <3>3 DEF Remove, Fifo!Remove
    <3> QED  BY <3>4 DEF Fifo!Next
  <2>3. CASE UNCHANGED queueVars
    BY <2>3 DEF queueVars, Contents
  <2> QED  BY <2>1, <2>2, <2>3 DEF Next, Fifo!Next
<1> QED  BY <1>1, <1>2, QueueStaysWellFormed, PTL
         DEF Spec, ImplementsFifo, Fifo!Spec, Fifo!fifoVars
=============================================================================
