------------------------- MODULE CircularQueueProofs -------------------------
(***************************************************************************)
(* Arithmetic of head and tail in the circular queue of 1_helper.c, for    *)
(* every queue size.                                                       *)
(***************************************************************************)
EXTENDS CircularQueue, TLAPS

(* Below two turns of the ring the remainder needs at most one subtraction. *)
LEMMA OneTurn ==
  ASSUME NEW n \in Nat, n < 2 * QueueSize
  PROVE  n % QueueSize = IF n < QueueSize THEN n ELSE n - QueueSize
  BY QueueSizeAssumption

(* head and tail move from slot to slot of the array, wrapping round.      *)
LEMMA NextSlotIsSlot ==
  ASSUME NEW i \in Slot
  PROVE  /\ NextSlot(i) \in Slot
         /\ NextSlot(i) = IF i + 1 < QueueSize THEN i + 1 ELSE i + 1 - QueueSize
  BY QueueSizeAssumption, OneTurn DEF Slot, NextSlot

(* One slot after the n-th entry is the entry n + 1, and counting n from   *)
(* the slot after h is counting n + 1 from h.                              *)
LEMMA ShiftByOne ==
  ASSUME NEW h \in Slot, NEW n \in 0 .. QueueSize - 1
  PROVE  /\ NextSlot((h + n) % QueueSize) = (h + (n + 1)) % QueueSize
         /\ (NextSlot(h) + n) % QueueSize = (h + (n + 1)) % QueueSize
<1> DEFINE Q == QueueSize
<1>1. Q \in Nat \ {0} /\ h \in 0 .. Q - 1
  BY QueueSizeAssumption DEF Slot
<1>2. (h + n) % Q = IF h + n < Q THEN h + n ELSE h + n - Q
  BY <1>1, OneTurn
<1>3. (h + (n + 1)) % Q = IF h + (n + 1) < Q THEN h + (n + 1) ELSE h + (n + 1) - Q
  BY <1>1, OneTurn
<1>4. NextSlot(h) = IF h + 1 < Q THEN h + 1 ELSE h + 1 - Q
  BY NextSlotIsSlot
<1>5. NextSlot((h + n) % Q) = (h + (n + 1)) % Q
  <2>1. (h + n) % Q \in 0 .. Q - 1
    BY <1>1, <1>2
  <2>2. NextSlot((h + n) % Q) = IF ((h + n) % Q) + 1 < Q
                                THEN ((h + n) % Q) + 1
                                ELSE ((h + n) % Q) + 1 - Q
    BY <2>1, NextSlotIsSlot DEF Slot
  <2> QED  BY <1>1, <1>2, <1>3, <2>2
<1>6. (NextSlot(h) + n) % Q = (h + (n + 1)) % Q
  <2>1. NextSlot(h) \in 0 .. Q - 1
    BY <1>1, <1>4
  <2>2. (NextSlot(h) + n) % Q =
          IF NextSlot(h) + n < Q THEN NextSlot(h) + n ELSE NextSlot(h) + n - Q
    BY <1>1, <2>1, OneTurn
  <2> QED  BY <1>1, <1>3, <1>4, <2>2
<1> QED  BY <1>5, <1>6

(* Entries at different distances from the head lie in different slots.    *)
LEMMA DistinctOffsets ==
  ASSUME NEW h \in Slot,
         NEW m \in 0 .. QueueSize - 1, NEW n \in 0 .. QueueSize - 1, m # n
  PROVE  (h + m) % QueueSize # (h + n) % QueueSize
<1>1. /\ (h + m) % QueueSize =
           IF h + m < QueueSize THEN h + m ELSE h + m - QueueSize
      /\ (h + n) % QueueSize =
           IF h + n < QueueSize THEN h + n ELSE h + n - QueueSize
  BY QueueSizeAssumption, OneTurn DEF Slot
<1> QED  BY <1>1, QueueSizeAssumption DEF Slot
=============================================================================
