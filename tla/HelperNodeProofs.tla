--------------------------- MODULE HelperNodeProofs ---------------------------
(***************************************************************************)
(* Proofs about the main loop of 1_helper.c, for queues and a buffer of    *)
(* any size, any number of threads and any messages.                       *)
(***************************************************************************)
EXTENDS HelperNode, CircularQueueProofs, SequenceTheorems

(* The k-th character lies in slot k % QueueSize of queue k \div QueueSize. *)
LEMMA Position ==
  ASSUME NEW x \in Nat
  PROVE  /\ x \div QueueSize \in Nat
         /\ x % QueueSize \in Slot
         /\ x = QueueSize * (x \div QueueSize) + (x % QueueSize)
  BY QueueSizeAssumption DEF Slot

(* Multiples of q are at least q apart.                                    *)
LEMMA MultiplesApart ==
  ASSUME NEW q \in Nat \ {0}, NEW a \in Int, NEW b \in Int, NEW r \in 0 .. q - 1,
         q * a = q * b + r
  PROVE  a = b /\ r = 0
<1> DEFINE d == a - b
<1>1. d \in Int /\ a = b + d
  OBVIOUS
<1>2. q * (b + d) = q * b + q * d
  BY <1>1
<1>3. q * d \in Int /\ q * b \in Int
  BY <1>1
<1>4. q * d = r
  BY <1>1, <1>2, <1>3
<1>5. d >= 1 => q * d >= q
  BY <1>1
<1>6. d <= -1 => q * d <= -q
  BY <1>1
<1>7. d = 0
  BY <1>1, <1>4, <1>5, <1>6
<1> QED  BY <1>1, <1>4, <1>7

(* The queues for n bytes hold n characters and less than QueueSize more.  *)
LEMMA QueuesHoldRequest ==
  ASSUME NEW n \in Nat \ {0}
  PROVE  /\ numberOfQueues(n) \in Nat \ {0}
         /\ n <= QueueSize * numberOfQueues(n)
         /\ QueueSize * numberOfQueues(n) < n + QueueSize
         /\ n % QueueSize = 0 <=> QueueSize * numberOfQueues(n) = n
<1> DEFINE Q == QueueSize
           N == numberOfQueues(n)
           y == n + Q - 1
<1>1. Q \in Nat \ {0} /\ y \in Nat
  BY QueueSizeAssumption
<1>2. N \in Nat /\ y % Q \in 0 .. Q - 1 /\ y = Q * N + (y % Q)
  BY <1>1, Position DEF Slot, numberOfQueues
<1>3. Q * N \in Nat
  BY <1>1, <1>2
<1>4. n <= Q * N /\ Q * N < n + Q
  BY <1>1, <1>2, <1>3
<1>5. N # 0
  BY <1>1, <1>2, <1>4
<1>6. n % Q \in 0 .. Q - 1 /\ n \div Q \in Nat /\ n = Q * (n \div Q) + (n % Q)
  BY Position DEF Slot
<1>7. ASSUME NEW r \in 0 .. Q - 1, Q * N = Q * (n \div Q) + r
      PROVE  r = 0
  <2> HIDE DEF Q, N
  <2>1. N \in Int /\ n \div Q \in Int
    BY <1>2, <1>6
  <2> QED  BY <1>1, <1>7, <2>1, MultiplesApart
<1>8. ASSUME Q * N = n PROVE n % Q = 0
  BY <1>6, <1>7, <1>8
<1>9. ASSUME n % Q = 0 PROVE Q * N = n
  <2> DEFINE r == Q * N - n
  <2>1. r \in 0 .. Q - 1
    BY <1>1, <1>3, <1>4
  <2>2. Q * N = Q * (n \div Q) + r
    BY <1>1, <1>3, <1>6, <1>9
  <2>3. r = 0
    BY <2>1, <2>2, <1>7
  <2> QED  BY <1>3, <2>3
<1> QED  BY <1>2, <1>4, <1>5, <1>8, <1>9

(* Character k of the queues lies in one of them.                          *)
LEMMA QueueOf ==
  ASSUME NEW L \in Nat, NEW k \in Nat, k < QueueSize * L
  PROVE  (k \div QueueSize) + 1 \in 1 .. L
<1> DEFINE Q == QueueSize
           i == k \div Q
<1>1. Q \in Nat \ {0} /\ i \in Nat /\ Q * i <= k
  BY QueueSizeAssumption, Position DEF Slot
<1>2. ASSUME i >= L PROVE FALSE
  <2> HIDE DEF Q, i
  <2>1. i = L + (i - L) /\ i - L \in Nat
    BY <1>1, <1>2
  <2>2. Q * i = Q * L + Q * (i - L)
    BY <1>1, <2>1
  <2>3. Q * (i - L) \in Nat /\ Q * L \in Nat
    BY <1>1, <2>1
  <2> QED  BY <1>1, <2>2, <2>3 DEF Q
<1> QED  BY <1>1, <1>2

(* Uppercasing gives a byte.                                               *)
LEMMA UppercaseAllType ==
  ASSUME NEW c \in Byte
  PROVE  UppercaseAll(c) \in Byte
<1>1. CASE \E t \in Threads : t \in 1 .. 5 /\ c = Lower[t]
  <2> DEFINE u == CHOOSE t \in 1 .. 5 : c = Lower[t]
  <2>1. u \in 1 .. 5
    BY <1>1
  <2> QED  BY <1>1, <2>1, LettersAssumption DEF UppercaseAll, UppercaseBy
<1>2. CASE ~\E t \in Threads : t \in 1 .. 5 /\ c = Lower[t]
  BY <1>2 DEF UppercaseAll, UppercaseBy
<1> QED  BY <1>1, <1>2

(* No vowel is mistaken for a space.                                       *)
LEMMA SpaceStays == UppercaseAll(Space) = Space
  BY LayoutAssumption DEF UppercaseAll, UppercaseBy

(* What a queue is filled with, and what its round may leave there.        *)
LEMMA QueueTypes ==
  ASSUME NEW r \in Seq(Byte), NEW i \in Nat \ {0}
  PROVE  /\ InputQueue(r, i) \in [Slot -> Byte]
         /\ Permitted(InputQueue(r, i)) \subseteq Byte
<1>1. ASSUME NEW j \in Slot
      PROVE  LET k == (i - 1) * QueueSize + j + 1
             IN  (IF k < Len(r) THEN r[k] ELSE Space) \in Byte
  <2> DEFINE k == (i - 1) * QueueSize + j + 1
  <2>1. (i - 1) * QueueSize \in Nat
    BY QueueSizeAssumption
  <2>2. k \in Nat \ {0}
    BY <2>1, QueueSizeAssumption DEF Slot
  <2>3. k < Len(r) => k \in 1 .. Len(r)
    BY <2>2
  <2> QED  BY <2>3, LayoutAssumption
<1>2. InputQueue(r, i) \in [Slot -> Byte]
  BY <1>1 DEF InputQueue
<1> QED  BY <1>2, NulAssumption, UppercaseAllType DEF Permitted

\* What a round leaves is permitted, and uppercased if no threads overlapped.
LEMMA OutcomesArePermitted ==
  ASSUME NEW c \in [Slot -> Byte], NEW o \in BOOLEAN,
         NEW outcome \in RoundOutcomes(c, o)
  PROVE  /\ outcome \in [Slot -> Permitted(c)]
         /\ ~o => \A j \in Slot : outcome[j] = UppercaseAll(c[j])
  BY DEF RoundOutcomes, Permitted

(* No bytes need no queues.                                                *)
LEMMA NoQueues == numberOfQueues(0) = 0
  BY QueueSizeAssumption DEF numberOfQueues

-----------------------------------------------------------------------------
(* Filling in: recv takes the first n bytes and the queues for them.       *)
LEMMA ReceiveTypes ==
  ASSUME TypeOK, Receive
  PROVE  /\ request' \in Seq(Byte) /\ Len(request') \in 1 .. BUFFER_SIZE
         /\ inbound' \in Seq(Byte)
         /\ queues' = [i \in 1 .. numberOfQueues(Len(request')) |-> InputQueue(request', i)]
         /\ numberOfQueues(Len(request')) \in Nat \ {0}
<1>1. PICK n \in 1 .. BUFFER_SIZE :
        /\ n <= Len(inbound)
        /\ request' = SubSeq(inbound, 1, n)
        /\ inbound' = SubSeq(inbound, n + 1, Len(inbound))
        /\ queues' = [i \in 1 .. numberOfQueues(n) |-> InputQueue(request', i)]
  BY DEF Receive, RecvSize
<1>2. inbound \in Seq(Byte) /\ BUFFER_SIZE \in Nat
  BY BufferAssumption DEF TypeOK
<1>3. Len(inbound) \in Nat /\ \A i \in 1 .. Len(inbound) : inbound[i] \in Byte
  BY <1>2
<1>4. request' \in Seq(Byte) /\ Len(request') = n
  BY <1>1, <1>2, <1>3, SubSeqProperties
<1>5. inbound' \in Seq(Byte)
  BY <1>1, <1>2, <1>3, SubSeqProperties
<1> QED  BY <1>1, <1>2, <1>4, <1>5, QueuesHoldRequest

(* Dequeueing: the characters stored, and the reply read off them.         *)
LEMMA EncoderTypes ==
  ASSUME TypeOK, WorkInv, serverEncoder
  PROVE  /\ uppercasedBuffer' \in [Indexes -> Byte]
         /\ answered' \in [request : Seq(Byte), raced : BOOLEAN, reply : Seq(Byte)]
<1>1. /\ Len(queues) \in Nat /\ QueueSize \in Nat \ {0} /\ BUFFER_SIZE \in Nat
      /\ queues \in Seq([Slot -> Byte])
  BY QueueSizeAssumption, BufferAssumption DEF TypeOK
<1>2. ASSUME NEW k \in Indexes PROVE Gathered(k) \in Byte
  <2>1. k \in Nat /\ QueueSize * Len(queues) \in Nat
    BY <1>1 DEF Indexes
  <2>2. CASE k < Dequeued - 1
    <3>1. k < QueueSize * Len(queues)
      BY <2>1, <2>2 DEF Dequeued
    <3>2. (k \div QueueSize) + 1 \in 1 .. Len(queues) /\ k % QueueSize \in Slot
      BY <1>1, <2>1, <3>1, QueueOf, Position
    <3>3. queues[(k \div QueueSize) + 1] \in [Slot -> Byte]
      BY <1>1, <3>2
    <3>4. queues[(k \div QueueSize) + 1][k % QueueSize] \in Byte
      BY <3>2, <3>3
    <3>5. Gathered(k) = queues[(k \div QueueSize) + 1][k % QueueSize]
      BY <2>1, <2>2 DEF Gathered, Stored, Dequeued
    <3> QED  BY <3>4, <3>5
  <2>3. CASE ~(k < Dequeued - 1)
    <3>1. Gathered(k) \in {Newline, Nul, uppercasedBuffer[k]}
      BY <2>1, <2>3 DEF Gathered, Dequeued
    <3> QED  BY <3>1, NulAssumption, LayoutAssumption DEF TypeOK
  <2> QED  BY <2>2, <2>3
<1>3. uppercasedBuffer' \in [Indexes -> Byte]
  BY <1>2 DEF serverEncoder
<1>4. \A k \in 1 .. Len(request) : k - 1 \in Indexes
  BY <1>1 DEF TypeOK, Indexes
<1>5. [k \in 1 .. Len(request) |-> uppercasedBuffer'[k - 1]] \in Seq(Byte)
  <2>1. Len(request) \in Nat
    BY DEF TypeOK
  <2> QED  BY <1>3, <1>4, <2>1
<1> QED  BY <1>3, <1>5 DEF serverEncoder, SentBytes, TypeOK

(* TypeOK and WorkInv, which need each other: a round keeps the characters *)
(* it is given within Permitted because nobody but its threads touches the *)
(* queue between Receive and serverEncoder.                                *)
LEMMA HelperInit ==
  ASSUME Init
  PROVE  TypeOK /\ WorkInv
<1>1. TypeOK
  <2>1. Len(queues) = 0 /\ Len(request) = 0
    BY DEF Init
  <2>2. Len(queues) = numberOfQueues(Len(request))
    BY <2>1, NoQueues
  <2>3. Len(request) <= BUFFER_SIZE /\ done \in 0 .. Len(queues)
    BY <2>1, BufferAssumption, MessageAssumption DEF Init
  <2>4. uppercasedBuffer \in [Indexes -> Byte]
    BY NulAssumption DEF Init
  <2>5. /\ inbound \in Seq(Byte) /\ request \in Seq(Byte) /\ queues \in Seq([Slot -> Byte])
        /\ answered \in [request : Seq(Byte), raced : BOOLEAN, reply : Seq(Byte)]
    BY DEF Init, NoAnswer
  <2> QED  BY <2>2, <2>3, <2>4, <2>5 DEF Init, TypeOK
<1>2. WorkInv
  BY DEF Init, WorkInv
<1> QED  BY <1>1, <1>2

(* The invariant is inductive.                                             *)
LEMMA HelperInvStep ==
  ASSUME TypeOK, WorkInv, [Next]_vars
  PROVE  TypeOK' /\ WorkInv'
<1>1. ASSUME NEW m \in Message, ServerSends(m) PROVE (TypeOK /\ WorkInv)'
  <2>1. inbound' \in Seq(Byte)
    BY <1>1, ConcatProperties, MessageAssumption DEF ServerSends, TypeOK
  <2>2. TypeOK'
    BY <1>1, <2>1, MessageAssumption DEF ServerSends, TypeOK, work
  <2> QED  BY <1>1, <2>2 DEF ServerSends, WorkInv, work
<1>2. CASE ServerGoes
  BY <1>2 DEF ServerGoes, TypeOK, WorkInv, work
<1>3. CASE Receive
  <2> DEFINE N == numberOfQueues(Len(request'))
  <2>0. N \in Nat \ {0} /\ queues' = [i \in 1 .. N |-> InputQueue(request', i)]
    BY <1>3, ReceiveTypes
  <2>1. TypeOK'
    <3>1. \A i \in 1 .. N : InputQueue(request', i) \in [Slot -> Byte]
      BY <1>3, <2>0, ReceiveTypes, QueueTypes
    <3>2. queues' \in Seq([Slot -> Byte]) /\ Len(queues') = N
      <4> HIDE DEF N
      <4> QED  BY <2>0, <3>1
    <3>3. /\ request' \in Seq(Byte) /\ Len(request') <= BUFFER_SIZE
          /\ inbound' \in Seq(Byte)
      BY <1>3, ReceiveTypes, BufferAssumption
    <3>4. done' \in 0 .. Len(queues')
      BY <1>3, <2>0, <3>2 DEF Receive
    <3> QED  BY <1>3, <3>2, <3>3, <3>4 DEF Receive, TypeOK
  <2>2. \A i \in 1 .. Len(queues') : queues'[i] = InputQueue(request', i)
    BY <1>3, ReceiveTypes
  <2>3. request' # <<>>
    BY <1>3, ReceiveTypes
  <2>4. ASSUME NEW i \in 1 .. Len(queues')
        PROVE  InputQueue(request', i) \in [Slot -> Permitted(InputQueue(request', i))]
    BY DEF InputQueue, Permitted
  <2>5. pc' = "rounds" /\ overlapped' = FALSE /\ raced' = FALSE /\ done' = 0
    BY <1>3 DEF Receive
  <2>6. WorkInv'
    BY <2>2, <2>3, <2>4, <2>5 DEF WorkInv
  <2> QED  BY <2>1, <2>6
<1>4. CASE ConnectionEnds
  BY <1>4 DEF ConnectionEnds, TypeOK, WorkInv, link, work
<1>5. CASE RoundOverlaps
  BY <1>5 DEF RoundOverlaps, TypeOK, WorkInv, link
<1>6. CASE RoundEnds
  <2> DEFINE d == done + 1
             given == InputQueue(request, d)
  <2>1. d \in 1 .. Len(queues) /\ queues[d] = given /\ Len(queues) \in Nat /\ done \in Nat
    BY <1>6 DEF RoundEnds, TypeOK, WorkInv
  <2>2. given \in [Slot -> Byte] /\ Permitted(given) \subseteq Byte
    BY <2>1, QueueTypes DEF TypeOK
  <2>3. PICK outcome \in RoundOutcomes(given, overlapped) :
          queues' = [queues EXCEPT ![d] = outcome]
    BY <1>6, <2>1 DEF RoundEnds
  <2>4. /\ outcome \in [Slot -> Permitted(given)]
        /\ ~overlapped => \A j \in Slot : outcome[j] = UppercaseAll(given[j])
    BY <2>2, OutcomesArePermitted DEF TypeOK
  <2>5. outcome \in [Slot -> Byte]
    BY <2>2, <2>4
  <2>6. /\ queues' \in Seq([Slot -> Byte]) /\ Len(queues') = Len(queues)
        /\ queues'[d] = outcome
        /\ \A i \in 1 .. Len(queues) : i # d => queues'[i] = queues[i]
    BY <2>1, <2>3, <2>5 DEF TypeOK
  <2>7. done' = d /\ d \in 0 .. Len(queues)
    BY <1>6, <2>1 DEF RoundEnds, NextRound
  <2>8. TypeOK'
    BY <1>6, <2>6, <2>7 DEF RoundEnds, TypeOK, link
  <2>9. ASSUME NEW i \in 1 .. Len(queues')
        PROVE  LET g == InputQueue(request, i)
               IN  /\ queues'[i] \in [Slot -> Permitted(g)]
                   /\ i > done' => queues'[i] = g
                   /\ i <= done' /\ ~raced => \A j \in Slot : queues'[i][j] = UppercaseAll(g[j])
    <3>1. CASE i = d
      BY <2>1, <2>4, <2>6, <2>7, <3>1 DEF WorkInv
    <3>2. CASE i # d
      <4>1. i <= done' => i <= done
        BY <2>1, <2>7, <3>2
      <4>2. i > done' => i > done
        BY <2>1, <2>7
      <4> QED  BY <2>6, <3>2, <4>1, <4>2 DEF WorkInv
    <3> QED  BY <3>1, <3>2
  <2>10. WorkInv'
    BY <1>6, <2>9 DEF RoundEnds, WorkInv
  <2> QED  BY <2>8, <2>10
<1>7. CASE serverEncoder
  <2>1. TypeOK'
    <3>1. /\ uppercasedBuffer' \in [Indexes -> Byte]
          /\ answered' \in [request : Seq(Byte), raced : BOOLEAN, reply : Seq(Byte)]
      BY <1>7, EncoderTypes
    <3>2. /\ request' = <<>> /\ queues' = <<>> /\ done' = 0
          /\ Len(request') = 0 /\ Len(queues') = 0
      BY <1>7 DEF serverEncoder
    <3>3. /\ request' \in Seq(Byte) /\ Len(request') <= BUFFER_SIZE
          /\ queues' \in Seq([Slot -> Byte]) /\ Len(queues') = numberOfQueues(Len(request'))
          /\ done' \in 0 .. Len(queues')
      BY <3>2, NoQueues, BufferAssumption
    <3>4. pastEnd' \in BOOLEAN /\ raced' \in BOOLEAN /\ pc' \in {"recv", "rounds", "closed", "killed"}
      BY <1>7 DEF serverEncoder, TypeOK
    <3>5. UNCHANGED <<inbound, serverUp, overlapped>>
      BY <1>7 DEF serverEncoder, link
    <3> QED  BY <3>1, <3>3, <3>4, <3>5 DEF TypeOK
  <2>2. /\ pc' # "rounds" /\ request' = <<>> /\ Len(queues') = 0
        /\ overlapped' = overlapped /\ ~overlapped
    <3>1. done = Len(queues) /\ Len(queues) \in Nat
      BY <1>7 DEF serverEncoder, TypeOK
    <3>2. ~overlapped
      BY <3>1 DEF WorkInv
    <3>3. queues' = <<>> /\ request' = <<>> /\ overlapped' = overlapped
      BY <1>7 DEF serverEncoder
    <3>4. pc' # "rounds"
      BY <1>7 DEF serverEncoder
    <3> QED  BY <3>2, <3>3, <3>4
  <2>3. WorkInv'
    BY <2>2 DEF WorkInv
  <2> QED  BY <2>1, <2>3
<1>8. CASE Killed
  <2>1. /\ request' = <<>> /\ queues' = <<>> /\ Len(request') = 0 /\ Len(queues') = 0
        /\ pc' = "killed" /\ ~overlapped' /\ done' = 0
    BY <1>8 DEF Killed
  <2>2. /\ request' \in Seq(Byte) /\ Len(request') <= BUFFER_SIZE
        /\ queues' \in Seq([Slot -> Byte]) /\ Len(queues') = numberOfQueues(Len(request'))
        /\ done' \in 0 .. Len(queues')
    BY <2>1, NoQueues, BufferAssumption
  <2>3. TypeOK'
    BY <1>8, <2>2, NulAssumption DEF Killed, NoAnswer, TypeOK
  <2>4. WorkInv'
    BY <2>1 DEF WorkInv
  <2> QED  BY <2>3, <2>4
<1>9. CASE UNCHANGED vars
  BY <1>9 DEF vars, link, work, TypeOK, WorkInv
<1> QED  BY <1>1, <1>2, <1>3, <1>4, <1>5, <1>6, <1>7, <1>8, <1>9 DEF Next

(* WorkInv: from recv to send the queues hold the request, or what the     *)
(* threads have made of it, and nothing else.                              *)
THEOREM HelperInv == Spec => [](TypeOK /\ WorkInv)
<1>1. Init => TypeOK /\ WorkInv
  BY HelperInit
<1>2. TypeOK /\ WorkInv /\ [Next]_vars => (TypeOK /\ WorkInv)'
  BY HelperInvStep
<1> QED  BY <1>1, <1>2, PTL DEF Spec

(* TypeOK: a request always has the queues that numberOfQueues asks for,   *)
(* and the loops over them stay within them.                               *)
THEOREM HelperTypeOK == Spec => []TypeOK
BY HelperInv, PTL

-----------------------------------------------------------------------------
(* The terminator goes past uppercasedBuffer only if the request needs the *)
(* last queue of a full buffer: the queues hold less than QueueSize more   *)
(* characters than it does.                                                *)
THEOREM HelperOverruns == Spec => OverrunsOnlyWhenFull
<1>1. TypeOK /\ WorkInv /\ [Next]_vars
        => [pastEnd' # pastEnd => Len(request) + QueueSize > BUFFER_SIZE]_vars
  <2> SUFFICES ASSUME TypeOK, WorkInv, [Next]_vars, pastEnd' # pastEnd
               PROVE  Len(request) + QueueSize > BUFFER_SIZE
    OBVIOUS
  <2>1. serverEncoder
    BY DEF Next, vars, link, work, ServerSends, ServerGoes, Receive,
           ConnectionEnds, RoundOverlaps, RoundEnds, Killed
  <2>2. Len(request) \in Nat \ {0} /\ Len(queues) = numberOfQueues(Len(request))
    <3>1. request \in Seq(Byte) /\ request # <<>>
      BY <2>1 DEF serverEncoder, TypeOK, WorkInv
    <3> QED  BY <3>1 DEF TypeOK
  <2>3. Dequeued >= BUFFER_SIZE
    BY <2>1 DEF serverEncoder, TypeOK
  <2>4. Dequeued < Len(request) + QueueSize /\ Dequeued \in Nat
    <3> DEFINE N == numberOfQueues(Len(request))
    <3>1. N \in Nat /\ QueueSize \in Nat /\ QueueSize * N < Len(request) + QueueSize
      BY <2>2, QueuesHoldRequest, QueueSizeAssumption
    <3>2. Dequeued = QueueSize * N
      BY <2>2 DEF Dequeued
    <3> HIDE DEF N
    <3> QED  BY <3>1, <3>2
  <2> QED  BY <2>2, <2>3, <2>4, BufferAssumption, QueueSizeAssumption
<1> QED  BY <1>1, HelperInv, PTL DEF OverrunsOnlyWhenFull, Spec

-----------------------------------------------------------------------------
(* Character k of the reply was dequeued from the queue and the slot where *)
(* character k of the request was put, or a space in the place of the last *)
(* one; unless the queues hold no more than k characters.                  *)
LEMMA GatheredWhereEnqueued ==
  ASSUME TypeOK, WorkInv, pc = "rounds", NEW k \in 1 .. Len(request)
  PROVE  LET i == (k - 1) \div QueueSize + 1
             j == (k - 1) % QueueSize
         IN  /\ i \in 1 .. Len(queues) /\ j \in Slot
             /\ k <= Dequeued
             /\ k = Dequeued => Gathered(k - 1) = Newline
             /\ k # Dequeued => Gathered(k - 1) = queues[i][j]
             /\ InputQueue(request, i)[j] = IF k < Len(request) THEN request[k] ELSE Space
<1> DEFINE Q == QueueSize
           L == Len(request)
           N == Len(queues)
           i == (k - 1) \div Q
           j == (k - 1) % Q
<1>1. Q \in Nat \ {0} /\ L \in Nat \ {0} /\ N = numberOfQueues(L) /\ k \in Nat /\ k - 1 \in Nat
  BY QueueSizeAssumption DEF TypeOK
<1>2. N \in Nat \ {0} /\ L <= Q * N /\ Q * N \in Nat
  <2>1. N \in Nat \ {0} /\ L <= Q * N
    BY <1>1, QueuesHoldRequest
  <2> HIDE DEF N, Q
  <2> QED  BY <1>1, <2>1
<1>3. k - 1 < Q * N /\ k <= Q * N /\ Dequeued = Q * N
  BY <1>1, <1>2 DEF Dequeued
<1>4. i + 1 \in 1 .. N
  BY <1>1, <1>2, <1>3, QueueOf
<1>5. i \in Nat /\ j \in Slot /\ k - 1 = Q * i + j
  BY <1>1, Position
<1>6. k = Dequeued => Gathered(k - 1) = Newline
  BY <1>2, <1>3 DEF Gathered
<1>7. k # Dequeued => Gathered(k - 1) = queues[i + 1][j]
  BY <1>1, <1>2, <1>3 DEF Gathered, Stored
<1>8. ((i + 1) - 1) * Q + j + 1 = k
  <2>1. ((i + 1) - 1) * Q = Q * i /\ Q * i \in Nat /\ j \in Nat
    BY <1>1, <1>5 DEF Slot
  <2> HIDE DEF i, j
  <2> QED  BY <1>1, <1>5, <2>1
<1>9. InputQueue(request, i + 1)[j] = IF k < L THEN request[k] ELSE Space
  BY <1>5, <1>8 DEF InputQueue
<1> QED  BY <1>3, <1>4, <1>5, <1>6, <1>7, <1>9

(* SerialReplyIsCorrect: the reply reads the slots the request was put in, *)
(* and without an overlap the rounds have uppercased each of them.         *)
THEOREM HelperSerialReply == Spec => []SerialReplyIsCorrect
<1>1. Init => SerialReplyIsCorrect
  BY DEF Init, NoAnswer, SerialReplyIsCorrect
<1>2. TypeOK /\ WorkInv /\ SerialReplyIsCorrect /\ [Next]_vars => SerialReplyIsCorrect'
  <2> SUFFICES ASSUME TypeOK, WorkInv, SerialReplyIsCorrect, [Next]_vars
               PROVE  SerialReplyIsCorrect'
    OBVIOUS
  <2>1. CASE UNCHANGED answered
    BY <2>1 DEF SerialReplyIsCorrect
  <2>2. CASE serverEncoder
    <3> DEFINE L == Len(request)
               Reply(k) == Gathered(k - 1)
    <3>1. L \in Nat \ {0} /\ L <= BUFFER_SIZE /\ BUFFER_SIZE \in Nat
      BY <2>2, BufferAssumption DEF serverEncoder, TypeOK, WorkInv
    <3>2. \A k \in 1 .. L : k - 1 \in Indexes
      BY <3>1 DEF Indexes
    <3>3. /\ answered'.request = request /\ answered'.raced = raced
          /\ \A k \in 1 .. L : answered'.reply[k] = Reply(k)
      <4> HIDE DEF Reply
      <4>1. \A k \in 1 .. L : uppercasedBuffer'[k - 1] = Reply(k)
        BY <2>2, <3>2 DEF serverEncoder, Reply
      <4> QED  BY <2>2, <4>1 DEF serverEncoder, SentBytes
    <3>4. ASSUME ~raced, NEW k \in 1 .. L, k # Dequeued
          PROVE  Reply(k) = UppercaseAll(IF k < L THEN request[k] ELSE Space)
      <4> DEFINE i == (k - 1) \div QueueSize + 1
                 j == (k - 1) % QueueSize
                 given == InputQueue(request, i)
      <4>1. /\ i \in 1 .. Len(queues) /\ j \in Slot
            /\ Reply(k) = queues[i][j]
            /\ given[j] = IF k < L THEN request[k] ELSE Space
        BY <2>2, <3>4, GatheredWhereEnqueued DEF serverEncoder
      <4>2. i <= done
        BY <2>2, <4>1 DEF serverEncoder
      <4>3. queues[i][j] = UppercaseAll(given[j])
        BY <3>4, <4>1, <4>2 DEF WorkInv
      <4> QED  BY <4>1, <4>3
    <3>5. /\ Dequeued = L <=> L % QueueSize = 0
          /\ L <= Dequeued /\ Dequeued \in Nat
      <4>1. Dequeued = QueueSize * numberOfQueues(L)
        BY DEF Dequeued, TypeOK
      <4>2. numberOfQueues(L) \in Nat /\ QueueSize \in Nat
        BY <3>1, QueuesHoldRequest, QueueSizeAssumption
      <4>3. QueueSize * numberOfQueues(L) \in Nat
        BY <4>2
      <4> QED  BY <3>1, <4>1, <4>3, QueuesHoldRequest
    <3>6. L % QueueSize = 0 => Reply(L) = Newline
      BY <2>2, <3>1, <3>5, GatheredWhereEnqueued DEF serverEncoder
    <3>7. ~raced /\ L % QueueSize # 0 => Reply(L) = Space
      BY <3>1, <3>4, <3>5, SpaceStays
    <3>8. ~raced => \A k \in 1 .. L - 1 : Reply(k) = UppercaseAll(request[k])
      <4> SUFFICES ASSUME ~raced, NEW k \in 1 .. L - 1
                   PROVE  Reply(k) = UppercaseAll(request[k])
        OBVIOUS
      <4>1. k \in 1 .. L /\ k < L /\ k # Dequeued
        BY <3>1, <3>5
      <4> HIDE DEF Reply
      <4> QED  BY <3>4, <4>1
    <3>9. ASSUME ~raced
          PROVE  /\ \A k \in 1 .. L - 1 : answered'.reply[k] = UppercaseAll(request[k])
                 /\ answered'.reply[L] = IF L % QueueSize = 0 THEN Newline ELSE Space
      <4>1. L \in 1 .. L /\ \A k \in 1 .. L - 1 : k \in 1 .. L
        BY <3>1
      <4> HIDE DEF Reply
      <4> QED  BY <3>3, <3>6, <3>7, <3>8, <3>9, <4>1
    <3> HIDE DEF Reply
    <3> QED  BY <3>3, <3>9 DEF SerialReplyIsCorrect
  <2>3. CASE Killed
    BY <2>3 DEF Killed, NoAnswer, SerialReplyIsCorrect
  <2> QED  BY <2>1, <2>2, <2>3 DEF Next, vars, link, work, ServerSends, ServerGoes, Receive,
                                  ConnectionEnds, RoundOverlaps, RoundEnds
<1> QED  BY <1>1, <1>2, HelperInv, PTL DEF Spec

(* NothingStale: every character of the reply comes out of a queue filled  *)
(* from this request, whatever the rounds made of it, or is the newline.   *)
THEOREM HelperNothingStale == Spec => []NothingStale
<1>1. Init => NothingStale
  BY DEF Init, NoAnswer, NothingStale
<1>2. TypeOK /\ WorkInv /\ NothingStale /\ [Next]_vars => NothingStale'
  <2> SUFFICES ASSUME TypeOK, WorkInv, NothingStale, [Next]_vars
               PROVE  NothingStale'
    OBVIOUS
  <2>1. CASE UNCHANGED answered
    BY <2>1 DEF NothingStale
  <2>2. CASE serverEncoder
    <3> DEFINE L == Len(request)
               Allowed == {Nul, Space, Newline} \cup {request[m] : m \in 1 .. L}
                            \cup {UppercaseAll(request[m]) : m \in 1 .. L}
    <3>1. L \in Nat /\ L <= BUFFER_SIZE /\ BUFFER_SIZE \in Nat
      BY BufferAssumption DEF TypeOK
    <3>2. ASSUME NEW i \in Nat \ {0}, NEW m \in Slot
          PROVE  InputQueue(request, i)[m] \in {Space} \cup {request[n] : n \in 1 .. L}
      <4> DEFINE n == (i - 1) * QueueSize + m + 1
      <4>1. (i - 1) * QueueSize \in Nat /\ m \in Nat
        BY QueueSizeAssumption DEF Slot
      <4>2. n \in Nat \ {0} /\ (n < L => n \in 1 .. L)
        BY <3>1, <4>1
      <4>3. InputQueue(request, i)[m] = IF n < L THEN request[n] ELSE Space
        BY DEF InputQueue
      <4> HIDE DEF n
      <4> QED  BY <4>2, <4>3
    <3>3. ASSUME NEW i \in Nat \ {0}
          PROVE  Permitted(InputQueue(request, i)) \subseteq Allowed
      <4>1. ASSUME NEW m \in Slot
            PROVE  /\ InputQueue(request, i)[m] \in Allowed
                   /\ UppercaseAll(InputQueue(request, i)[m]) \in Allowed
        BY <3>2, SpaceStays
      <4> HIDE DEF Allowed
      <4>2. Nul \in Allowed
        BY DEF Allowed
      <4> QED  BY <4>1, <4>2 DEF Permitted
    <3>4. ASSUME NEW k \in 1 .. L PROVE Gathered(k - 1) \in Allowed
      <4> DEFINE i == (k - 1) \div QueueSize + 1
                 j == (k - 1) % QueueSize
      <4>1. /\ i \in 1 .. Len(queues) /\ j \in Slot
            /\ Gathered(k - 1) = Newline \/ Gathered(k - 1) = queues[i][j]
        BY <2>2, <3>4, GatheredWhereEnqueued DEF serverEncoder
      <4>2. queues[i][j] \in Permitted(InputQueue(request, i))
        BY <4>1 DEF WorkInv
      <4>3. Len(queues) \in Nat
        BY DEF TypeOK
      <4>4. i \in Nat \ {0}
        BY <4>1, <4>3
      <4> HIDE DEF i, j
      <4> QED  BY <3>3, <4>1, <4>2, <4>4
    <3>5. \A k \in 1 .. L : k - 1 \in Indexes
      BY <3>1 DEF Indexes
    <3>6. /\ answered'.request = request
          /\ \A k \in 1 .. L : answered'.reply[k] = Gathered(k - 1)
      <4>1. \A k \in 1 .. L : uppercasedBuffer'[k - 1] = Gathered(k - 1)
        BY <2>2, <3>5 DEF serverEncoder
      <4> QED  BY <2>2, <4>1 DEF serverEncoder, SentBytes
    <3>7. \A k \in 1 .. L : answered'.reply[k] \in Allowed
      BY <3>4, <3>6
    <3> QED  BY <3>6, <3>7 DEF NothingStale
  <2>3. CASE Killed
    BY <2>3 DEF Killed, NoAnswer, NothingStale
  <2> QED  BY <2>1, <2>2, <2>3 DEF Next, vars, link, work, ServerSends, ServerGoes, Receive,
                                  ConnectionEnds, RoundOverlaps, RoundEnds
<1> QED  BY <1>1, <1>2, HelperInv, PTL DEF Spec
=============================================================================
