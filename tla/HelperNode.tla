------------------------------ MODULE HelperNode ------------------------------
(***************************************************************************)
(* The main loop of the helper node (1_helper.c): receive a request,       *)
(* spread it over queues of QueueSize characters, run one round of threads *)
(* on each queue, gather the characters in uppercasedBuffer and send back  *)
(* as many bytes as were received.                                         *)
(*                                                                         *)
(* A round is UppercaseRound, which DecodeRound implements.  The           *)
(* connection is a byte stream: one recv takes what has arrived, be it     *)
(* part of what the server sent or several of its sends together.          *)
(* ServerSends is any message; ChatPipeline composes this module with the  *)
(* server's threads.                                                       *)
(***************************************************************************)
EXTENDS VowelSwitch, FiniteSets

CONSTANTS
  BUFFER_SIZE,   \* encDec.h: 100
  Space, Newline,
  Message        \* what the server may send in one call

ASSUME BufferAssumption   == BUFFER_SIZE \in Nat \ {0} /\ BUFFER_SIZE % QueueSize = 0
ASSUME LayoutAssumption   == /\ {Space, Newline} \subseteq Byte \ {Nul}
                              /\ Space \notin {Lower[t] : t \in 1 .. 5}
ASSUME MessageAssumption  == Message \subseteq Seq(Byte) \ {<<>>}

VARIABLES
  inbound,           \* bytes under way from the server
  serverUp,          \* the server's end of the connection is open
  pc,                \* where main is
  request,           \* datastreamFromMainServer[0 .. dataBytesIncoming - 1]
  queues,            \* what main enqueued in, or can dequeue from, each queue
  done,              \* rounds ended for this request
  overlapped,        \* threads of the current round have overlapped
  raced,             \* history: those of some round of this request have
  uppercasedBuffer,  \* the global buffer, kept from request to request
  pastEnd,           \* history: a byte was stored behind uppercasedBuffer
  answered           \* history: the last request answered, with its reply

link == <<inbound, serverUp>>
work == <<request, queues, done, overlapped, raced>>
vars == <<link, pc, work, uppercasedBuffer, pastEnd, answered>>

Indexes == 0 .. BUFFER_SIZE - 1

\* The most one recv takes.
RecvSize == BUFFER_SIZE

\* Mutant: a full last queue is followed by another.
OneQueueMore(n) == n \div QueueSize + 1

\* (int)ceil((double)dataBytesIncoming / sizeOfQueue)
numberOfQueues(n) == (n + QueueSize - 1) \div QueueSize

\* Mutant: every byte received is enqueued, the line's end too.
WholeLine(r, i) ==
  [j \in Slot |-> LET k == (i - 1) * QueueSize + j + 1
                  IN  IF k <= Len(r) THEN r[k] ELSE Space]

\* The i-th input queue: all of the request but its last byte, then spaces.
InputQueue(r, i) ==
  [j \in Slot |-> LET k == (i - 1) * QueueSize + j + 1
                  IN  IF k < Len(r) THEN r[k] ELSE Space]

-----------------------------------------------------------------------------
NoAnswer == [request |-> <<>>, raced |-> FALSE, reply |-> <<>>]

Init ==
  /\ inbound = <<>> /\ serverUp = TRUE
  /\ pc = "recv"
  /\ request = <<>> /\ queues = <<>> /\ done = 0
  /\ overlapped = FALSE /\ raced = FALSE
  /\ uppercasedBuffer = [i \in Indexes |-> Nul]
  /\ pastEnd = FALSE
  /\ answered = NoAnswer

(* The server's side of the connection.                                    *)
ServerSends(m) ==
  /\ serverUp
  /\ inbound' = inbound \o m
  /\ UNCHANGED <<serverUp, pc, work, uppercasedBuffer, pastEnd, answered>>

ServerGoes ==
  /\ serverUp
  /\ serverUp' = FALSE
  /\ UNCHANGED <<inbound, pc, work, uppercasedBuffer, pastEnd, answered>>

(* recv, and the loops that fill the input queues.                         *)
Receive ==
  /\ pc = "recv"
  /\ \E n \in 1 .. RecvSize :
       /\ n <= Len(inbound)
       /\ request' = SubSeq(inbound, 1, n)
       /\ inbound' = SubSeq(inbound, n + 1, Len(inbound))
       /\ queues' = [i \in 1 .. numberOfQueues(n) |-> InputQueue(request', i)]
  /\ done' = 0 /\ overlapped' = FALSE /\ raced' = FALSE
  /\ pc' = "rounds"
  /\ UNCHANGED <<serverUp, uppercasedBuffer, pastEnd, answered>>

\* recv answers 0, or -1 when the server has gone: close and return.
ConnectionEnds ==
  /\ pc = "recv" /\ ~serverUp
  /\ pc' = "closed"
  /\ UNCHANGED <<link, work, uppercasedBuffer, pastEnd, answered>>

(* The round of threads on queue done + 1, as main sees it.                *)
RoundOverlaps ==
  /\ pc = "rounds" /\ done < Len(queues) /\ ~overlapped
  /\ overlapped' = TRUE /\ raced' = TRUE
  /\ UNCHANGED <<link, pc, request, queues, done, uppercasedBuffer, pastEnd, answered>>

\* Mutant: the loop over the queues does not advance.
SameRound == done

\* Mutant: the loop skips a queue.
RoundAfterNext == done + 2

NextRound == done + 1

RoundEnds ==
  /\ pc = "rounds" /\ done < Len(queues)
  /\ \E outcome \in RoundOutcomes(queues[done + 1], overlapped) :
       queues' = [queues EXCEPT ![done + 1] = outcome]
  /\ done' = NextRound
  /\ overlapped' = FALSE
  /\ UNCHANGED <<link, pc, request, raced, uppercasedBuffer, pastEnd, answered>>

\* Mutant: nothing is stored for a queue found empty.
StoredUnlessEmpty(k, c) == IF c = Nul THEN uppercasedBuffer[k] ELSE c

\* uppercasedBuffer[counter] = storeDequeuedData
Stored(k, c) == c

\* counter, after the queues are dequeued.
Dequeued == QueueSize * Len(queues)

\* Character k of uppercasedBuffer once all queues are dequeued in turn and
\* the line is ended; the terminator stored behind it may not fit.
Gathered(k) ==
  CASE k < Dequeued - 1 -> Stored(k, queues[k \div QueueSize + 1][k % QueueSize])
    [] k = Dequeued - 1 -> Newline
    [] k = Dequeued     -> Nul
    [] OTHER            -> uppercasedBuffer[k]

\* Mutant: as many bytes as were dequeued are sent.
SentWholeQueues == IF Dequeued < BUFFER_SIZE THEN Dequeued ELSE BUFFER_SIZE

\* send(server_socket, uppercasedBuffer, dataBytesIncoming, 0)
SentBytes == Len(request)

(* Dequeue everything, serverEncoder, and free the queues.  When the       *)
(* server has gone, send loses the reply or SIGPIPE ends the process.      *)
serverEncoder ==
  /\ pc = "rounds" /\ done = Len(queues)
  /\ uppercasedBuffer' = [k \in Indexes |-> Gathered(k)]
  /\ pastEnd' = (pastEnd \/ Dequeued >= BUFFER_SIZE)
  /\ answered' =
       [request |-> request, raced |-> raced,
        reply   |-> [k \in 1 .. SentBytes |-> uppercasedBuffer'[k - 1]]]
  /\ \/ pc' = "recv"
     \/ ~serverUp /\ pc' = "closed"
  /\ request' = <<>> /\ queues' = <<>> /\ done' = 0 /\ raced' = FALSE
  /\ UNCHANGED <<link, overlapped>>

\* The process is killed, and with it goes what it had in memory.
Killed ==
  /\ pc \notin {"closed", "killed"}
  /\ pc' = "killed"
  /\ inbound' = <<>> /\ request' = <<>> /\ queues' = <<>> /\ done' = 0
  /\ overlapped' = FALSE /\ raced' = FALSE
  /\ uppercasedBuffer' = [i \in Indexes |-> Nul]
  /\ answered' = NoAnswer
  /\ UNCHANGED <<serverUp, pastEnd>>

Next == \/ \E m \in Message : ServerSends(m)
        \/ ServerGoes \/ Receive \/ ConnectionEnds
        \/ RoundOverlaps \/ RoundEnds \/ serverEncoder \/ Killed

Spec == Init /\ [][Next]_vars

-----------------------------------------------------------------------------
TypeOK ==
  /\ inbound \in Seq(Byte)
  /\ serverUp \in BOOLEAN
  /\ pc \in {"recv", "rounds", "closed", "killed"}
  /\ request \in Seq(Byte) /\ Len(request) <= BUFFER_SIZE
  /\ queues \in Seq([Slot -> Byte]) /\ Len(queues) = numberOfQueues(Len(request))
  /\ done \in 0 .. Len(queues)
  /\ overlapped \in BOOLEAN /\ raced \in BOOLEAN
  /\ uppercasedBuffer \in [Indexes -> Byte]
  /\ pastEnd \in BOOLEAN
  /\ answered \in [request : Seq(Byte), raced : BOOLEAN, reply : Seq(Byte)]

(* Between recv and send: the queues whose round is over hold what the     *)
(* threads may have made of their part of the request, its vowels in       *)
(* uppercase if no threads overlapped; the others hold it as it was filled *)
(* in.                                                                     *)
WorkInv ==
  /\ pc = "rounds" <=> request # <<>>
  /\ overlapped => raced /\ done < Len(queues)
  /\ \A i \in 1 .. Len(queues) :
       LET given == InputQueue(request, i)
       IN  /\ queues[i] \in [Slot -> Permitted(given)]
           /\ i > done => queues[i] = given
           /\ i <= done /\ ~raced => \A j \in Slot : queues[i][j] = UppercaseAll(given[j])

(* A reply speaks of its own request only: uppercasedBuffer is shared by   *)
(* all requests and never cleared, yet no character of an earlier request  *)
(* is ever sent with a later one.                                          *)
NothingStale ==
  LET r == answered.request
  IN  \A k \in 1 .. Len(r) :
        answered.reply[k] \in {Nul, Space, Newline}
          \cup {r[j] : j \in 1 .. Len(r)}
          \cup {UppercaseAll(r[j]) : j \in 1 .. Len(r)}

(* If no threads overlapped, the reply is the request with its vowels      *)
(* uppercased, character by character, except for the last one: that is a  *)
(* newline when the request fills its queues and a space when it does not. *)
SerialReplyIsCorrect ==
  LET r == answered.request
      y == answered.reply
  IN  r # <<>> /\ ~answered.raced =>
        /\ \A k \in 1 .. Len(r) - 1 : y[k] = UppercaseAll(r[k])
        /\ y[Len(r)] = IF Len(r) % QueueSize = 0 THEN Newline ELSE Space

(* The terminator of a reply is stored behind uppercasedBuffer only for a  *)
(* request that needs the last queue of a full buffer.                     *)
OverrunsOnlyWhenFull ==
  [][pastEnd' # pastEnd => Len(request) + QueueSize > BUFFER_SIZE]_vars
=============================================================================
