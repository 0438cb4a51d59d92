------------------------------ MODULE ChatPipeline ------------------------------
(***************************************************************************)
(* The way of a client's bytes: from its user's lines (3_client.c) through *)
(* its thread of the server (clientThreadSplitFunction and                 *)
(* talkWithHelperServer in 2_server.c) to the helper node and back, up to  *)
(* the text that the thread broadcasts.  HelperNode is composed with the   *)
(* threads, which are its environment; the helper may die.                 *)
(*                                                                         *)
(* ChatServer has the roster and the loops over it and knows a line only   *)
(* by its number.  Here the roster is left out, and bytes, the sizes of    *)
(* the arrays and what they held before matter.                            *)
(***************************************************************************)
EXTENDS HelperNode

CONSTANTS
  Client,
  Stream,     \* the bytes each user types: a name, and then lines
  NameSize,   \* the length of the name, which is sent without its newline
  Markup,     \* the length of "[]=> ": 5
  Junk        \* a byte of an array that nothing was stored in

ASSUME StreamAssumption ==
  \A c \in Client : /\ Stream[c] \in Seq(Byte \ {Nul})
                    /\ NameSize[c] \in 1 .. Len(Stream[c]) /\ NameSize[c] < BUFFER_SIZE
ASSUME FactorAssumption ==
  \A c \in Client : \A i, j \in 1 .. Len(Stream[c]) :
    i <= j /\ j < i + BUFFER_SIZE => SubSeq(Stream[c], i, j) \in Message
ASSUME MarkupAssumption == Markup \in Nat /\ Junk \notin Byte

VARIABLES
  said,       \* where in Stream each send of the client ended
  got,        \* bytes of Stream received by the server
  th,         \* the threads, one for each client
  outbound,   \* bytes under way from the helper
  reset,      \* the helper has gone and the connection is known to be reset
  owed,       \* history: bytes asked of the helper and not yet heard
  crossed,    \* history: a thread asked the helper while another waited
  parted,     \* history: a recv at the helper's socket left bytes under way
  mixed,      \* history: threads of the helper have overlapped
  spilled     \* history: a terminator was stored behind origSender or dataWeWantToSend

clients  == <<said, got>>
notes    == <<crossed, parted, mixed, spilled>>
pipeline == <<vars, clients, th, outbound, reset, owed, notes>>

\* What a thread holds when it has begun, or no longer exists.
ThreadAt(label) ==
  [at |-> label, nameSize |-> 0, dataWeWantToSend |-> <<>>,
   outputBufferBoi |-> [i \in Indexes |-> Junk], heard |-> 0, again |-> FALSE]

PipelineInit ==
  /\ Init
  /\ said = [c \in Client |-> <<>>] /\ got = [c \in Client |-> 0]
  /\ th = [c \in Client |-> ThreadAt("name")]
  /\ outbound = <<>>
  /\ reset = FALSE
  /\ owed = 0
  /\ crossed = FALSE /\ parted = FALSE /\ mixed = FALSE /\ spilled = FALSE

-----------------------------------------------------------------------------
(* The clients.                                                            *)
Sent(c) == IF said[c] = <<>> THEN 0 ELSE said[c][Len(said[c])]

\* The most characters fgets(outgoingDatastream, BUFFER_SIZE, stdin) returns.
LineSize == BUFFER_SIZE - 1

\* Where the next send ends: after the name, then after a newline, unless
\* the array is full or the input over before.
EndOfSend(c, e) ==
  IF said[c] = <<>>
  THEN e = NameSize[c]
  ELSE /\ e \in Sent(c) + 1 .. Len(Stream[c]) /\ e <= Sent(c) + LineSize
       /\ Stream[c][e] # Newline => e \in {Sent(c) + LineSize, Len(Stream[c])}
       /\ \A k \in Sent(c) + 1 .. e - 1 : Stream[c][k] # Newline

Say(c) ==
  /\ serverUp
  /\ \E e \in 1 .. Len(Stream[c]) :
       EndOfSend(c, e) /\ said' = [said EXCEPT ![c] = Append(@, e)]
  /\ UNCHANGED <<vars, got, th, outbound, reset, owed, notes>>

-----------------------------------------------------------------------------
(* clientThreadSplitFunction, as the thread of client t.                   *)
Become(t, r) == serverUp /\ th' = [th EXCEPT ![t] = r]

\* The server's process ends, and with it its threads.
ServerEnds ==
  /\ ServerGoes
  /\ th' = [t \in Client |-> ThreadAt("stopped")]
  /\ got' = [t \in Client |-> 0]
  /\ outbound' = <<>> /\ reset' = FALSE /\ owed' = 0

\* Mutant: the terminator leaves a gap.
OneFurther(n) == n + 1

\* Where the terminator goes behind n bytes.
Terminator(n) == n

\* recv(clientSocketID, ..., BUFFER_SIZE, 0): all that has come (a send comes
\* as a whole), or an array full; the terminator goes behind it.
Recv(t, n) ==
  /\ got[t] + n <= Sent(t) /\ n \in {BUFFER_SIZE, Sent(t) - got[t]}
  /\ got' = [got EXCEPT ![t] = @ + n]
  /\ spilled' = (spilled \/ Terminator(n) >= BUFFER_SIZE)
  /\ UNCHANGED <<vars, said, outbound, reset, owed, crossed, parted, mixed>>

RecvName(t) ==
  /\ th[t].at = "name"
  /\ \E n \in 1 .. BUFFER_SIZE :
       Recv(t, n) /\ Become(t, [th[t] EXCEPT !.at = "recv", !.nameSize = n])

RecvText(t) ==
  /\ th[t].at = "recv"
  /\ \E n \in 1 .. BUFFER_SIZE :
       /\ Recv(t, n)
       /\ Become(t, [th[t] EXCEPT !.at = "ask",
                                  !.dataWeWantToSend = SubSeq(Stream[t], got[t] + 1, got[t] + n)])

\* Mutant: the terminator is sent too.
WithTerminator(t) == Append(th[t].dataWeWantToSend, Nul)

\* strlen(dataSentToHelper) bytes
Request(t) == th[t].dataWeWantToSend

(* talkWithHelperServer sends.  The first send to a helper that has gone   *)
(* resets the connection; after that SIGPIPE may end the server.           *)
AskHelper(t) ==
  /\ th[t].at = "ask"
  /\ \/ /\ pc # "killed"
        /\ ServerSends(Request(t))
        /\ Become(t, [th[t] EXCEPT !.at = "answer"])
        /\ owed' = owed + Len(th[t].dataWeWantToSend)
        /\ UNCHANGED <<got, outbound, reset>>
     \/ /\ pc = "killed"
        /\ reset' = TRUE
        /\ Become(t, [th[t] EXCEPT !.at = "answer"])
        /\ UNCHANGED <<vars, got, outbound, owed>>
     \/ /\ pc = "killed" /\ reset
        /\ ServerEnds
  /\ crossed' = (crossed \/ \E u \in Client \ {t} : th[u].at = "answer")
  /\ UNCHANGED <<said, parted, mixed, spilled>>

\* Mutant: the bytes stay in the socket.
StillThere(n) == outbound

Unheard(n) == SubSeq(outbound, n + 1, Len(outbound))

\* talkWithHelperServer receives what has come by now, be it a part of the
\* answer or more than it, and stores it in outputBufferBoi.
HearHelper(t) ==
  /\ th[t].at = "answer"
  /\ \E n \in 1 .. BUFFER_SIZE :
       /\ n <= Len(outbound)
       /\ Become(t, [th[t] EXCEPT !.at = "cast", !.heard = n,
                                  !.outputBufferBoi =
                                     [i \in Indexes |-> IF i < n THEN outbound[i + 1] ELSE @[i]]])
       /\ outbound' = Unheard(n)
       /\ owed' = owed - n
  /\ parted' = (parted \/ owed' # 0)
  /\ UNCHANGED <<vars, clients, reset, crossed, mixed, spilled>>

\* recv answers 0 or -1, which nobody looks at.
HearNothing(t) ==
  /\ th[t].at = "answer" /\ pc = "killed" /\ outbound = <<>>
  /\ Become(t, [th[t] EXCEPT !.at = "cast", !.heard = 0])
  /\ UNCHANGED <<vars, clients, outbound, reset, owed, notes>>

\* Mutant: the array is not cleared.
KeepBuffer(b) == b

\* memset(outputBufferBoi, 0, BUFFER_SIZE)
Cleared(b) == [i \in Indexes |-> Nul]

\* sendPublicMessage, and the end of the loop's body.
Cast(t) ==
  /\ th[t].at = "cast"
  /\ Become(t, [th[t] EXCEPT !.at = "recv", !.dataWeWantToSend = <<>>, !.heard = 0,
                             !.again = TRUE, !.outputBufferBoi = Cleared(@)])
  /\ UNCHANGED <<vars, clients, outbound, reset, owed, notes>>

Thread(t) ==
  RecvName(t) \/ RecvText(t) \/ AskHelper(t) \/ HearHelper(t) \/ HearNothing(t) \/ Cast(t)

\* The server ends for another reason: a client's SIGPIPE, or its operator.
ServerStops == ServerEnds /\ UNCHANGED <<said, notes>>

-----------------------------------------------------------------------------
(* The helper.                                                             *)
HelperReceives ==
  /\ Receive
  /\ parted' = (parted \/ inbound' # <<>>)
  /\ UNCHANGED <<clients, th, outbound, reset, owed, crossed, mixed, spilled>>

HelperWorks ==
  /\ RoundOverlaps \/ RoundEnds \/ ConnectionEnds
  /\ mixed' = (mixed \/ overlapped')
  /\ UNCHANGED <<clients, th, outbound, reset, owed, crossed, parted, spilled>>

HelperReplies ==
  /\ serverEncoder
  /\ outbound' = IF serverUp THEN outbound \o answered'.reply ELSE outbound
  /\ UNCHANGED <<clients, th, reset, owed, notes>>

\* What the helper has sent still arrives; what it has not read resets the
\* connection at once.
HelperDies ==
  /\ Killed
  /\ reset' = (inbound # <<>>)
  /\ owed' = Len(outbound)
  /\ UNCHANGED <<clients, th, outbound, notes>>

PipelineNext ==
  \/ \E c \in Client : Say(c) \/ Thread(c)
  \/ ServerStops
  \/ HelperReceives \/ HelperWorks \/ HelperReplies \/ HelperDies

PipelineSpec == PipelineInit /\ [][PipelineNext]_pipeline

(* The threads and the helper's main are scheduled; users need do nothing. *)
(* A round of the helper is only sure to end if no threads overlap: all of *)
(* them start, so the others have then exited before the last one does,    *)
(* which exits too (LastThreadExits in DecodeRound).                       *)
PipelineFairSpec ==
  /\ PipelineSpec
  /\ \A t \in Client : WF_pipeline(Thread(t))
  /\ WF_pipeline(HelperReceives) /\ WF_pipeline(HelperReplies)
  /\ WF_pipeline(HelperWorks /\ RoundEnds /\ ~overlapped)

-----------------------------------------------------------------------------
ThreadType ==
  [at : {"name", "recv", "ask", "answer", "cast", "stopped"},
   nameSize : 0 .. BUFFER_SIZE,
   dataWeWantToSend : Seq(Byte \ {Nul}),
   outputBufferBoi : [Indexes -> Byte \cup {Junk}],
   heard : 0 .. BUFFER_SIZE,
   again : BOOLEAN]

ThreadsTypeOK ==
  /\ said \in [Client -> Seq(Nat)] /\ got \in [Client -> Nat]
  /\ th \in [Client -> ThreadType]
  /\ \A c \in Client :
       /\ said[c] \in Seq(1 .. Len(Stream[c])) /\ got[c] <= Sent(c)
       /\ Len(Request(c)) <= BUFFER_SIZE
       /\ th[c].at \in {"ask", "answer", "cast"} <=> Request(c) # <<>>

PipelineTypeOK ==
  /\ ThreadsTypeOK
  /\ outbound \in Seq(Byte)
  /\ reset \in BOOLEAN
  /\ owed \in Nat
  /\ crossed \in BOOLEAN /\ parted \in BOOLEAN /\ mixed \in BOOLEAN /\ spilled \in BOOLEAN

(* The threads are an environment as HelperNode expects it: what it        *)
(* promises holds in the composition.                                      *)
ImplementsHelper == Spec

(* The helper sends as many bytes as it is sent, however requests are cut  *)
(* or joined: what the threads have asked and not heard is under way.      *)
EveryByteComesBack ==
  serverUp => owed = Len(outbound) + Len(request) + Len(inbound)

\* The room that snprintf leaves for the text, before its terminator.
Room(t) ==
  LET used == Markup + th[t].nameSize + 1
  IN  IF used < BUFFER_SIZE THEN BUFFER_SIZE - used ELSE 0

\* outboundMessage takes over the first n characters of outputBufferBoi.
Shows(t, n) ==
  n <= Room(t) /\ \A i \in 0 .. n - 1 : th[t].outputBufferBoi[i] # Nul

(* From its second broadcast on, a thread shows nothing but what it has    *)
(* just heard: no part of an earlier answer follows a shorter one, and     *)
(* nothing is repeated when the helper has gone.  (The first time          *)
(* outputBufferBoi holds anything behind the answer.)                      *)
NothingLeftOver ==
  \A t \in Client : th[t].at = "cast" /\ th[t].again =>
    \A n \in 1 .. BUFFER_SIZE : Shows(t, n) => n <= th[t].heard

\* Character k of what the helper is to make of the line x.
AnswerTo(x, k) ==
  IF k < Len(x) THEN UppercaseAll(x[k])
                ELSE IF Len(x) % QueueSize = 0 THEN Newline ELSE Space

(* If threads ask one after another, nothing is cut and no threads of the  *)
(* helper overlap, a thread broadcasts its own client's line with the      *)
(* vowels uppercased, as far as there is room, its last character replaced *)
(* by a newline or a space.                                                *)
BroadcastIsOwnLine ==
  ~crossed /\ ~parted /\ ~mixed =>
    \A t \in Client : th[t].at = "cast" /\ th[t].heard # 0 =>
      /\ th[t].heard = Len(Request(t))
      /\ \A k \in 1 .. Len(Request(t)) : k <= Room(t) =>
           Shows(t, k) /\ th[t].outputBufferBoi[k - 1] = AnswerTo(Request(t), k)

(* A terminator is stored behind an array only if bytes of several sends   *)
(* of the client are received together.                                    *)
SpillsOnlyWhenJoined ==
  [][spilled' # spilled =>
       \E c \in Client : \E k \in DOMAIN said[c] : got[c] < said[c][k] /\ said[c][k] < got'[c]
    ]_pipeline

(* A thread that asks the helper is answered, also if requests are cut or  *)
(* the helper dies, unless another thread has taken its answer, the        *)
(* helper's threads have overlapped, or the server has ended.              *)
RequestsAreAnswered ==
  \A t \in Client :
    th[t].at = "answer" ~> (th[t].at # "answer" \/ crossed \/ raced \/ ~serverUp)
=============================================================================
