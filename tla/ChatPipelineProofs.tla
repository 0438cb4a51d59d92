-------------------------- MODULE ChatPipelineProofs --------------------------
(***************************************************************************)
(* Proofs about the way of a client's bytes through the server and the     *)
(* helper node: for any number of clients, whatever they type, and arrays  *)
(* and queues of any size.                                                 *)
(***************************************************************************)
EXTENDS ChatPipeline, HelperNodeProofs

(* Where the last send ended, and what appending one more does to it.      *)
LEMMA SentType ==
  ASSUME ThreadsTypeOK, NEW c \in Client
  PROVE  Sent(c) \in 0 .. Len(Stream[c])
<1>1. said[c] \in Seq(1 .. Len(Stream[c])) /\ Len(Stream[c]) \in Nat
  BY StreamAssumption DEF ThreadsTypeOK
<1> QED  BY <1>1 DEF Sent

(* A send of one client adds to what it has sent, and to nobody else's.    *)
LEMMA SentAfterSay ==
  ASSUME ThreadsTypeOK, NEW c \in Client, NEW e \in 1 .. Len(Stream[c]),
         EndOfSend(c, e), said' = [said EXCEPT ![c] = Append(@, e)]
  PROVE  /\ said' \in [Client -> Seq(Nat)]
         /\ said'[c] \in Seq(1 .. Len(Stream[c]))
         /\ Sent(c)' = e /\ Sent(c) < e
         /\ \A d \in Client \ {c} : said'[d] = said[d] /\ Sent(d)' = Sent(d)
<1>1. /\ said \in [Client -> Seq(Nat)] /\ Len(Stream[c]) \in Nat
      /\ said[c] \in Seq(1 .. Len(Stream[c])) /\ e \in Nat
  BY StreamAssumption DEF ThreadsTypeOK
<1>2. said'[c] = Append(said[c], e)
  BY <1>1
<1>3. /\ said'[c] \in Seq(1 .. Len(Stream[c])) /\ said'[c] \in Seq(Nat)
      /\ Len(said'[c]) = Len(said[c]) + 1 /\ said'[c][Len(said[c]) + 1] = e
      /\ said'[c] # <<>>
  BY <1>1, <1>2, AppendProperties
<1>4. Sent(c)' = e
  BY <1>3 DEF Sent
<1>5. Sent(c) < e
  BY <1>1, SentType DEF EndOfSend, Sent
<1>6. \A d \in Client \ {c} : said'[d] = said[d] /\ Sent(d)' = Sent(d)
  BY <1>1 DEF Sent
<1>7. said' \in [Client -> Seq(Nat)]
  BY <1>1, <1>3
<1> QED  BY <1>3, <1>4, <1>5, <1>6, <1>7

(* A recv takes a piece of what has been typed, no longer than the array:  *)
(* such a piece is a message of HelperNode.                                *)
LEMMA RecvTakesMessage ==
  ASSUME ThreadsTypeOK, NEW t \in Client, NEW n \in 1 .. BUFFER_SIZE, Recv(t, n)
  PROVE  LET m == SubSeq(Stream[t], got[t] + 1, got[t] + n)
         IN  /\ m \in Message /\ m \in Seq(Byte \ {Nul}) /\ Len(m) = n
             /\ got' \in [Client -> Nat] /\ \A c \in Client : got'[c] <= Sent(c)
             /\ got'[t] = got[t] + n
<1> DEFINE i == got[t] + 1
           j == got[t] + n
<1>1. /\ got \in [Client -> Nat] /\ BUFFER_SIZE \in Nat /\ Len(Stream[t]) \in Nat
      /\ Sent(t) \in 0 .. Len(Stream[t]) /\ Stream[t] \in Seq(Byte \ {Nul})
  BY SentType, StreamAssumption, BufferAssumption DEF ThreadsTypeOK
<1>2. j <= Sent(t) /\ got' = [got EXCEPT ![t] = @ + n]
  BY DEF Recv
<1>3. /\ i \in 1 .. Len(Stream[t]) /\ j \in 1 .. Len(Stream[t])
      /\ i <= j /\ j < i + BUFFER_SIZE
  BY <1>1, <1>2
<1>4. SubSeq(Stream[t], i, j) \in Message
  BY <1>3, FactorAssumption
<1>5. SubSeq(Stream[t], i, j) \in Seq(Byte \ {Nul}) /\ Len(SubSeq(Stream[t], i, j)) = n
  <2>1. \A k \in i .. j : Stream[t][k] \in Byte \ {Nul}
    BY <1>1, <1>3
  <2> QED  BY <1>1, <1>3, <2>1, SubSeqProperties
<1>6. /\ got' \in [Client -> Nat] /\ \A c \in Client : got'[c] <= Sent(c)
      /\ got'[t] = got[t] + n
  BY <1>1, <1>2 DEF ThreadsTypeOK
<1> QED  BY <1>4, <1>5, <1>6

-----------------------------------------------------------------------------
\* What a thread asks the helper is a message.
AsksMessages == \A t \in Client : th[t].at = "ask" => Request(t) \in Message

(* The states from which threads set out are well typed.                   *)
LEMMA ThreadAtType ==
  ASSUME NEW label \in {"name", "recv", "ask", "answer", "cast", "stopped"}
  PROVE  ThreadAt(label) \in ThreadType
<1>1. [i \in Indexes |-> Junk] \in [Indexes -> Byte \cup {Junk}]
  OBVIOUS
<1>2. 0 \in 0 .. BUFFER_SIZE /\ <<>> \in Seq(Byte \ {Nul})
  BY BufferAssumption
<1> QED  BY <1>1, <1>2 DEF ThreadAt, ThreadType

(* A thread that changes to a well-formed r, with nothing said or received *)
(* meanwhile, leaves all threads well-formed.                              *)
LEMMA BecomeType ==
  ASSUME ThreadsTypeOK, AsksMessages, NEW t \in Client, NEW r \in ThreadType, Become(t, r),
         Len(r.dataWeWantToSend) <= BUFFER_SIZE,
         r.at \in {"ask", "answer", "cast"} <=> r.dataWeWantToSend # <<>>,
         r.at = "ask" => r.dataWeWantToSend \in Message,
         said' = said, got' \in [Client -> Nat], \A c \in Client : got'[c] <= Sent(c)
  PROVE  ThreadsTypeOK' /\ AsksMessages'
<1>1. /\ th' \in [Client -> ThreadType] /\ th'[t] = r
      /\ \A u \in Client \ {t} : th'[u] = th[u]
  BY DEF Become, ThreadsTypeOK
<1>2. \A c \in Client : Sent(c)' = Sent(c)
  BY DEF Sent
<1>3. \A u \in Client : th'[u] = r \/ th'[u] = th[u]
  BY <1>1
<1>4. ThreadsTypeOK'
  BY <1>1, <1>2, <1>3 DEF ThreadsTypeOK, Request
<1>5. AsksMessages'
  BY <1>3 DEF AsksMessages, Request
<1> QED  BY <1>4, <1>5

(* When the server ends, its threads hold nothing.                         *)
LEMMA ServerEndsType ==
  ASSUME ThreadsTypeOK, ServerEnds, said' = said
  PROVE  ThreadsTypeOK' /\ AsksMessages'
<1>1. /\ th' = [t \in Client |-> ThreadAt("stopped")] /\ got' = [t \in Client |-> 0]
      /\ ThreadAt("stopped") \in ThreadType
  BY ThreadAtType DEF ServerEnds
<1>2. \A c \in Client : /\ th'[c].at = "stopped" /\ th'[c].dataWeWantToSend = <<>>
                        /\ got'[c] = 0
  BY <1>1 DEF ThreadAt
<1>3. \A c \in Client : Sent(c)' = Sent(c) /\ Sent(c) >= 0
  BY SentType DEF Sent
<1>4. Len(<<>>) <= BUFFER_SIZE
  BY BufferAssumption
<1> QED  BY <1>1, <1>2, <1>3, <1>4 DEF ThreadsTypeOK, AsksMessages, Request

(* ThreadsTypeOK and AsksMessages hold whatever the helper does: they do   *)
(* not depend on what comes back from it.                                  *)
LEMMA ThreadsStep ==
  ASSUME ThreadsTypeOK, AsksMessages, outbound \in Seq(Byte), [PipelineNext]_pipeline
  PROVE  ThreadsTypeOK' /\ AsksMessages'
<1>0. /\ \A t \in Client : th[t] \in ThreadType
      /\ 0 \in 0 .. BUFFER_SIZE /\ \A n \in 1 .. BUFFER_SIZE : n \in 0 .. BUFFER_SIZE
      /\ <<>> \in Seq(Byte \ {Nul})
  BY BufferAssumption DEF ThreadsTypeOK
<1>1. ASSUME NEW c \in Client, Say(c) PROVE ThreadsTypeOK' /\ AsksMessages'
  <2>1. PICK e \in 1 .. Len(Stream[c]) :
          EndOfSend(c, e) /\ said' = [said EXCEPT ![c] = Append(@, e)]
    BY <1>1 DEF Say
  <2>2. /\ said' \in [Client -> Seq(Nat)]
        /\ said'[c] \in Seq(1 .. Len(Stream[c]))
        /\ Sent(c)' = e /\ Sent(c) < e
        /\ \A d \in Client \ {c} : said'[d] = said[d] /\ Sent(d)' = Sent(d)
    BY <2>1, SentAfterSay
  <2>3. UNCHANGED <<got, th>>
    BY <1>1 DEF Say
  <2>4. ASSUME NEW d \in Client PROVE got'[d] <= Sent(d)'
    <3>1. got'[d] \in Nat /\ Sent(d) \in Nat /\ got'[d] <= Sent(d)
      BY <2>3, SentType DEF ThreadsTypeOK
    <3>2. Sent(d)' \in Nat /\ Sent(d) <= Sent(d)'
      <4>1. CASE d = c
        BY <2>2, <3>1, <4>1
      <4>2. CASE d # c
        BY <2>2, <3>1, <4>2
      <4> QED  BY <4>1, <4>2
    <3> QED  BY <3>1, <3>2
  <2>5. \A d \in Client : said'[d] \in Seq(1 .. Len(Stream[d]))
    BY <2>2 DEF ThreadsTypeOK
  <2> QED  BY <2>2, <2>3, <2>4, <2>5 DEF ThreadsTypeOK, AsksMessages, Request
<1>2. ASSUME NEW t \in Client, RecvName(t) PROVE ThreadsTypeOK' /\ AsksMessages'
  <2>1. PICK n \in 1 .. BUFFER_SIZE :
          Recv(t, n) /\ Become(t, [th[t] EXCEPT !.at = "recv", !.nameSize = n])
    BY <1>2 DEF RecvName
  <2> DEFINE r == [th[t] EXCEPT !.at = "recv", !.nameSize = n]
  <2>2. r \in ThreadType /\ r.at = "recv" /\ r.dataWeWantToSend = Request(t)
    BY <1>0 DEF ThreadType, Request
  <2>3. Request(t) = <<>> /\ Len(Request(t)) <= BUFFER_SIZE
    BY <1>2 DEF RecvName, ThreadsTypeOK
  <2>4. /\ said' = said /\ got' \in [Client -> Nat]
        /\ \A c \in Client : got'[c] <= Sent(c)
    BY <2>1, RecvTakesMessage DEF Recv
  <2> HIDE DEF r
  <2> QED  BY <2>1, <2>2, <2>3, <2>4, BecomeType DEF r
<1>3. ASSUME NEW t \in Client, RecvText(t) PROVE ThreadsTypeOK' /\ AsksMessages'
  <2>1. PICK n \in 1 .. BUFFER_SIZE :
          /\ Recv(t, n)
          /\ Become(t, [th[t] EXCEPT !.at = "ask",
                            !.dataWeWantToSend = SubSeq(Stream[t], got[t] + 1, got[t] + n)])
    BY <1>3 DEF RecvText
  <2> DEFINE x == SubSeq(Stream[t], got[t] + 1, got[t] + n)
             r == [th[t] EXCEPT !.at = "ask", !.dataWeWantToSend = x]
  <2>2. /\ x \in Message /\ x \in Seq(Byte \ {Nul}) /\ Len(x) = n
        /\ got' \in [Client -> Nat] /\ \A c \in Client : got'[c] <= Sent(c)
    BY <2>1, RecvTakesMessage
  <2>3. said' = said /\ Become(t, r)
    BY <2>1 DEF Recv
  <2> HIDE DEF x
  <2>4. x # <<>> /\ Len(x) <= BUFFER_SIZE
    BY <2>2, BufferAssumption
  <2>5. r \in ThreadType /\ r.at = "ask" /\ r.dataWeWantToSend = x
    BY <1>0, <2>2 DEF ThreadType
  <2> HIDE DEF r
  <2> QED  BY <2>2, <2>3, <2>4, <2>5, BecomeType
<1>4. ASSUME NEW t \in Client, AskHelper(t) PROVE ThreadsTypeOK' /\ AsksMessages'
  <2> DEFINE r == [th[t] EXCEPT !.at = "answer"]
  <2>1. th[t].at = "ask" /\ said' = said
    BY <1>4 DEF AskHelper
  <2>2. CASE ServerEnds
    BY <2>1, <2>2, ServerEndsType
  <2>3. CASE Become(t, r) /\ got' = got
    <3>1. r \in ThreadType /\ r.at = "answer" /\ r.dataWeWantToSend = Request(t)
      BY <1>0 DEF ThreadType, Request
    <3>2. /\ Request(t) # <<>> /\ Len(Request(t)) <= BUFFER_SIZE
          /\ got' \in [Client -> Nat] /\ \A c \in Client : got'[c] <= Sent(c)
      BY <2>1, <2>3 DEF ThreadsTypeOK
    <3> HIDE DEF r
    <3> QED  BY <2>1, <2>3, <3>1, <3>2, BecomeType
  <2> QED  BY <1>4, <2>2, <2>3 DEF AskHelper
<1>5. ASSUME NEW t \in Client, HearHelper(t) PROVE ThreadsTypeOK' /\ AsksMessages'
  <2>1. PICK n \in 1 .. BUFFER_SIZE :
          /\ n <= Len(outbound)
          /\ Become(t, [th[t] EXCEPT !.at = "cast", !.heard = n,
                            !.outputBufferBoi =
                               [i \in Indexes |-> IF i < n THEN outbound[i + 1] ELSE @[i]]])
    BY <1>5 DEF HearHelper
  <2> DEFINE b == [i \in Indexes |-> IF i < n THEN outbound[i + 1] ELSE th[t].outputBufferBoi[i]]
             r == [th[t] EXCEPT !.at = "cast", !.heard = n, !.outputBufferBoi = b]
  <2>2. b \in [Indexes -> Byte \cup {Junk}]
    <3>1. th[t].outputBufferBoi \in [Indexes -> Byte \cup {Junk}]
      BY DEF ThreadsTypeOK, ThreadType
    <3>2. ASSUME NEW i \in Indexes, i < n PROVE outbound[i + 1] \in Byte
      BY <2>1, <3>2, BufferAssumption DEF Indexes
    <3> QED  BY <3>1, <3>2
  <2>3. Become(t, r)
    BY <2>1
  <2> HIDE DEF b
  <2>4. r \in ThreadType /\ r.at = "cast" /\ r.dataWeWantToSend = Request(t)
    BY <1>0, <2>2 DEF ThreadType, Request
  <2>5. /\ Request(t) # <<>> /\ Len(Request(t)) <= BUFFER_SIZE
        /\ said' = said /\ got' \in [Client -> Nat] /\ \A c \in Client : got'[c] <= Sent(c)
    BY <1>5 DEF HearHelper, ThreadsTypeOK, clients
  <2> HIDE DEF r
  <2> QED  BY <2>3, <2>4, <2>5, BecomeType
<1>6. ASSUME NEW t \in Client, HearNothing(t) PROVE ThreadsTypeOK' /\ AsksMessages'
  <2> DEFINE r == [th[t] EXCEPT !.at = "cast", !.heard = 0]
  <2>1. Become(t, r)
    BY <1>6 DEF HearNothing
  <2>2. r \in ThreadType /\ r.at = "cast" /\ r.dataWeWantToSend = Request(t)
    BY <1>0 DEF ThreadType, Request
  <2>3. /\ Request(t) # <<>> /\ Len(Request(t)) <= BUFFER_SIZE
        /\ said' = said /\ got' \in [Client -> Nat] /\ \A c \in Client : got'[c] <= Sent(c)
    BY <1>6 DEF HearNothing, ThreadsTypeOK, clients
  <2> HIDE DEF r
  <2> QED  BY <2>1, <2>2, <2>3, BecomeType
<1>7. ASSUME NEW t \in Client, Cast(t) PROVE ThreadsTypeOK' /\ AsksMessages'
  <2> DEFINE b == [i \in Indexes |-> Nul]
             r == [th[t] EXCEPT !.at = "recv", !.dataWeWantToSend = <<>>, !.heard = 0,
                                !.again = TRUE, !.outputBufferBoi = b]
  <2>1. Become(t, r)
    BY <1>7 DEF Cast, Cleared
  <2>2. b \in [Indexes -> Byte \cup {Junk}]
    BY NulAssumption
  <2> HIDE DEF b
  <2>3. r \in ThreadType /\ r.at = "recv" /\ r.dataWeWantToSend = <<>>
    BY <1>0, <2>2 DEF ThreadType
  <2>4. /\ Len(<<>>) <= BUFFER_SIZE
        /\ said' = said /\ got' \in [Client -> Nat] /\ \A c \in Client : got'[c] <= Sent(c)
    BY <1>7, BufferAssumption DEF Cast, ThreadsTypeOK, clients
  <2> HIDE DEF r
  <2> QED  BY <2>1, <2>3, <2>4, BecomeType
<1>8. CASE ServerStops
  BY <1>8, ServerEndsType DEF ServerStops
<1>9. CASE UNCHANGED <<clients, th>>
  <2>1. \A c \in Client : Sent(c)' = Sent(c)
    BY <1>9 DEF Sent, clients
  <2> QED  BY <1>9, <2>1 DEF ThreadsTypeOK, AsksMessages, Request, clients
<1> QED
  BY <1>1, <1>2, <1>3, <1>4, <1>5, <1>6, <1>7, <1>8, <1>9
     DEF PipelineNext, Thread, HelperReceives, HelperWorks, HelperReplies, HelperDies, pipeline

-----------------------------------------------------------------------------
(* Every step of the composition is a step of HelperNode's next-state      *)
(* relation, or changes nothing of it.                                     *)
LEMMA HelperStep ==
  ASSUME AsksMessages, [PipelineNext]_pipeline
  PROVE  [Next]_vars
<1>1. ASSUME NEW t \in Client, AskHelper(t) PROVE [Next]_vars
  <2>1. Request(t) \in Message
    BY <1>1 DEF AskHelper, AsksMessages
  <2>2. ServerSends(Request(t)) \/ UNCHANGED vars \/ ServerGoes
    BY <1>1 DEF AskHelper, ServerEnds
  <2> QED  BY <2>1, <2>2 DEF Next
<1>2. ASSUME NEW t \in Client, RecvName(t) \/ RecvText(t) \/ HearHelper(t) \/ HearNothing(t) \/ Cast(t)
      PROVE  UNCHANGED vars
  BY <1>2 DEF RecvName, RecvText, Recv, HearHelper, HearNothing, Cast
<1>3. ASSUME NEW c \in Client, Say(c) PROVE UNCHANGED vars
  BY <1>3 DEF Say
<1>4. CASE ServerStops \/ HelperReceives \/ HelperWorks \/ HelperReplies \/ HelperDies
  BY <1>4 DEF ServerStops, ServerEnds, HelperReceives, HelperWorks, HelperReplies, HelperDies, Next
<1> QED  BY <1>1, <1>2, <1>3, <1>4 DEF PipelineNext, Thread, pipeline

(* outbound holds bytes only: what the helper replies is made of bytes.    *)
LEMMA OutboundStep ==
  ASSUME TypeOK, WorkInv, outbound \in Seq(Byte), [PipelineNext]_pipeline
  PROVE  outbound' \in Seq(Byte)
<1>0. <<>> \in Seq(Byte)
  OBVIOUS
<1>1. CASE HelperReplies
  <2>1. answered'.reply \in Seq(Byte)
    BY <1>1, EncoderTypes DEF HelperReplies
  <2> QED  BY <1>1, <2>1, ConcatProperties DEF HelperReplies
<1>2. ASSUME NEW t \in Client, HearHelper(t) PROVE outbound' \in Seq(Byte)
  <2>1. PICK n \in 1 .. BUFFER_SIZE : n <= Len(outbound) /\ outbound' = Unheard(n)
    BY <1>2 DEF HearHelper
  <2>2. \A i \in n + 1 .. Len(outbound) : outbound[i] \in Byte
    BY <2>1, BufferAssumption
  <2> QED  BY <2>1, <2>2, BufferAssumption, SubSeqProperties DEF Unheard
<1>3. ASSUME NEW t \in Client, AskHelper(t) PROVE outbound' \in Seq(Byte)
  BY <1>0, <1>3 DEF AskHelper, ServerEnds
<1>4. CASE UNCHANGED outbound \/ outbound' = <<>>
  BY <1>0, <1>4
<1> QED
  BY <1>1, <1>2, <1>3, <1>4
     DEF PipelineNext, Thread, Say, RecvName, RecvText, Recv, HearNothing, Cast, ServerStops, ServerEnds,
         HelperReceives, HelperWorks, HelperDies, pipeline

(* The helper's invariant and the threads' types, which need each other:   *)
(* the helper must be sent messages, the threads must hear bytes.          *)
PipelineInv == TypeOK /\ WorkInv /\ ThreadsTypeOK /\ AsksMessages /\ outbound \in Seq(Byte)

(* The types and the helper's invariant always hold.                       *)
LEMMA PipelineInvHolds == PipelineSpec => []PipelineInv
<1>1. PipelineInit => PipelineInv
  <2> SUFFICES ASSUME PipelineInit PROVE PipelineInv
    OBVIOUS
  <2>1. TypeOK /\ WorkInv
    BY HelperInit DEF PipelineInit
  <2>2. /\ said = [c \in Client |-> <<>>] /\ got = [c \in Client |-> 0]
        /\ th = [c \in Client |-> ThreadAt("name")]
    BY DEF PipelineInit
  <2>3. \A c \in Client : /\ th[c] \in ThreadType /\ Request(c) = <<>> /\ th[c].at = "name"
                          /\ Sent(c) = 0 /\ got[c] = 0 /\ said[c] = <<>>
    BY <2>2, ThreadAtType DEF ThreadAt, Request, Sent
  <2>4. ThreadsTypeOK /\ AsksMessages
    BY <2>2, <2>3, BufferAssumption DEF ThreadsTypeOK, AsksMessages
  <2> QED  BY <2>1, <2>4 DEF PipelineInit, PipelineInv
<1>2. PipelineInv /\ [PipelineNext]_pipeline => PipelineInv'
  BY HelperStep, HelperInvStep, ThreadsStep, OutboundStep DEF PipelineInv
<1> QED  BY <1>1, <1>2, PTL DEF PipelineSpec

(* ImplementsHelper: the threads of the server are an environment such as  *)
(* HelperNode assumes, so its theorems hold of the composition.            *)
THEOREM PipelineImplementsHelper == PipelineSpec => ImplementsHelper
<1>1. PipelineInit => Init
  BY DEF PipelineInit
<1>2. PipelineInv /\ [PipelineNext]_pipeline => [Next]_vars
  BY HelperStep DEF PipelineInv
<1> QED  BY <1>1, <1>2, PipelineInvHolds, PTL DEF PipelineSpec, ImplementsHelper, Spec

-----------------------------------------------------------------------------
\* Bytes asked and not yet heard are counted, and under way.
BytesInv == owed \in Nat /\ EveryByteComesBack

(* The account of bytes is inductive.                                      *)
LEMMA BytesStep ==
  ASSUME PipelineInv, BytesInv, [PipelineNext]_pipeline
  PROVE  BytesInv'
<1>1. /\ inbound \in Seq(Byte) /\ request \in Seq(Byte) /\ outbound \in Seq(Byte)
      /\ Len(inbound) \in Nat /\ Len(request) \in Nat /\ Len(outbound) \in Nat
      /\ owed \in Nat /\ Len(<<>>) = 0 /\ BUFFER_SIZE \in Nat
  BY BufferAssumption DEF PipelineInv, TypeOK, BytesInv
<1>2. ASSUME NEW t \in Client, AskHelper(t) PROVE BytesInv'
  <2>1. CASE ServerEnds
    BY <2>1 DEF ServerEnds, ServerGoes, BytesInv, EveryByteComesBack
  <2>2. CASE UNCHANGED vars /\ UNCHANGED <<outbound, owed>>
    BY <2>2 DEF vars, link, work, BytesInv, EveryByteComesBack
  <2>3. CASE ServerSends(Request(t)) /\ owed' = owed + Len(Request(t)) /\ outbound' = outbound
    <3>1. /\ inbound' = inbound \o Request(t) /\ request' = request
          /\ serverUp' = serverUp
      BY <2>3 DEF ServerSends, work
    <3>2. Request(t) \in Seq(Byte) /\ Len(Request(t)) \in Nat
      BY <1>2, MessageAssumption DEF AskHelper, PipelineInv, AsksMessages
    <3>3. Len(inbound') = Len(inbound) + Len(Request(t))
      BY <1>1, <3>1, <3>2, ConcatProperties
    <3>4. serverUp /\ owed = Len(outbound) + Len(request) + Len(inbound)
      BY <2>3 DEF ServerSends, BytesInv, EveryByteComesBack
    <3>5. owed' = Len(outbound') + Len(request') + Len(inbound') /\ owed' \in Nat
      BY <1>1, <2>3, <3>1, <3>2, <3>3, <3>4
    <3> QED  BY <3>5 DEF BytesInv, EveryByteComesBack
  <2> QED  BY <1>2, <2>1, <2>2, <2>3 DEF AskHelper, Request
<1>3. ASSUME NEW t \in Client, HearHelper(t) PROVE BytesInv'
  <2>1. PICK n \in 1 .. BUFFER_SIZE :
          n <= Len(outbound) /\ outbound' = Unheard(n) /\ owed' = owed - n
    BY <1>3 DEF HearHelper
  <2>2. /\ serverUp /\ serverUp' = serverUp
        /\ UNCHANGED <<inbound, request>>
    BY <1>3 DEF HearHelper, Become, vars, link, work
  <2>3. Len(outbound') = Len(outbound) - n
    <3>1. \A i \in n + 1 .. Len(outbound) : outbound[i] \in Byte
      BY <1>1, <2>1
    <3> QED  BY <1>1, <2>1, <3>1, SubSeqProperties DEF Unheard
  <2>4. owed = Len(outbound) + Len(request) + Len(inbound)
    BY <2>2 DEF BytesInv, EveryByteComesBack
  <2> QED  BY <1>1, <2>1, <2>2, <2>3, <2>4 DEF BytesInv, EveryByteComesBack
<1>4. CASE HelperReceives
  <2>1. PICK n \in 1 .. BUFFER_SIZE :
          /\ n <= Len(inbound)
          /\ request' = SubSeq(inbound, 1, n)
          /\ inbound' = SubSeq(inbound, n + 1, Len(inbound))
    BY <1>4 DEF HelperReceives, Receive, RecvSize
  <2>2. Len(request') = n /\ Len(inbound') = Len(inbound) - n
    <3>1. \A i \in 1 .. Len(inbound) : inbound[i] \in Byte
      BY <1>1
    <3> QED  BY <1>1, <2>1, <3>1, SubSeqProperties
  <2>3. Len(request) = 0
    BY <1>4 DEF HelperReceives, Receive, PipelineInv, WorkInv
  <2>4. UNCHANGED <<serverUp, outbound, owed>>
    BY <1>4 DEF HelperReceives, Receive
  <2>5. ASSUME serverUp' PROVE owed' = Len(outbound') + Len(request') + Len(inbound')
    <3>1. owed = Len(outbound) + Len(request) + Len(inbound)
      BY <2>4, <2>5 DEF BytesInv, EveryByteComesBack
    <3>2. Len(outbound') = Len(outbound) /\ owed' = owed
      BY <2>4
    <3> QED  BY <1>1, <2>2, <2>3, <3>1, <3>2
  <2> QED  BY <1>1, <2>4, <2>5 DEF BytesInv, EveryByteComesBack
<1>5. CASE HelperWorks
  BY <1>5 DEF HelperWorks, RoundOverlaps, RoundEnds, ConnectionEnds, link, work,
              BytesInv, EveryByteComesBack
<1>6. CASE HelperReplies
  <2>1. UNCHANGED <<inbound, serverUp, owed>> /\ request' = <<>>
    BY <1>6 DEF HelperReplies, serverEncoder, link
  <2>2. CASE serverUp
    <3>1. outbound' = outbound \o answered'.reply
      BY <1>6, <2>2 DEF HelperReplies
    <3>2. answered'.reply = [k \in 1 .. Len(request) |-> uppercasedBuffer'[k - 1]]
      BY <1>6 DEF HelperReplies, serverEncoder, SentBytes
    <3>3. answered'.reply \in Seq(Byte)
      BY <1>6, EncoderTypes DEF HelperReplies, PipelineInv
    <3>4. Len(answered'.reply) = Len(request)
      BY <1>1, <3>2, <3>3
    <3>5. Len(outbound') = Len(outbound) + Len(request)
      <4> DEFINE y == answered'.reply
      <4>1. outbound' = outbound \o y /\ y \in Seq(Byte) /\ Len(y) = Len(request)
        BY <3>1, <3>3, <3>4
      <4> HIDE DEF y
      <4>2. Len(outbound \o y) = Len(outbound) + Len(y)
        BY <1>1, <4>1, ConcatProperties
      <4> QED  BY <4>1, <4>2
    <3>6. owed = Len(outbound) + Len(request) + Len(inbound)
      BY <2>2 DEF BytesInv, EveryByteComesBack
    <3>7. owed' = Len(outbound') + Len(request') + Len(inbound')
      BY <1>1, <2>1, <3>5, <3>6
    <3> QED  BY <1>1, <2>1, <3>7 DEF BytesInv, EveryByteComesBack
  <2> QED  BY <1>1, <2>1, <2>2 DEF BytesInv, EveryByteComesBack
<1>7. CASE HelperDies
  BY <1>1, <1>7 DEF HelperDies, Killed, BytesInv, EveryByteComesBack
<1>8. CASE ServerStops
  BY <1>8 DEF ServerStops, ServerEnds, ServerGoes, BytesInv, EveryByteComesBack
<1>9. CASE UNCHANGED vars /\ UNCHANGED <<outbound, owed>>
  BY <1>9 DEF vars, link, work, BytesInv, EveryByteComesBack
<1> QED
  BY <1>2, <1>3, <1>4, <1>5, <1>6, <1>7, <1>8, <1>9
     DEF PipelineNext, Thread, Say, RecvName, RecvText, Recv, HearNothing, Cast, pipeline

(* EveryByteComesBack, and with it the types of the composition.           *)
THEOREM PipelineBytes == PipelineSpec => [](PipelineTypeOK /\ EveryByteComesBack)
<1> DEFINE Flags == /\ reset \in BOOLEAN /\ crossed \in BOOLEAN /\ parted \in BOOLEAN
                    /\ mixed \in BOOLEAN /\ spilled \in BOOLEAN
           IInv == BytesInv /\ Flags
<1>1. PipelineInit => IInv
  <2> SUFFICES ASSUME PipelineInit PROVE IInv
    OBVIOUS
  <2>1. Len(outbound) = 0 /\ Len(request) = 0 /\ Len(inbound) = 0 /\ owed = 0
    BY DEF PipelineInit, Init
  <2>2. BytesInv
    BY <2>1 DEF BytesInv, EveryByteComesBack
  <2> QED  BY <2>2 DEF PipelineInit
<1>2. PipelineInv /\ IInv /\ [PipelineNext]_pipeline => IInv'
  <2> SUFFICES ASSUME PipelineInv, IInv, [PipelineNext]_pipeline
               PROVE  IInv'
    OBVIOUS
  <2>1. BytesInv'
    BY BytesStep
  <2>2. Flags'
    <3>1. overlapped' \in BOOLEAN
      BY HelperStep, HelperInvStep DEF PipelineInv, TypeOK
    <3>2. ASSUME NEW t \in Client, AskHelper(t) PROVE Flags'
      BY <3>2 DEF AskHelper, ServerEnds
    <3>3. ASSUME NEW t \in Client, HearHelper(t) PROVE Flags'
      BY <3>3 DEF HearHelper
    <3>4. ASSUME NEW t \in Client, NEW n \in 1 .. BUFFER_SIZE, Recv(t, n) PROVE Flags'
      BY <3>4 DEF Recv
    <3>5. ASSUME NEW t \in Client, Say(t) \/ HearNothing(t) \/ Cast(t) PROVE Flags'
      BY <3>5 DEF Say, HearNothing, Cast, notes
    <3>6. CASE HelperReceives \/ HelperReplies \/ HelperDies \/ ServerStops
      BY <3>6 DEF HelperReceives, HelperReplies, HelperDies, ServerStops, ServerEnds, notes
    <3>7. CASE HelperWorks
      BY <3>1, <3>7, Zenon DEF HelperWorks
    <3> QED
      BY <3>2, <3>3, <3>4, <3>5, <3>6, <3>7
         DEF PipelineNext, Thread, RecvName, RecvText, notes, pipeline
  <2> QED  BY <2>1, <2>2
<1>3. PipelineInv /\ IInv => PipelineTypeOK /\ EveryByteComesBack
  BY DEF PipelineInv, BytesInv, PipelineTypeOK
<1> QED  BY <1>1, <1>2, <1>3, PipelineInvHolds, PTL DEF PipelineSpec

(* PipelineTypeOK: the count of the bytes owed never goes below zero, and  *)
(* what a thread has to ask fits in its array.                             *)
THEOREM PipelineTypes == PipelineSpec => []PipelineTypeOK
BY PipelineBytes, PTL

-----------------------------------------------------------------------------
\* Once a thread has cleared outputBufferBoi it holds nothing but what has
\* been heard since.
ClearedInv ==
  \A t \in Client : th[t].again =>
    \A i \in Indexes : th[t].at # "cast" \/ i >= th[t].heard => th[t].outputBufferBoi[i] = Nul

(* What is in the cleared array is inductive.                              *)
LEMMA ClearedStep ==
  ASSUME PipelineInv, ClearedInv, [PipelineNext]_pipeline
  PROVE  ClearedInv'
<1> DEFINE Kept(r) == r.again => \A i \in Indexes : r.at # "cast" \/ i >= r.heard =>
                                                      r.outputBufferBoi[i] = Nul
<1>1. \A t \in Client : Kept(th[t]) /\ th[t] \in ThreadType
  BY DEF ClearedInv, PipelineInv, ThreadsTypeOK
<1>2. ASSUME NEW t \in Client, NEW r, Become(t, r), Kept(r) PROVE ClearedInv'
  <2>1. \A u \in Client : th'[u] = r \/ th'[u] = th[u]
    BY <1>2 DEF Become, PipelineInv, ThreadsTypeOK
  <2> QED  BY <1>1, <1>2, <2>1 DEF ClearedInv
<1>3. CASE ServerEnds
  BY <1>3 DEF ServerEnds, ThreadAt, ClearedInv
<1>4. CASE UNCHANGED th
  BY <1>4 DEF ClearedInv
<1>5. ASSUME NEW t \in Client, RecvName(t) PROVE ClearedInv'
  <2>1. PICK n \in 1 .. BUFFER_SIZE : Become(t, [th[t] EXCEPT !.at = "recv", !.nameSize = n])
    BY <1>5 DEF RecvName
  <2>2. Kept([th[t] EXCEPT !.at = "recv", !.nameSize = n])
    BY <1>1, <1>5 DEF RecvName, ThreadType
  <2> QED  BY <1>2, <2>1, <2>2
<1>6. ASSUME NEW t \in Client, RecvText(t) PROVE ClearedInv'
  <2>1. PICK x : Become(t, [th[t] EXCEPT !.at = "ask", !.dataWeWantToSend = x])
    BY <1>6 DEF RecvText
  <2>2. Kept([th[t] EXCEPT !.at = "ask", !.dataWeWantToSend = x])
    BY <1>1, <1>6 DEF RecvText, ThreadType
  <2> QED  BY <1>2, <2>1, <2>2
<1>7. ASSUME NEW t \in Client, AskHelper(t) PROVE ClearedInv'
  <2>1. Kept([th[t] EXCEPT !.at = "answer"])
    BY <1>1, <1>7 DEF AskHelper, ThreadType
  <2>2. ServerEnds \/ Become(t, [th[t] EXCEPT !.at = "answer"])
    BY <1>7 DEF AskHelper
  <2> QED  BY <1>2, <1>3, <2>1, <2>2
<1>8. ASSUME NEW t \in Client, HearHelper(t) PROVE ClearedInv'
  <2> DEFINE b(n) == [i \in Indexes |-> IF i < n THEN outbound[i + 1]
                                                 ELSE th[t].outputBufferBoi[i]]
             r(n) == [th[t] EXCEPT !.at = "cast", !.heard = n, !.outputBufferBoi = b(n)]
  <2>1. PICK n \in 1 .. BUFFER_SIZE : Become(t, r(n))
    BY <1>8 DEF HearHelper
  <2>2. th[t].again => \A i \in Indexes : th[t].outputBufferBoi[i] = Nul
    BY <1>1, <1>8 DEF HearHelper
  <2>3. /\ r(n).again = th[t].again /\ r(n).heard = n /\ r(n).outputBufferBoi = b(n)
    BY <1>1 DEF ThreadType
  <2>4. \A i \in Indexes : i >= n => b(n)[i] = th[t].outputBufferBoi[i]
    BY BufferAssumption DEF Indexes
  <2>5. Kept(r(n))
    BY <2>2, <2>3, <2>4, <1>8 DEF HearHelper
  <2> QED  BY <1>2, <2>1, <2>5
<1>9. ASSUME NEW t \in Client, HearNothing(t) PROVE ClearedInv'
  <2>1. Become(t, [th[t] EXCEPT !.at = "cast", !.heard = 0])
    BY <1>9 DEF HearNothing
  <2>2. Kept([th[t] EXCEPT !.at = "cast", !.heard = 0])
    BY <1>1, <1>9 DEF HearNothing, ThreadType
  <2> QED  BY <1>2, <2>1, <2>2
<1>10. ASSUME NEW t \in Client, Cast(t) PROVE ClearedInv'
  <2> DEFINE r == [th[t] EXCEPT !.at = "recv", !.dataWeWantToSend = <<>>, !.heard = 0,
                                !.again = TRUE, !.outputBufferBoi = [i \in Indexes |-> Nul]]
  <2>1. Become(t, r)
    BY <1>10 DEF Cast, Cleared
  <2>2. Kept(r)
    BY <1>1 DEF ThreadType
  <2> QED  BY <1>2, <2>1, <2>2
<1> QED
  BY <1>3, <1>4, <1>5, <1>6, <1>7, <1>8, <1>9, <1>10
     DEF PipelineNext, Thread, Say, ServerStops, HelperReceives, HelperWorks, HelperReplies,
         HelperDies, pipeline

(* NothingLeftOver: a thread's array is cleared after every broadcast, so  *)
(* no later one shows more than was heard for it, also when the helper has *)
(* gone and recv stores nothing.                                           *)
THEOREM PipelineNothingLeftOver == PipelineSpec => []NothingLeftOver
<1>1. PipelineInit => ClearedInv
  BY DEF PipelineInit, ThreadAt, ClearedInv
<1>2. PipelineInv /\ ClearedInv => NothingLeftOver
  <2> SUFFICES ASSUME PipelineInv, ClearedInv, NEW t \in Client, th[t].at = "cast", th[t].again,
                      NEW n \in 1 .. BUFFER_SIZE, Shows(t, n)
               PROVE  n <= th[t].heard
    BY DEF NothingLeftOver
  <2> SUFFICES ASSUME ~(n <= th[t].heard) PROVE FALSE
    OBVIOUS
  <2>1. th[t].heard \in 0 .. BUFFER_SIZE
    BY DEF PipelineInv, ThreadsTypeOK, ThreadType
  <2>2. th[t].heard \in Indexes /\ th[t].heard \in 0 .. n - 1 /\ th[t].heard >= th[t].heard
    BY <2>1, BufferAssumption DEF Indexes
  <2>3. th[t].outputBufferBoi[th[t].heard] = Nul
    BY <2>2 DEF ClearedInv
  <2> QED  BY <2>2, <2>3 DEF Shows
<1> QED  BY <1>1, <1>2, ClearedStep, PipelineInvHolds, PTL DEF PipelineSpec

-----------------------------------------------------------------------------
\* Any BUFFER_SIZE consecutive bytes sent by a client hold the end of one
\* send and the beginning of the next.
DenseInv ==
  \A c \in Client : \A x \in 0 .. Sent(c) - BUFFER_SIZE :
    \E k \in DOMAIN said[c] : x < said[c][k] /\ said[c][k] < x + BUFFER_SIZE

(* The ends of sends stay close together.                                  *)
LEMMA DenseStep ==
  ASSUME PipelineInv, DenseInv, [PipelineNext]_pipeline
  PROVE  DenseInv'
<1>1. CASE said' = said
  BY <1>1 DEF DenseInv, Sent
<1>2. ASSUME NEW c \in Client, Say(c) PROVE DenseInv'
  <2>1. PICK e \in 1 .. Len(Stream[c]) :
          EndOfSend(c, e) /\ said' = [said EXCEPT ![c] = Append(@, e)]
    BY <1>2 DEF Say
  <2>2. /\ ThreadsTypeOK /\ said[c] \in Seq(Nat) /\ said'[c] = Append(said[c], e) /\ e \in Nat
        /\ Sent(c)' = e /\ Sent(c) \in Nat
        /\ \A d \in Client \ {c} : said'[d] = said[d] /\ Sent(d)' = Sent(d)
    <3>1. ThreadsTypeOK /\ said[c] \in Seq(Nat) /\ said'[c] = Append(said[c], e)
      BY <2>1 DEF PipelineInv, ThreadsTypeOK
    <3>2. Len(Stream[c]) \in Nat
      BY StreamAssumption
    <3>3. Sent(c) \in Nat /\ e \in Nat
      BY <3>1, <3>2, SentType
    <3> QED  BY <2>1, <3>1, <3>3, SentAfterSay
  <2>3. /\ Len(said'[c]) = Len(said[c]) + 1
        /\ \A k \in 1 .. Len(said[c]) : said'[c][k] = said[c][k]
        /\ DOMAIN said'[c] = 1 .. Len(said'[c]) /\ DOMAIN said[c] = 1 .. Len(said[c])
        /\ Len(said[c]) \in Nat
    BY <2>2, AppendProperties
  <2>4. e < BUFFER_SIZE \/ (said[c] # <<>> /\ e < Sent(c) + BUFFER_SIZE)
    BY <2>1, <2>2, StreamAssumption, BufferAssumption DEF EndOfSend, LineSize
  <2>5. ASSUME NEW x \in 0 .. e - BUFFER_SIZE
        PROVE  \E k \in DOMAIN said'[c] : x < said'[c][k] /\ said'[c][k] < x + BUFFER_SIZE
    <3>1. x \in Nat /\ BUFFER_SIZE \in Nat /\ e >= BUFFER_SIZE /\ x <= e - BUFFER_SIZE
      BY <2>2, BufferAssumption
    <3>2. CASE x <= Sent(c) - BUFFER_SIZE
      <4>1. x \in 0 .. Sent(c) - BUFFER_SIZE
        BY <2>2, <3>1, <3>2
      <4>2. PICK k \in DOMAIN said[c] : x < said[c][k] /\ said[c][k] < x + BUFFER_SIZE
        BY <4>1 DEF DenseInv
      <4> QED  BY <2>3, <4>2
    <3>3. CASE ~(x <= Sent(c) - BUFFER_SIZE)
      <4>1. said[c] # <<>> /\ e < Sent(c) + BUFFER_SIZE
        BY <2>4, <3>1
      <4>2. x < Sent(c) /\ Sent(c) < x + BUFFER_SIZE
        BY <2>2, <3>1, <3>3, <4>1
      <4>3. Len(said[c]) \in 1 .. Len(said[c]) /\ Sent(c) = said[c][Len(said[c])]
        BY <2>2, <4>1 DEF Sent
      <4>4. Len(said[c]) \in DOMAIN said'[c] /\ said'[c][Len(said[c])] = Sent(c)
        BY <2>3, <4>3
      <4> QED  BY <4>2, <4>4
    <3> QED  BY <3>2, <3>3
  <2>6. ASSUME NEW d \in Client, NEW x \in 0 .. Sent(d)' - BUFFER_SIZE
        PROVE  \E k \in DOMAIN said'[d] : x < said'[d][k] /\ said'[d][k] < x + BUFFER_SIZE
    <3>1. CASE d = c
      BY <2>2, <2>5, <3>1
    <3>2. CASE d # c
      BY <2>2, <3>2 DEF DenseInv
    <3> QED  BY <3>1, <3>2
  <2> QED  BY <2>6 DEF DenseInv
<1> QED
  BY <1>1, <1>2
     DEF PipelineNext, Thread, RecvName, RecvText, Recv, AskHelper, HearHelper, HearNothing, Cast,
         ServerStops, HelperReceives, HelperWorks, HelperReplies, HelperDies, clients, pipeline

(* SpillsOnlyWhenJoined: only a recv of BUFFER_SIZE bytes stores its       *)
(* terminator behind the array, and no send of a client is that long.      *)
THEOREM PipelineSpills == PipelineSpec => SpillsOnlyWhenJoined
<1>1. PipelineInit => DenseInv
  <2> SUFFICES ASSUME PipelineInit, NEW c \in Client, NEW x \in 0 .. Sent(c) - BUFFER_SIZE
               PROVE  FALSE
    BY DEF DenseInv
  <2>1. Sent(c) = 0
    BY DEF PipelineInit, Sent
  <2> QED  BY <2>1, BufferAssumption
<1>2. PipelineInv /\ PipelineTypeOK /\ DenseInv /\ [PipelineNext]_pipeline =>
        [spilled' # spilled =>
           \E c \in Client : \E k \in DOMAIN said[c] : got[c] < said[c][k] /\ said[c][k] < got'[c]
        ]_pipeline
  <2> SUFFICES ASSUME PipelineInv, PipelineTypeOK, DenseInv, [PipelineNext]_pipeline, spilled' # spilled
               PROVE  \E c \in Client : \E k \in DOMAIN said[c] :
                        got[c] < said[c][k] /\ said[c][k] < got'[c]
    OBVIOUS
  <2>1. PICK t \in Client, n \in 1 .. BUFFER_SIZE : Recv(t, n)
    BY DEF PipelineNext, Thread, Say, RecvName, RecvText, AskHelper, HearHelper, HearNothing, Cast,
           ServerStops, HelperReceives, HelperWorks, HelperReplies, HelperDies, notes, pipeline
  <2>2. n = BUFFER_SIZE /\ BUFFER_SIZE \in Nat
    <3>1. Terminator(n) >= BUFFER_SIZE
      BY <2>1, Zenon DEF Recv, PipelineTypeOK
    <3> QED  BY <3>1, BufferAssumption DEF Terminator
  <2>3. /\ got[t] + n <= Sent(t) /\ got'[t] = got[t] + n
        /\ got[t] \in Nat /\ Sent(t) \in Nat
    BY <2>1, RecvTakesMessage, SentType DEF Recv, PipelineInv, ThreadsTypeOK
  <2>4. got[t] \in 0 .. Sent(t) - BUFFER_SIZE
    BY <2>2, <2>3
  <2> QED  BY <2>2, <2>3, <2>4 DEF DenseInv
<1> QED
  BY <1>1, <1>2, DenseStep, PipelineInvHolds, PipelineBytes, PTL DEF PipelineSpec, SpillsOnlyWhenJoined

-----------------------------------------------------------------------------
IsAnswer(y, x) == Len(y) = Len(x) /\ \A k \in 1 .. Len(x) : y[k] = AnswerTo(x, k)

(* An answer to a line without a terminator has none.                      *)
LEMMA AnswerHasNoNul ==
  ASSUME NEW x \in Seq(Byte \ {Nul}), NEW k \in 1 .. Len(x)
  PROVE  AnswerTo(x, k) # Nul
<1>1. x[k] \in Byte \ {Nul}
  OBVIOUS
<1>2. UppercaseAll(x[k]) # Nul
  <2>1. CASE \E t \in Threads : t \in 1 .. 5 /\ x[k] = Lower[t]
    <3> DEFINE u == CHOOSE t \in 1 .. 5 : x[k] = Lower[t]
    <3>1. u \in 1 .. 5
      BY <2>1
    <3> QED  BY <2>1, <3>1, LettersAssumption DEF UppercaseAll, UppercaseBy
  <2>2. CASE ~\E t \in Threads : t \in 1 .. 5 /\ x[k] = Lower[t]
    BY <1>1, <2>2 DEF UppercaseAll, UppercaseBy
  <2> QED  BY <2>1, <2>2
<1> QED  BY <1>2, LayoutAssumption DEF AnswerTo

(* The helper's reply without an overlap is the answer to its request.     *)
LEMMA ReplyIsAnswer ==
  ASSUME TypeOK, WorkInv, SerialReplyIsCorrect', serverEncoder, ~raced
  PROVE  IsAnswer(answered'.reply, request)
<1> DEFINE y == answered'.reply
           L == Len(request)
<1>1. /\ answered'.request = request /\ answered'.raced = FALSE
      /\ y = [k \in 1 .. L |-> uppercasedBuffer'[k - 1]]
  BY DEF serverEncoder, SentBytes, TypeOK
<1>2. L \in Nat /\ request # <<>> /\ y \in Seq(Byte)
  <2>1. request \in Seq(Byte) /\ request # <<>>
    BY DEF serverEncoder, TypeOK, WorkInv
  <2>2. answered' \in [request : Seq(Byte), raced : BOOLEAN, reply : Seq(Byte)]
    BY EncoderTypes
  <2> QED  BY <2>1, <2>2
<1>3. Len(y) = L
  BY <1>1, <1>2
<1>4. /\ \A k \in 1 .. L - 1 : y[k] = UppercaseAll(request[k])
      /\ y[L] = IF L % QueueSize = 0 THEN Newline ELSE Space
  BY <1>1, <1>2 DEF SerialReplyIsCorrect
<1> HIDE DEF y
<1>5. ASSUME NEW k \in 1 .. L PROVE y[k] = AnswerTo(request, k)
  <2>1. CASE k < L
    BY <1>2, <1>4, <2>1 DEF AnswerTo
  <2>2. CASE k = L
    BY <1>2, <1>4, <2>2 DEF AnswerTo
  <2> QED  BY <1>2, <2>1, <2>2
<1> QED  BY <1>3, <1>5 DEF IsAnswer, y

-----------------------------------------------------------------------------
Silent == inbound = <<>> /\ request = <<>> /\ outbound = <<>>

\* The line x has been sent to the helper, is worked on, or is answered,
\* if it has not perished with the helper; and nothing else is under way.
UnderWay(x) ==
  \/ inbound = x /\ request = <<>> /\ outbound = <<>>
  \/ inbound = <<>> /\ request = x /\ outbound = <<>>
  \/ inbound = <<>> /\ request = <<>> /\ IsAnswer(outbound, x)
  \/ Silent

HeardOwn(t) ==
  th[t].heard # 0 =>
    /\ th[t].heard = Len(Request(t))
    /\ \A k \in 1 .. Len(Request(t)) : th[t].outputBufferBoi[k - 1] = AnswerTo(Request(t), k)

InTurn == ~crossed /\ ~parted /\ ~mixed

\* As long as one thread at a time asks the helper, its line alone is under
\* way while it waits, and nothing is when no thread waits.
LinkInv ==
  serverUp =>
    /\ pc = "killed" => inbound = <<>>
    /\ (\A t \in Client : th[t].at # "answer") => Silent
    /\ \A t \in Client : th[t].at = "answer" =>
         UnderWay(Request(t)) /\ \A u \in Client \ {t} : th[u].at # "answer"

CastInv == \A t \in Client : th[t].at = "cast" => HeardOwn(t)

TurnInv == InTurn => ~raced /\ LinkInv /\ CastInv

(* Steps that neither move a byte between a thread and the helper nor end  *)
(* a thread's wait.                                                        *)
LEMMA TurnUndisturbed ==
  ASSUME LinkInv, CastInv, UNCHANGED <<inbound, request, outbound, serverUp>>,
         pc' = "killed" => pc = "killed",
         \/ th' = th
         \/ \E t \in Client :
              /\ th[t].at # "answer" /\ th'[t].at \notin {"answer", "cast"}
              /\ \A u \in Client \ {t} : th'[u] = th[u]
  PROVE  LinkInv' /\ CastInv'
<1>1. Silent' = Silent
  BY DEF Silent
<1>2. \A u \in Client : th'[u].at \in {"answer", "cast"} => th'[u] = th[u]
  OBVIOUS
<1>3. \A u \in Client : th[u].at = "answer" => th'[u].at = "answer"
  OBVIOUS
<1>4. LinkInv'
  BY <1>1, <1>2, <1>3 DEF LinkInv, UnderWay, IsAnswer, AnswerTo, Request, Silent
<1>5. CastInv'
  BY <1>2 DEF CastInv, HeardOwn, AnswerTo, Request
<1> QED  BY <1>4, <1>5

(* What the history variables record is not taken back.                    *)
LEMMA TurnIsOver ==
  ASSUME [PipelineNext]_pipeline, InTurn'
  PROVE  InTurn
<1>1. ASSUME NEW t \in Client, AskHelper(t) PROVE InTurn
  BY <1>1, Zenon DEF AskHelper, InTurn
<1>2. ASSUME NEW t \in Client, HearHelper(t) PROVE InTurn
  BY <1>2, Zenon DEF HearHelper, InTurn
<1>3. ASSUME NEW t \in Client, NEW n, Recv(t, n) PROVE InTurn
  BY <1>3 DEF Recv, InTurn
<1>4. CASE HelperReceives
  BY <1>4, Zenon DEF HelperReceives, InTurn
<1>5. CASE HelperWorks
  BY <1>5, Zenon DEF HelperWorks, InTurn
<1>6. CASE UNCHANGED notes
  BY <1>6 DEF notes, InTurn
<1> QED
  BY <1>1, <1>2, <1>3, <1>4, <1>5, <1>6
     DEF PipelineNext, Thread, Say, RecvName, RecvText, HearNothing, Cast, ServerStops,
         HelperReplies, HelperDies, pipeline

\* A thread asks: nobody waits, so the line is all that is under way.
LEMMA TurnAsk ==
  ASSUME PipelineInv, LinkInv, CastInv, InTurn', NEW t \in Client, AskHelper(t)
  PROVE  LinkInv' /\ CastInv'
<1>1. th \in [Client -> ThreadType] /\ Request(t) \in Seq(Byte)
  BY DEF PipelineInv, ThreadsTypeOK, ThreadType, Request
<1>2. th[t].at = "ask" /\ \A u \in Client \ {t} : th[u].at # "answer"
  BY Zenon DEF AskHelper, InTurn
<1>3. serverUp /\ Silent
  <2>1. serverUp
    BY DEF AskHelper, ServerEnds, ServerGoes, Become
  <2> QED  BY <1>2, <2>1 DEF LinkInv
<1>4. CASE ServerEnds
  BY <1>4 DEF ServerEnds, ServerGoes, ThreadAt, LinkInv, CastInv
<1>5. CASE Become(t, [th[t] EXCEPT !.at = "answer"])
  <2>1. /\ th'[t].at = "answer" /\ Request(t)' = Request(t)
        /\ \A u \in Client \ {t} : th'[u] = th[u]
    BY <1>1, <1>5 DEF Become, ThreadType, Request
  <2>2. CastInv'
    BY <2>1 DEF CastInv, HeardOwn, AnswerTo, Request
  <2>3. /\ \A u \in Client \ {t} : th'[u].at # "answer"
        /\ (pc' = "killed" => inbound' = <<>>) /\ UnderWay(Request(t))'
    <3>1. CASE pc # "killed" /\ ServerSends(Request(t)) /\ outbound' = outbound
      <4>1. inbound' = <<>> \o Request(t) /\ request' = <<>> /\ outbound' = <<>> /\ pc' = pc
        BY <1>3, <3>1 DEF ServerSends, Silent, work
      <4>2. inbound' = Request(t)
        BY <1>1, <4>1
      <4> QED  BY <1>2, <2>1, <3>1, <4>1, <4>2 DEF UnderWay
    <3>2. CASE UNCHANGED vars /\ outbound' = outbound
      BY <1>2, <1>3, <2>1, <3>2 DEF UnderWay, Silent, vars, link, work
    <3>3. \/ UNCHANGED vars /\ outbound' = outbound
          \/ pc # "killed" /\ ServerSends(Request(t)) /\ outbound' = outbound
          \/ ServerEnds
      BY Zenon DEF AskHelper
    <3>4. ~ServerEnds
      BY <1>1, <2>1 DEF ServerEnds, ThreadAt
    <3> QED  BY <3>1, <3>2, <3>3, <3>4
  <2> QED  BY <2>1, <2>2, <2>3 DEF LinkInv
<1> QED  BY <1>4, <1>5 DEF AskHelper

\* A thread hears: nothing is left, so the answer was its own and whole.
LEMMA TurnHear ==
  ASSUME PipelineInv, EveryByteComesBack, LinkInv, CastInv, InTurn', NEW t \in Client, HearHelper(t)
  PROVE  LinkInv' /\ CastInv'
<1> DEFINE b(n) == [i \in Indexes |-> IF i < n THEN outbound[i + 1]
                                               ELSE th[t].outputBufferBoi[i]]
<1>1. PICK n \in 1 .. BUFFER_SIZE :
        /\ n <= Len(outbound) /\ outbound' = Unheard(n) /\ owed' = owed - n
        /\ Become(t, [th[t] EXCEPT !.at = "cast", !.heard = n, !.outputBufferBoi = b(n)])
  BY DEF HearHelper
<1>2. th \in [Client -> ThreadType] /\ outbound \in Seq(Byte) /\ BUFFER_SIZE \in Nat
  BY BufferAssumption DEF PipelineInv, ThreadsTypeOK
<1>3. serverUp /\ th[t].at = "answer" /\ UNCHANGED <<inbound, request, serverUp, pc>>
  BY DEF HearHelper, Become, vars, link, work
<1>4. Len(outbound) # 0
  BY <1>1, <1>2
<1>5. inbound = <<>> /\ request = <<>> /\ IsAnswer(outbound, Request(t))
  BY <1>3, <1>4 DEF LinkInv, UnderWay, Silent
<1>6. n = Len(outbound)
  <2>1. owed' = 0
    BY Zenon DEF HearHelper, InTurn
  <2>2. owed = Len(outbound)
    BY <1>2, <1>3, <1>5 DEF EveryByteComesBack
  <2> QED  BY <1>1, <1>2, <2>1, <2>2
<1>7. Silent'
  BY <1>1, <1>2, <1>3, <1>5, <1>6, SubSeqProperties DEF Silent, Unheard
<1>8. /\ th'[t].at = "cast" /\ th'[t].heard = n /\ th'[t].outputBufferBoi = b(n)
      /\ Request(t)' = Request(t)
      /\ \A u \in Client \ {t} : th'[u] = th[u]
  <2> HIDE DEF b
  <2> QED  BY <1>1, <1>2 DEF Become, ThreadType, Request
<1>9. \A k \in 1 .. n : b(n)[k - 1] = outbound[k]
  BY <1>2 DEF Indexes
<1>10. HeardOwn(t)'
  <2>1. n = Len(Request(t)) /\ \A k \in 1 .. Len(Request(t)) : outbound[k] = AnswerTo(Request(t), k)
    BY <1>5, <1>6 DEF IsAnswer
  <2> HIDE DEF b
  <2>2. \A k \in 1 .. Len(Request(t)) : AnswerTo(Request(t), k)' = AnswerTo(Request(t), k)
    BY <1>8 DEF AnswerTo
  <2> QED  BY <1>8, <1>9, <2>1, <2>2 DEF HeardOwn
<1>11. CastInv'
  <2>1. ASSUME NEW u \in Client, u # t, th'[u].at = "cast" PROVE HeardOwn(u)'
    BY <1>8, <2>1 DEF CastInv, HeardOwn, AnswerTo, Request
  <2> QED  BY <1>10, <2>1 DEF CastInv
<1>12. \A u \in Client : th'[u].at # "answer"
  BY <1>3, <1>8 DEF LinkInv
<1>13. LinkInv'
  BY <1>3, <1>5, <1>7, <1>12 DEF LinkInv
<1> QED  BY <1>11, <1>13

(* TurnInv is inductive.                                                   *)
LEMMA TurnStep ==
  ASSUME PipelineInv, EveryByteComesBack, SerialReplyIsCorrect', TurnInv, [PipelineNext]_pipeline
  PROVE  TurnInv'
<1> SUFFICES ASSUME InTurn' PROVE ~raced' /\ LinkInv' /\ CastInv'
  BY DEF TurnInv
<1>1. ~raced /\ LinkInv /\ CastInv
  BY TurnIsOver DEF TurnInv
<1>2. th \in [Client -> ThreadType] /\ inbound \in Seq(Byte) /\ BUFFER_SIZE \in Nat
  BY BufferAssumption DEF PipelineInv, ThreadsTypeOK, TypeOK
<1>3. ASSUME NEW t \in Client, NEW r, UNCHANGED <<vars, outbound>>, Become(t, r),
             th[t].at # "answer", r.at \notin {"answer", "cast"}
      PROVE  ~raced' /\ LinkInv' /\ CastInv'
  <2>1. /\ th'[t].at \notin {"answer", "cast"}
        /\ \A u \in Client \ {t} : th'[u] = th[u]
    BY <1>2, <1>3 DEF Become
  <2> QED  BY <1>1, <1>3, <2>1, TurnUndisturbed DEF vars, link, work
<1>4. ASSUME NEW c \in Client, Say(c) PROVE ~raced' /\ LinkInv' /\ CastInv'
  BY <1>1, <1>4, TurnUndisturbed DEF Say, vars, link, work
<1>5. ASSUME NEW t \in Client, RecvName(t) PROVE ~raced' /\ LinkInv' /\ CastInv'
  <2>1. PICK n : Recv(t, n) /\ Become(t, [th[t] EXCEPT !.at = "recv", !.nameSize = n])
    BY <1>5 DEF RecvName
  <2>2. [th[t] EXCEPT !.at = "recv", !.nameSize = n].at = "recv" /\ th[t].at # "answer"
    BY <1>2, <1>5 DEF RecvName, ThreadType
  <2> QED  BY <1>3, <2>1, <2>2 DEF Recv
<1>6. ASSUME NEW t \in Client, RecvText(t) PROVE ~raced' /\ LinkInv' /\ CastInv'
  <2>1. PICK n, x : Recv(t, n) /\ Become(t, [th[t] EXCEPT !.at = "ask", !.dataWeWantToSend = x])
    BY <1>6 DEF RecvText
  <2>2. [th[t] EXCEPT !.at = "ask", !.dataWeWantToSend = x].at = "ask" /\ th[t].at # "answer"
    BY <1>2, <1>6 DEF RecvText, ThreadType
  <2> QED  BY <1>3, <2>1, <2>2 DEF Recv
<1>7. ASSUME NEW t \in Client, AskHelper(t) PROVE ~raced' /\ LinkInv' /\ CastInv'
  <2>1. raced' = raced
    BY <1>7 DEF AskHelper, ServerSends, ServerEnds, ServerGoes, vars, work
  <2> QED  BY <1>1, <1>7, <2>1, TurnAsk
<1>8. ASSUME NEW t \in Client, HearHelper(t) PROVE ~raced' /\ LinkInv' /\ CastInv'
  <2>1. raced' = raced
    BY <1>8 DEF HearHelper, vars, work
  <2> QED  BY <1>1, <1>8, <2>1, TurnHear
<1>9. ASSUME NEW t \in Client, HearNothing(t) PROVE ~raced' /\ LinkInv' /\ CastInv'
  <2>1. /\ th[t].at = "answer" /\ pc = "killed" /\ outbound = <<>> /\ serverUp
        /\ UNCHANGED <<inbound, request, outbound, serverUp, pc, raced>>
    BY <1>9 DEF HearNothing, Become, vars, link, work
  <2>2. Silent /\ \A u \in Client \ {t} : th[u].at # "answer"
    <3>1. request = <<>>
      BY <2>1 DEF PipelineInv, WorkInv
    <3> QED  BY <1>1, <2>1, <3>1 DEF LinkInv, Silent
  <2>3. /\ th'[t].at = "cast" /\ th'[t].heard = 0
        /\ \A u \in Client \ {t} : th'[u] = th[u]
    BY <1>2, <1>9 DEF HearNothing, Become, ThreadType
  <2>4. Silent' /\ \A u \in Client : th'[u].at # "answer"
    BY <2>1, <2>2, <2>3 DEF Silent
  <2>5. LinkInv'
    BY <2>1, <2>2, <2>4 DEF LinkInv, Silent
  <2>6. ASSUME NEW u \in Client, th'[u].at = "cast" PROVE HeardOwn(u)'
    <3>1. CASE u = t
      BY <2>3, <3>1 DEF HeardOwn
    <3>2. CASE u # t
      BY <1>1, <2>3, <2>6, <3>2 DEF CastInv, HeardOwn, AnswerTo, Request
    <3> QED  BY <3>1, <3>2
  <2> QED  BY <1>1, <2>1, <2>5, <2>6 DEF CastInv
<1>10. ASSUME NEW t \in Client, Cast(t) PROVE ~raced' /\ LinkInv' /\ CastInv'
  <2>1. PICK b : Become(t, [th[t] EXCEPT !.at = "recv", !.dataWeWantToSend = <<>>, !.heard = 0,
                                         !.again = TRUE, !.outputBufferBoi = b])
    BY <1>10 DEF Cast
  <2>2. [th[t] EXCEPT !.at = "recv", !.dataWeWantToSend = <<>>, !.heard = 0,
                      !.again = TRUE, !.outputBufferBoi = b].at = "recv"
    BY <1>2 DEF ThreadType
  <2> QED  BY <1>3, <1>10, <2>1, <2>2 DEF Cast
<1>11. CASE HelperReceives
  <2>1. PICK n \in 1 .. BUFFER_SIZE :
          /\ n <= Len(inbound)
          /\ request' = SubSeq(inbound, 1, n)
          /\ inbound' = SubSeq(inbound, n + 1, Len(inbound))
    BY <1>11 DEF HelperReceives, Receive, RecvSize
  <2>2. UNCHANGED <<serverUp, outbound, th>> /\ raced' = FALSE /\ pc' = "rounds"
    BY <1>11 DEF HelperReceives, Receive
  <2>3. inbound' = <<>>
    BY <1>11, Zenon DEF HelperReceives, InTurn
  <2>4. n = Len(inbound)
    <3>1. Len(SubSeq(inbound, n + 1, Len(inbound))) = Len(inbound) - n
      <4>1. \A i \in n + 1 .. Len(inbound) : inbound[i] \in Byte
        BY <1>2, <2>1
      <4> QED  BY <1>2, <2>1, <4>1, SubSeqProperties
    <3>2. SubSeq(inbound, n + 1, Len(inbound)) = <<>> /\ Len(<<>>) = 0
      BY <2>1, <2>3
    <3>3. Len(inbound) - n = 0 /\ Len(inbound) \in Nat
      BY <1>2, <3>1, <3>2
    <3> QED  BY <3>3
  <2>5. request' = inbound /\ inbound # <<>>
    BY <1>2, <2>1, <2>4
  <2>6. ASSUME NEW t \in Client, th[t].at = "answer", serverUp
        PROVE  UnderWay(Request(t))'
    <3>1. inbound = Request(t) /\ outbound = <<>>
      BY <1>1, <2>5, <2>6 DEF LinkInv, UnderWay, Silent
    <3> QED  BY <2>2, <2>3, <2>5, <3>1 DEF UnderWay, Request
  <2>7. serverUp => \E t \in Client : th[t].at = "answer"
    BY <1>1, <2>5 DEF LinkInv, Silent
  <2>8. LinkInv'
    BY <1>1, <2>2, <2>3, <2>6, <2>7 DEF LinkInv
  <2>9. CastInv'
    BY <1>1, <2>2 DEF CastInv, HeardOwn, AnswerTo, Request
  <2> QED  BY <2>2, <2>8, <2>9
<1>12. CASE HelperWorks
  <2>1. ~overlapped'
    BY <1>12, Zenon DEF HelperWorks, InTurn
  <2>2. /\ UNCHANGED <<inbound, request, outbound, serverUp, th, raced>>
        /\ pc' # "killed" \/ pc' = pc
    BY <1>12, <2>1 DEF HelperWorks, RoundOverlaps, RoundEnds, ConnectionEnds, link, work
  <2> QED  BY <1>1, <2>2, TurnUndisturbed
<1>13. CASE HelperReplies
  <2>1. /\ UNCHANGED <<inbound, serverUp, th>> /\ request' = <<>> /\ raced' = FALSE
        /\ pc' # "killed" /\ request # <<>>
    BY <1>13 DEF HelperReplies, serverEncoder, link, PipelineInv, WorkInv
  <2>2. IsAnswer(answered'.reply, request) /\ answered'.reply \in Seq(Byte)
    BY <1>1, <1>13, ReplyIsAnswer, EncoderTypes DEF HelperReplies, PipelineInv
  <2>3. ASSUME NEW t \in Client, th[t].at = "answer", serverUp
        PROVE  UnderWay(Request(t))'
    <3>1. inbound = <<>> /\ request = Request(t) /\ outbound = <<>>
      BY <1>1, <2>1, <2>3 DEF LinkInv, UnderWay, Silent
    <3>2. outbound' = answered'.reply
      <4>1. outbound' = <<>> \o answered'.reply
        BY <1>13, <2>3, <3>1 DEF HelperReplies
      <4> DEFINE y == answered'.reply
      <4>2. y \in Seq(Byte) /\ outbound' = <<>> \o y
        BY <2>2, <4>1
      <4> HIDE DEF y
      <4>3. outbound' = y
        BY <4>2
      <4> QED  BY <4>3 DEF y
    <3>3. Request(t)' = Request(t)
      BY <2>1 DEF Request
    <3>4. IsAnswer(outbound, Request(t))'
      BY <2>2, <3>1, <3>2, <3>3 DEF IsAnswer, AnswerTo
    <3> QED  BY <2>1, <3>1, <3>4 DEF UnderWay
  <2>4. serverUp => \E t \in Client : th[t].at = "answer"
    BY <1>1, <2>1 DEF LinkInv, Silent
  <2>5. LinkInv'
    BY <1>1, <2>1, <2>3, <2>4 DEF LinkInv
  <2>6. CastInv'
    BY <1>1, <2>1 DEF CastInv, HeardOwn, AnswerTo, Request
  <2> QED  BY <2>1, <2>5, <2>6
<1>14. CASE HelperDies
  <2>1. /\ UNCHANGED <<serverUp, outbound, th>>
        /\ inbound' = <<>> /\ request' = <<>> /\ raced' = FALSE
    BY <1>14 DEF HelperDies, Killed
  <2>2. ASSUME NEW t \in Client, UnderWay(Request(t)) PROVE UnderWay(Request(t))'
    <3>1. outbound = <<>> \/ IsAnswer(outbound, Request(t))
      BY <2>2 DEF UnderWay, Silent
    <3> QED  BY <2>1, <3>1 DEF UnderWay, Silent, IsAnswer, AnswerTo, Request
  <2>3. LinkInv'
    BY <1>1, <2>1, <2>2 DEF LinkInv, Silent
  <2>4. CastInv'
    BY <1>1, <2>1 DEF CastInv, HeardOwn, AnswerTo, Request
  <2> QED  BY <2>1, <2>3, <2>4
<1>15. CASE ServerStops
  BY <1>1, <1>15 DEF ServerStops, ServerEnds, ServerGoes, ThreadAt, work, LinkInv, CastInv
<1>16. CASE UNCHANGED pipeline
  BY <1>1, <1>16, TurnUndisturbed DEF pipeline, vars, link, work
<1> QED
  BY <1>4, <1>5, <1>6, <1>7, <1>8, <1>9, <1>10, <1>11, <1>12, <1>13, <1>14, <1>15, <1>16
     DEF PipelineNext, Thread

(* BroadcastIsOwnLine: from what a user types to what the thread sends out *)
(* for it, through both processes.                                         *)
THEOREM PipelineBroadcasts == PipelineSpec => []BroadcastIsOwnLine
<1>1. PipelineInit => TurnInv
  <2> SUFFICES ASSUME PipelineInit PROVE TurnInv
    OBVIOUS
  <2>1. \A t \in Client : th[t].at = "name"
    BY DEF PipelineInit, ThreadAt
  <2> QED  BY <2>1 DEF PipelineInit, Init, TurnInv, LinkInv, CastInv, Silent
<1>2. PipelineInv /\ TurnInv => BroadcastIsOwnLine
  <2> SUFFICES ASSUME PipelineInv, TurnInv, InTurn, NEW t \in Client, th[t].at = "cast", th[t].heard # 0
               PROVE  /\ th[t].heard = Len(Request(t))
                      /\ \A k \in 1 .. Len(Request(t)) : k <= Room(t) =>
                           Shows(t, k) /\ th[t].outputBufferBoi[k - 1] = AnswerTo(Request(t), k)
    BY DEF BroadcastIsOwnLine, InTurn
  <2> DEFINE L == Len(Request(t))
  <2>1. th[t].heard = L /\ \A k \in 1 .. L : th[t].outputBufferBoi[k - 1] = AnswerTo(Request(t), k)
    BY DEF TurnInv, CastInv, HeardOwn
  <2>2. Request(t) \in Seq(Byte \ {Nul}) /\ L \in Nat
    BY DEF PipelineInv, ThreadsTypeOK, ThreadType, Request
  <2>3. ASSUME NEW k \in 1 .. L, k <= Room(t) PROVE Shows(t, k)
    <3>1. ASSUME NEW i \in 0 .. k - 1 PROVE th[t].outputBufferBoi[i] # Nul
      <4>1. i + 1 \in 1 .. L /\ (i + 1) - 1 = i
        BY <2>2
      <4>2. th[t].outputBufferBoi[i] = AnswerTo(Request(t), i + 1)
        BY <2>1, <4>1
      <4> QED  BY <2>2, <4>1, <4>2, AnswerHasNoNul
    <3> QED  BY <2>3, <3>1 DEF Shows
  <2> QED  BY <2>1, <2>3
<1>3. PipelineSpec => [](SerialReplyIsCorrect /\ EveryByteComesBack)
  <2>1. PipelineSpec => Spec
    BY PipelineImplementsHelper DEF ImplementsHelper
  <2> QED  BY <2>1, HelperSerialReply, PipelineBytes, PTL
<1>4. PipelineInv /\ EveryByteComesBack /\ SerialReplyIsCorrect' /\ TurnInv /\ [PipelineNext]_pipeline
        => TurnInv'
  BY TurnStep
<1> QED  BY <1>1, <1>2, <1>3, <1>4, PipelineInvHolds, PTL DEF PipelineSpec
=============================================================================
