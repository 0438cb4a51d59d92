---------------------------- MODULE ChatServerProofs ----------------------------
(***************************************************************************)
(* Proofs about the chat server: whatever the number of clients and the    *)
(* order of all steps, as long as no thread asks the helper while another  *)
(* waits and each thread has its own client's socket, the answers go with  *)
(* their questions.                                                        *)
(***************************************************************************)
EXTENDS ChatServer, FiniteSetTheorems, SequenceTheorems, WellFoundedInduction, TLAPS

(* A set of descriptors that is not empty has a least element.             *)
LEMMA MinIsMember ==
  ASSUME NEW F \in SUBSET Nat, F # {}
  PROVE  Min(F) \in F
<1> DEFINE R == OpToRel(<, Nat)
<1>1. IsWellFoundedOn(R, Nat)
  BY NatLessThanWellFounded, Zenon
<1>2. PICK x \in F : \A y \in F : ~(<<y, x>> \in R)
  <2> HIDE DEF R
  <2> QED  BY <1>1, WFMin
<1>3. \A y \in F : ~(y < x)
  BY <1>2 DEF OpToRel
<1>4. \E z \in F : \A y \in F : z =< y
  BY <1>3
<1> QED  BY <1>4 DEF Min

(* The helper answers a single request with its own text.                  *)
LEMMA FlattenOne ==
  ASSUME NEW x
  PROVE  FlattenSeq(<<x>>) = x
BY DEF FlattenSeq

(* What becomes of a sequence of one request or answer.                    *)
LEMMA Singles ==
  ASSUME NEW x
  PROVE  /\ Len(<<x>>) = 1 /\ <<x>> # <<>>
         /\ SubSeq(<<x>>, 1, 1) = <<x>> /\ SubSeq(<<x>>, 2, 1) = <<>>
         /\ Append(<<>>, x) = <<x>>
         /\ FlattenSeq(SubSeq(<<>>, 1, 0)) = <<>> /\ SubSeq(<<>>, 1, 0) = <<>>
<1>1. Len(<<x>>) = 1 /\ <<x>> \in Seq({x}) /\ <<x>> # <<>>
  OBVIOUS
<1>2. SubSeq(<<x>>, 1, 1) = <<x>>
  BY <1>1, SubSeqFull
<1>3. SubSeq(<<x>>, 2, 1) = <<>> /\ SubSeq(<<>>, 1, 0) = <<>>
  BY SubSeqEmpty
<1>4. Append(<<>>, x) = <<x>>
  OBVIOUS
<1>5. FlattenSeq(<<>>) = <<>>
  BY DEF FlattenSeq
<1> QED  BY <1>1, <1>2, <1>3, <1>4, <1>5

-----------------------------------------------------------------------------
\* The labels of a thread that has its socket.
Connected == {"name", "drop", "slot", "fill", "count+", "count+'", "list?", "list", "list!",
              "push?", "push", "recv", "ask", "answer", "cast?", "own?", "cast", "close"}
Casting == {"cast?", "own?", "cast"}

\* What is needed of the types.
Typed ==
  /\ DOMAIN th = Conn /\ \A t \in Conn : {"at", "fd", "text"} \subseteq DOMAIN th[t]
  /\ DOMAIN client = Conn
  /\ said \in [Conn -> Nat] /\ got \in [Conn -> Nat]
  /\ backlog \in Seq(Conn)
  /\ file \in [Fd -> Conn \cup {None}]
  /\ client_socket \in Fd \cup {0} /\ main \in Conn \cup {None}

\* A connection is behind one descriptor at most; while it waits for accept
\* or has not been made, behind none, and its thread does not exist.
Fresh == {c \in Conn : /\ th[c].at = "none" /\ main # c
                        /\ \A f \in Fd : file[f] # c}

Descriptors ==
  /\ \A c \in Conn : client[c] = "away" => c \in Fresh
  /\ \A i \in DOMAIN backlog :
       /\ client[backlog[i]] # "away" /\ backlog[i] \in Fresh
       /\ \A j \in DOMAIN backlog : backlog[i] = backlog[j] => i = j
  /\ \A f, g \in Fd : file[f] = file[g] /\ file[f] # None => f = g
  /\ main # None => client_socket # 0 /\ th[main].at = "none"
  /\ \A t \in Conn : th[t].at # "none" => client_socket # 0
  /\ \A t \in Conn : th[t].at \in Connected => th[t].fd \in Fd

\* No thread has lost its socket to another.
OwnSockets ==
  own =>
    /\ main # None => file[client_socket] = main
    /\ \A t \in Conn : th[t].at \in Connected => file[th[t].fd] = t

\* x is what has last been received from t.
IsLatest(t, x) == \A k \in 1 .. Len(x) : x[k] = <<t, got[t] - Len(x) + k>>

\* A thread asks for its own client's latest lines.
OwnRequests ==
  own => \A t \in Conn : th[t].at \in {"ask", "answer"} =>
                           th[t].text # <<>> /\ IsLatest(t, th[t].text)

\* At most one thread waits, and the helper's socket carries its request or
\* its answer and nothing else.
OneWaits ==
  ~crossed =>
    /\ \A t, u \in Conn : th[t].at = "answer" /\ th[u].at = "answer" => t = u
    /\ (\A t \in Conn : th[t].at # "answer") => asked = <<>> /\ answered = <<>>
    /\ \A t \in Conn : th[t].at = "answer" =>
         \/ asked = <<th[t].text>> /\ answered = <<>> /\ helper = "up"
         \/ asked = <<>> /\ answered = <<th[t].text>>
         \/ asked = <<>> /\ answered = <<>> /\ helper # "up"

AskInv == Typed /\ Descriptors /\ OwnSockets /\ OwnRequests /\ OneWaits /\ AnswersMatch

-----------------------------------------------------------------------------
\* A step of t that has nothing to do with sockets, requests or answers.
\* What others see of the threads is only what Disturb has changed.
Local(t) ==
  /\ UNCHANGED <<said, got, backlog, file, client_socket, main, link, own, crossed>>
  /\ DOMAIN client' = Conn
  /\ \A c \in Conn : client'[c] = "away" <=> client[c] = "away"
  /\ DOMAIN th' = Conn /\ \A u \in Conn : {"at", "fd", "text"} \subseteq DOMAIN th'[u]
  /\ \A u \in Conn : th'[u].fd = th[u].fd /\ th'[u].text = th[u].text
  /\ \A u \in Conn \ {t} : th'[u].at = th[u].at
  /\ th[t].at # "none" /\ th'[t].at # "none"
  /\ th'[t].at \in Connected => th[t].at \in Connected
  /\ th'[t].at \in {"ask", "answer"} <=> th[t].at \in {"ask", "answer"}
  /\ th'[t].at = "answer" <=> th[t].at = "answer"
  /\ th'[t].at \in Casting => th[t].at \in Casting

(* Such a step keeps AskInv.                                               *)
LEMMA LocalKeeps ==
  ASSUME AskInv, NEW t \in Conn, Local(t)
  PROVE  AskInv'
<1> USE DEF AskInv, Local
<1>1. Typed'
  BY DEF Typed
<1>2. Descriptors'
  <2>1. \A c \in Conn : c \in Fresh => c \in Fresh'
    BY DEF Fresh
  <2>2. \A i \in DOMAIN backlog : backlog[i] \in Conn
    BY DEF Typed
  <2>3. \A c \in Conn : client'[c] = "away" => c \in Fresh'
    BY <2>1 DEF Descriptors
  <2>4. \A i \in DOMAIN backlog : client'[backlog[i]] # "away" /\ backlog[i] \in Fresh'
    BY <2>1, <2>2 DEF Descriptors
  <2>5. main # None => client_socket # 0 /\ th'[main].at = "none"
    <3>1. main # None => main \in Conn \ {t}
      BY DEF Typed, Descriptors
    <3> QED  BY <3>1 DEF Descriptors
  <2>6. \A u \in Conn : th'[u].at # "none" => client_socket # 0
    BY DEF Descriptors
  <2>7. \A u \in Conn : th'[u].at \in Connected => th'[u].fd \in Fd
    BY DEF Descriptors
  <2> QED  BY <2>3, <2>4, <2>5, <2>6, <2>7 DEF Descriptors
<1>3. OwnSockets'
  BY DEF OwnSockets
<1>4. OwnRequests'
  BY DEF OwnRequests, IsLatest
<1>5. OneWaits'
  <2> SUFFICES ASSUME ~crossed PROVE OneWaits'
    BY DEF OneWaits
  <2>1. \A u \in Conn : th'[u].at = "answer" <=> th[u].at = "answer"
    OBVIOUS
  <2> QED  BY <2>1 DEF OneWaits, link
<1>6. AnswersMatch'
  BY DEF AnswersMatch, Casting, link
<1> QED  BY <1>1, <1>2, <1>3, <1>4, <1>5, <1>6

(* A step of something else: none of the variables changes.                *)
LEMMA StutterKeeps ==
  ASSUME AskInv, UNCHANGED vars
  PROVE  AskInv'
<1> USE DEF AskInv, vars, peers, mains, roster, link, history
<1>1. Typed'
  BY DEF Typed
<1>2. Descriptors'
  BY DEF Descriptors, Fresh
<1>3. OwnSockets' /\ OwnRequests' /\ OneWaits' /\ AnswersMatch'
  BY DEF OwnSockets, OwnRequests, IsLatest, OneWaits, AnswersMatch
<1> QED  BY <1>1, <1>2, <1>3

(* AskInv holds at the start.                                              *)
LEMMA InitKeeps ==
  ASSUME Init
  PROVE  AskInv
<1>1. Typed
  <2>1. \A c \in Conn : th[c] = Idle
    BY DEF Init
  <2>2. {"at", "fd", "text"} \subseteq DOMAIN Idle
    BY DEF Idle
  <2>3. DOMAIN th = Conn /\ \A t \in Conn : {"at", "fd", "text"} \subseteq DOMAIN th[t]
    BY <2>1, <2>2 DEF Init
  <2>5. /\ DOMAIN client = Conn /\ said \in [Conn -> Nat] /\ got \in [Conn -> Nat]
        /\ backlog \in Seq(Conn) /\ file \in [Fd -> Conn \cup {None}]
        /\ client_socket \in Fd \cup {0} /\ main \in Conn \cup {None}
    BY DEF Init
  <2> QED  BY <2>3, <2>5 DEF Typed
<1>2. Descriptors
  BY ConnAssumption DEF Init, Idle, Connected, Descriptors, Fresh
<1>3. OwnSockets /\ OwnRequests /\ OneWaits /\ AnswersMatch
  BY DEF Init, Idle, Connected, OwnSockets, OwnRequests, OneWaits, AnswersMatch
<1> QED  BY <1>1, <1>2, <1>3 DEF AskInv

-----------------------------------------------------------------------------
(* The clients.                                                            *)
LEMMA ConnectKeeps ==
  ASSUME AskInv, NEW c \in Conn, Connect(c)
  PROVE  AskInv'
<1> USE DEF AskInv, Connect, mains, roster, link, history
<1>1. /\ backlog' \in Seq(Conn) /\ Len(backlog') = Len(backlog) + 1
      /\ DOMAIN backlog' = 1 .. Len(backlog) + 1 /\ DOMAIN backlog = 1 .. Len(backlog)
      /\ \A i \in DOMAIN backlog : backlog'[i] = backlog[i]
      /\ backlog'[Len(backlog) + 1] = c /\ Len(backlog) \in Nat
  BY AppendProperties DEF Typed
<1>2. Typed'
  BY <1>1 DEF Typed
<1>3. Descriptors'
  <2>1. c \in Fresh /\ \A d \in Conn : d \in Fresh' <=> d \in Fresh
    BY DEF Fresh, Descriptors
  <2>2. \A d \in Conn : client'[d] = "away" => client[d] = "away"
    BY DEF Typed
  <2>3. client'[c] # "away"
    BY DEF Typed
  <2>4. \A i \in DOMAIN backlog : backlog[i] \in Conn \ {c}
    BY DEF Typed, Descriptors
  <2>5. \A i \in DOMAIN backlog' :
          /\ client'[backlog'[i]] # "away" /\ backlog'[i] \in Fresh'
          /\ \A j \in DOMAIN backlog' : backlog'[i] = backlog'[j] => i = j
    <3> SUFFICES ASSUME NEW i \in DOMAIN backlog'
                 PROVE  /\ client'[backlog'[i]] # "away" /\ backlog'[i] \in Fresh'
                        /\ \A j \in DOMAIN backlog' : backlog'[i] = backlog'[j] => i = j
      OBVIOUS
    <3> HIDE DEF AskInv, Connect
    <3>1. CASE i = Len(backlog) + 1
      BY <1>1, <2>1, <2>3, <2>4, <3>1
    <3>2. CASE i \in DOMAIN backlog
      <4>1. /\ client[backlog[i]] # "away" /\ backlog[i] \in Fresh /\ backlog[i] \in Conn \ {c}
            /\ \A j \in DOMAIN backlog : backlog[i] = backlog[j] => i = j
        BY <3>2, <2>4 DEF AskInv, Descriptors
      <4> QED  BY <1>1, <2>1, <2>2, <3>2, <4>1
    <3> QED  BY <1>1, <3>1, <3>2
  <2>6. th' = th /\ main' = main /\ client_socket' = client_socket /\ file' = file
    OBVIOUS
  <2> QED  BY <2>1, <2>2, <2>5, <2>6 DEF Descriptors
<1>4. OwnSockets' /\ OwnRequests' /\ OneWaits' /\ AnswersMatch'
  BY DEF OwnSockets, OwnRequests, IsLatest, OneWaits, AnswersMatch
<1> QED  BY <1>2, <1>3, <1>4

(* A client sends its name or a line.                                      *)
LEMMA SayKeeps ==
  ASSUME AskInv, NEW c \in Conn, Say(c)
  PROVE  AskInv'
<1> USE DEF AskInv, Say, mains, roster, link, history
<1>1. Typed'
  BY DEF Typed
<1>2. Descriptors'
  BY DEF Descriptors, Fresh
<1>3. OwnSockets' /\ OwnRequests' /\ OneWaits' /\ AnswersMatch'
  BY DEF OwnSockets, OwnRequests, IsLatest, OneWaits, AnswersMatch
<1> QED  BY <1>1, <1>2, <1>3

(* A client leaves.                                                        *)
LEMMA LeaveKeeps ==
  ASSUME AskInv, NEW c \in Conn, Leave(c)
  PROVE  AskInv'
<1> USE DEF AskInv, Leave, peers, mains, roster, link, history
<1>1. Typed'
  BY DEF Typed
<1>2. Descriptors'
  <2>1. \A d \in Conn : client'[d] = "away" <=> client[d] = "away"
    BY DEF Typed
  <2>2. \A i \in DOMAIN backlog : backlog[i] \in Conn
    BY DEF Typed
  <2>3. \A d \in Conn : d \in Fresh' <=> d \in Fresh
    BY DEF Fresh
  <2> QED  BY <2>1, <2>2, <2>3 DEF Descriptors
<1>3. OwnSockets' /\ OwnRequests' /\ OneWaits' /\ AnswersMatch'
  BY DEF OwnSockets, OwnRequests, IsLatest, OneWaits, AnswersMatch
<1> QED  BY <1>1, <1>2, <1>3

-----------------------------------------------------------------------------
(* The helper: a single request becomes a single answer.                   *)
LEMMA HelperAnswersKeeps ==
  ASSUME AskInv, HelperAnswers
  PROVE  AskInv'
<1> USE DEF AskInv, HelperAnswers, peers, mains, roster, history
<1>1. Typed' /\ OwnSockets' /\ OwnRequests' /\ AnswersMatch'
  BY DEF Typed, OwnSockets, OwnRequests, IsLatest, AnswersMatch
<1>2. OneWaits'
  <2> SUFFICES ASSUME ~crossed PROVE OneWaits'
    BY DEF OneWaits
  <2>1. PICK n \in 1 .. Len(asked) :
          /\ answered' = Append(answered, FlattenSeq(SubSeq(asked, 1, n)))
          /\ asked' = SubSeq(asked, n + 1, Len(asked))
    OBVIOUS
  <2>2. asked # <<>>
    BY <2>1
  <2>3. PICK t \in Conn : /\ th[t].at = "answer"
                          /\ asked = <<th[t].text>> /\ answered = <<>>
    BY <2>2 DEF OneWaits
  <2>4. n = 1 /\ SubSeq(asked, 1, n) = <<th[t].text>> /\ asked' = <<>>
    <3>1. n = 1 /\ Len(asked) = 1
      BY <2>1, <2>3, Singles
    <3> QED  BY <2>1, <2>3, <3>1, Singles
  <2>5. answered' = <<th[t].text>>
    <3>1. answered' = Append(<<>>, th[t].text)
      BY <2>1, <2>3, <2>4, FlattenOne
    <3> QED  BY <3>1, Singles
  <2> QED  BY <2>3, <2>4, <2>5 DEF OneWaits
<1>3. Descriptors'
  BY DEF Descriptors, Fresh
<1> QED  BY <1>1, <1>2, <1>3

(* The helper dies.                                                        *)
LEMMA HelperDiesKeeps ==
  ASSUME AskInv, HelperDies
  PROVE  AskInv'
<1> USE DEF AskInv, HelperDies, peers, mains, roster, history
<1>1. Typed' /\ OwnSockets' /\ OwnRequests'
  BY DEF Typed, OwnSockets, OwnRequests, IsLatest
<1>2. OneWaits'
  BY DEF OneWaits
<1>3. AnswersMatch'
  BY DEF AnswersMatch
<1>4. Descriptors'
  BY DEF Descriptors, Fresh
<1> QED  BY <1>1, <1>2, <1>3, <1>4

-----------------------------------------------------------------------------
(* A connection that waits finds a free descriptor: there are as many as   *)
(* connections, and it has none.                                           *)
LEMMA FreeDescriptor ==
  ASSUME Typed, Descriptors, backlog # <<>>
  PROVE  /\ Head(backlog) \in Conn /\ Head(backlog) = backlog[1] /\ 1 \in DOMAIN backlog
         /\ Min({f \in Fd : file[f] = None}) \in {f \in Fd : file[f] = None}
<1> DEFINE h == Head(backlog)
           free == {f \in Fd : file[f] = None}
<1>1. h \in Conn /\ h = backlog[1] /\ 1 \in DOMAIN backlog
  BY DEF Typed
<1>2. \A f \in Fd : file[f] # h
  BY <1>1 DEF Descriptors, Fresh
<1>3. /\ IsFiniteSet(Conn) /\ Cardinality(Conn) \in Nat
      /\ IsFiniteSet(Conn \ {h}) /\ Cardinality(Conn \ {h}) = Cardinality(Conn) - 1
  BY <1>1, ConnAssumption, FS_CardinalityType, FS_RemoveElement
<1>4. IsFiniteSet(Fd) /\ Cardinality(Fd) = Cardinality(Conn)
  <2>1. IsFiniteSet(1 .. Cardinality(Conn)) /\ Cardinality(1 .. Cardinality(Conn)) = Cardinality(Conn)
    BY <1>3, FS_Interval
  <2> QED  BY <2>1 DEF Fd
<1>5. free # {}
  <2> SUFFICES ASSUME free = {} PROVE FALSE
    OBVIOUS
  <2>1. file \in [Fd -> Conn \ {h}]
    BY <1>2 DEF Typed
  <2>2. Cardinality(Conn \ {h}) < Cardinality(Fd)
    BY <1>3, <1>4
  <2>3. \E f, g \in Fd : f # g /\ file[f] = file[g]
    BY <1>3, <1>4, <2>1, <2>2, FS_PigeonHole
  <2> QED  BY <2>3 DEF Descriptors
<1>6. free \in SUBSET Nat
  BY <1>3 DEF Fd
<1> HIDE DEF free
<1>7. Min(free) \in free
  BY <1>5, <1>6, MinIsMember
<1> QED  BY <1>1, <1>7 DEF free

(* A connection gets a free descriptor.                                    *)
LEMMA AcceptKeeps ==
  ASSUME AskInv, Accept
  PROVE  AskInv'
<1> DEFINE h == backlog[1]
           m == client_socket'
<1>1. /\ main = None /\ main' = h /\ h \in Conn /\ 1 \in DOMAIN backlog /\ h # None
      /\ backlog' = Tail(backlog) /\ file' = [file EXCEPT ![m] = h]
      /\ m \in Fd /\ file[m] = None
  BY FreeDescriptor, ConnAssumption DEF AskInv, Accept
<1>2. UNCHANGED <<client, said, got, asked, answered, helper, th, own, crossed>>
  BY DEF Accept, link, history
<1>3. /\ backlog' \in Seq(Conn) /\ Len(backlog) \in Nat /\ Len(backlog') = Len(backlog) - 1
      /\ \A i \in DOMAIN backlog' : /\ i + 1 \in DOMAIN backlog /\ i + 1 # 1
                                   /\ backlog'[i] = backlog[i + 1]
      /\ \A i \in DOMAIN backlog' : i \in Nat
  <2>1. backlog \in Seq(Conn) /\ backlog # <<>>
    BY <1>1 DEF AskInv, Typed
  <2>2. /\ backlog' \in Seq(Conn) /\ Len(backlog') = Len(backlog) - 1
        /\ \A i \in 1 .. Len(backlog') : backlog'[i] = backlog[i + 1]
    BY <1>1, <2>1, HeadTailProperties
  <2>3. DOMAIN backlog = 1 .. Len(backlog) /\ DOMAIN backlog' = 1 .. Len(backlog') /\ Len(backlog) \in Nat
    BY <2>1, <2>2
  <2> QED  BY <2>2, <2>3
<1>4. Typed'
  BY <1>1, <1>2, <1>3 DEF AskInv, Typed
<1>5. /\ file'[m] = h /\ m # 0
      /\ \A f \in Fd \ {m} : file'[f] = file[f]
  <2>1. 0 \notin Fd
    BY ConnAssumption, FS_CardinalityType DEF Fd
  <2> QED  BY <1>1, <2>1 DEF AskInv, Typed
<1>6. h \in Fresh /\ client[h] # "away" /\ \A c \in Fresh \ {h} : c \in Fresh'
  <2>1. h \in Fresh /\ client[h] # "away"
    BY <1>1 DEF AskInv, Descriptors
  <2> QED  BY <1>1, <1>2, <1>5, <2>1 DEF Fresh
<1>7. Descriptors'
  <2>1. \A c \in Conn : client[c] = "away" => c \in Fresh'
    BY <1>6 DEF AskInv, Descriptors
  <2>2. \A i \in DOMAIN backlog' :
          /\ client[backlog'[i]] # "away" /\ backlog'[i] \in Fresh'
          /\ \A j \in DOMAIN backlog' : backlog'[i] = backlog'[j] => i = j
    <3> SUFFICES ASSUME NEW i \in DOMAIN backlog'
                 PROVE  /\ client[backlog'[i]] # "away" /\ backlog'[i] \in Fresh'
                        /\ \A j \in DOMAIN backlog' : backlog'[i] = backlog'[j] => i = j
      OBVIOUS
    <3>1. /\ client[backlog[i + 1]] # "away" /\ backlog[i + 1] \in Fresh
          /\ \A j \in DOMAIN backlog : backlog[i + 1] = backlog[j] => i + 1 = j
      BY <1>3 DEF AskInv, Descriptors
    <3>2. backlog[i + 1] # h
      BY <1>1, <1>3, <3>1
    <3> QED  BY <1>3, <1>6, <3>1, <3>2
  <2>3. \A f, g \in Fd : file'[f] = file'[g] /\ file'[f] # None => f = g
    <3>1. \A f \in Fd : file[f] # h
      BY <1>6 DEF Fresh
    <3> QED  BY <1>5, <3>1 DEF AskInv, Descriptors
  <2>4. m # 0 /\ th[h].at = "none"
    BY <1>5, <1>6 DEF Fresh
  <2>5. \A t \in Conn : th[t].at \in Connected => th[t].fd \in Fd
    BY DEF AskInv, Descriptors
  <2> QED  BY <1>1, <1>2, <2>1, <2>2, <2>3, <2>4, <2>5 DEF Descriptors
<1>8. OwnSockets'
  <2> SUFFICES ASSUME own, NEW t \in Conn, th[t].at \in Connected
               PROVE  file'[th[t].fd] = t
    BY <1>1, <1>2, <1>5 DEF OwnSockets
  <2>1. th[t].fd \in Fd /\ file[th[t].fd] = t /\ t # None
    BY ConnAssumption DEF AskInv, Descriptors, OwnSockets
  <2> QED  BY <1>1, <1>5, <2>1
<1>9. OwnRequests' /\ OneWaits' /\ AnswersMatch'
  BY <1>2 DEF AskInv, OwnRequests, IsLatest, OneWaits, AnswersMatch
<1> QED  BY <1>4, <1>7, <1>8, <1>9 DEF AskInv

\* Closing a descriptor gives no connection a second one.
LEMMA CloseKeepsDescriptors ==
  ASSUME Typed, NEW f \in Fd \cup {0}, CloseSocket(f)
  PROVE  /\ file' \in [Fd -> Conn \cup {None}]
         /\ \A g \in Fd : file'[g] = IF g = f THEN None ELSE file[g]
BY DEF Typed, CloseSocket

(* main refuses a connection or creates its thread.                        *)
LEMMA AdmitKeeps ==
  ASSUME AskInv, Admit
  PROVE  AskInv'
<1> DEFINE h == main
<1>1. /\ h \in Conn /\ h # None /\ main' = None /\ client_socket \in Fd /\ th[h].at = "none"
      /\ UNCHANGED <<client, said, got, backlog, client_socket, asked, answered, helper, own, crossed>>
  <2>1. client_socket # 0 /\ th[h].at = "none" /\ h \in Conn
    BY DEF AskInv, Typed, Descriptors, Admit
  <2> QED  BY <2>1 DEF AskInv, Typed, Admit, peers, link, history
<1>2. /\ file' \in [Fd -> Conn \cup {None}]
      /\ \A f \in Fd : file'[f] = file[f] \/ (file'[f] = None /\ f = client_socket)
  <2>1. \/ file' = file
        \/ file' = [file EXCEPT ![client_socket] = None]
    BY DEF Admit
  <2>2. file \in [Fd -> Conn \cup {None}] /\ client_socket \in Fd
    BY <1>1 DEF AskInv, Typed
  <2>3. CASE file' = file
    BY <2>2, <2>3
  <2>4. CASE file' = [file EXCEPT ![client_socket] = None]
    BY <2>2, <2>4
  <2> QED  BY <2>1, <2>3, <2>4
<1>3. /\ DOMAIN th' = Conn /\ \A t \in Conn : {"at", "fd", "text"} \subseteq DOMAIN th'[t]
      /\ \A t \in Conn : th'[t].fd = th[t].fd /\ th'[t].text = th[t].text
      /\ \A t \in Conn \ {h} : th'[t].at = th[t].at
      /\ th'[h].at \in {"none", "start"}
  <2>1. th' = th \/ th' = [th EXCEPT ![h].at = "start"]
    BY DEF Admit
  <2>2. DOMAIN th = Conn /\ \A t \in Conn : {"at", "fd", "text"} \subseteq DOMAIN th[t]
    BY DEF AskInv, Typed
  <2>3. CASE th' = th
    BY <1>1, <2>2, <2>3
  <2>4. CASE th' = [th EXCEPT ![h].at = "start"]
    BY <1>1, <2>2, <2>4
  <2> QED  BY <2>1, <2>3, <2>4
<1>4. Typed'
  BY <1>1, <1>2, <1>3 DEF AskInv, Typed
<1>5. Descriptors'
  <2>1. \A c \in Fresh : c \in Fresh'
    BY <1>1, <1>2, <1>3, ConnAssumption DEF Fresh
  <2>2. client_socket # 0
    BY <1>1 DEF AskInv, Descriptors
  <2>3. \A t \in Conn : th'[t].at \in Connected => th'[t].fd \in Fd
    BY <1>3 DEF AskInv, Descriptors, Connected
  <2> QED  BY <1>1, <1>2, <2>1, <2>2, <2>3 DEF AskInv, Descriptors
<1>6. OwnSockets'
  <2> SUFFICES ASSUME own, NEW t \in Conn, th'[t].at \in Connected
               PROVE  file'[th[t].fd] = t
    BY <1>1, <1>3 DEF OwnSockets
  <2>1. t # h /\ th[t].at = th'[t].at
    BY <1>3 DEF Connected
  <2>2. th[t].fd \in Fd /\ file[th[t].fd] = t /\ file[client_socket] = h
    BY <1>1, <2>1 DEF AskInv, Descriptors, OwnSockets
  <2> QED  BY <1>2, <2>1, <2>2
<1>7. \A t \in Conn : \A l \in {"ask", "answer", "cast?", "own?", "cast"} :
        th'[t].at = l <=> th[t].at = l
  BY <1>1, <1>3
<1>8. OwnRequests' /\ OneWaits' /\ AnswersMatch'
  <2>1. OwnRequests'
    BY <1>1, <1>3, <1>7 DEF AskInv, OwnRequests, IsLatest
  <2>2. OneWaits'
    BY <1>1, <1>3, <1>7 DEF AskInv, OneWaits
  <2>3. AnswersMatch'
    BY <1>1, <1>3, <1>7 DEF AskInv, AnswersMatch
  <2> QED  BY <2>1, <2>2, <2>3
<1> QED  BY <1>4, <1>5, <1>6, <1>8 DEF AskInv

-----------------------------------------------------------------------------
(* The threads' steps that are local: registration, the loops over the     *)
(* roster, removal.                                                        *)

\* What may follow a label in such a step.
Moves(from, to) ==
  /\ from # "none" /\ to # "none"
  /\ to \in Connected => from \in Connected
  /\ to \in {"ask", "answer"} <=> from \in {"ask", "answer"}
  /\ to = "answer" <=> from = "answer"
  /\ to \in Casting => from \in Casting

(* What makes a thread's step local.                                       *)
LEMMA LocalBecome ==
  ASSUME Typed, NEW t \in Conn, NEW r,
         UNCHANGED <<said, got, backlog, file, client_socket, main, link, own, crossed>>,
         DOMAIN client' = Conn, \A c \in Conn : client'[c] = "away" <=> client[c] = "away",
         {"at", "fd", "text"} \subseteq DOMAIN r, r.fd = th[t].fd, r.text = th[t].text,
         Moves(th[t].at, r.at),
         Become(t, r) \/ \E p : Disturb(t, r, p)
  PROVE  Local(t)
<1>1. DOMAIN th = Conn /\ \A u \in Conn : {"at", "fd", "text"} \subseteq DOMAIN th[u]
  BY DEF Typed
<1>2. /\ DOMAIN th' = Conn /\ th'[t] = r
      /\ \A u \in Conn \ {t} : /\ {"at", "fd", "text"} \subseteq DOMAIN th'[u]
                               /\ th'[u].at = th[u].at /\ th'[u].fd = th[u].fd
                               /\ th'[u].text = th[u].text
  <2>1. CASE Become(t, r)
    BY <1>1, <2>1 DEF Become
  <2>2. CASE \E p : Disturb(t, r, p)
    BY <1>1, <2>2 DEF Disturb
  <2> QED  BY <2>1, <2>2
<1> QED  BY <1>2 DEF Local, Moves

\* A step that leaves the threads alone.
LEMMA LocalStays ==
  ASSUME Typed, NEW t \in Conn, th[t].at # "none",
         UNCHANGED <<said, got, backlog, file, client_socket, main, link, own, crossed, client, th>>
  PROVE  Local(t)
BY DEF Typed, Local

(* Registration.                                                           *)
LEMMA RegistrationIsLocal ==
  ASSUME Typed, NEW t \in Conn, UNCHANGED <<peers, mains>>,
         LoadSlot(t) \/ FillSlot(t) \/ LoadCount(t) \/ StoreCountUp(t)
  PROVE  Local(t)
<1> USE DEF peers, mains, roster, history, Moves, Connected, Casting
<1>0. {"at", "fd", "text"} \subseteq DOMAIN th[t] /\ DOMAIN client = Conn
  BY DEF Typed
<1>1. CASE LoadSlot(t)
  <2> DEFINE r == [th[t] EXCEPT !.at = "fill", !.reg = currentClientCount]
  <2>1. /\ {"at", "fd", "text"} \subseteq DOMAIN r /\ r.at = "fill"
        /\ r.fd = th[t].fd /\ r.text = th[t].text
    BY <1>0
  <2> HIDE DEF r
  <2>2. Become(t, r) /\ th[t].at = "slot"
    BY <1>1 DEF LoadSlot, r
  <2> QED  BY <1>0, <1>1, <2>1, <2>2, LocalBecome DEF LoadSlot
<1>2. CASE FillSlot(t)
  <2> DEFINE r == [th[t] EXCEPT !.at = "count+"]
  <2>1. /\ {"at", "fd", "text"} \subseteq DOMAIN r /\ r.at = "count+"
        /\ r.fd = th[t].fd /\ r.text = th[t].text
    BY <1>0
  <2> HIDE DEF r
  <2>2. th[t].at = "fill" /\ (Disturb(t, r, th[t].reg) \/ th' = th)
    BY <1>2 DEF FillSlot, r
  <2> QED  BY <1>0, <1>2, <2>1, <2>2, LocalBecome, LocalStays DEF FillSlot
<1>3. CASE LoadCount(t)
  <2> DEFINE r == [th[t] EXCEPT !.at = IF @ = "count+" THEN "count+'" ELSE "count-'",
                                !.reg = currentClientCount]
  <2>1. /\ {"at", "fd", "text"} \subseteq DOMAIN r
        /\ r.at = IF th[t].at = "count+" THEN "count+'" ELSE "count-'"
        /\ r.fd = th[t].fd /\ r.text = th[t].text
    BY <1>0
  <2> HIDE DEF r
  <2>2. Become(t, r) /\ th[t].at \in {"count+", "count-"}
    BY <1>3 DEF LoadCount, r
  <2> QED  BY <1>0, <1>3, <2>1, <2>2, LocalBecome DEF LoadCount
<1>4. CASE StoreCountUp(t)
  <2> DEFINE r == Loop(th[t], "list?")
  <2>1. /\ {"at", "fd", "text"} \subseteq DOMAIN r /\ r.at = "list?"
        /\ r.fd = th[t].fd /\ r.text = th[t].text
    BY <1>0 DEF Loop
  <2> HIDE DEF r
  <2>2. Become(t, r) /\ th[t].at = "count+'"
    BY <1>4 DEF StoreCountUp, r
  <2> QED  BY <1>0, <1>4, <2>1, <2>2, LocalBecome DEF StoreCountUp
<1> QED  BY <1>1, <1>2, <1>3, <1>4

(* A send to a client keeps who is away.                                   *)
LEMMA SendsLeaves ==
  ASSUME Typed, NEW f, Sends(f)
  PROVE  /\ DOMAIN client' = Conn
         /\ \A c \in Conn : client'[c] = "away" <=> client[c] = "away"
BY DEF Typed, Sends

(* The condition of a loop.                                                *)
LEMMA WhileIsLocal ==
  ASSUME Typed, NEW t \in Conn, UNCHANGED <<peers, mains>>,
         NEW from, NEW body, NEW after, While(t, from, body, after),
         Moves(from, body), Moves(from, after), from # "none"
  PROVE  Local(t)
<1> USE DEF peers, mains, roster, history
<1>0. {"at", "fd", "text"} \subseteq DOMAIN th[t] /\ DOMAIN client = Conn
  BY DEF Typed
<1>1. \A l : LET r == [th[t] EXCEPT !.at = l]
             IN  /\ {"at", "fd", "text"} \subseteq DOMAIN r /\ r.at = l
                 /\ r.fd = th[t].fd /\ r.text = th[t].text
  BY <1>0
<1>2. CASE th' = th
  BY <1>2, LocalStays DEF While
<1>3. ASSUME NEW l, l = body \/ l = after, Goto(t, l)
      PROVE  Local(t)
  <2> DEFINE r == [th[t] EXCEPT !.at = l]
  <2>1. /\ {"at", "fd", "text"} \subseteq DOMAIN r /\ r.at = l
        /\ r.fd = th[t].fd /\ r.text = th[t].text
    BY <1>1
  <2>2. Become(t, r) /\ Moves(th[t].at, l)
    BY <1>3 DEF Goto, While
  <2> HIDE DEF r
  <2> QED  BY <1>0, <2>1, <2>2, LocalBecome DEF While
<1> QED  BY <1>2, <1>3 DEF While

(* A send to the socket in an entry.                                       *)
LEMMA SendToEntryIsLocal ==
  ASSUME Typed, NEW t \in Conn, UNCHANGED <<peers, mains>>,
         NEW from, NEW next, SendToEntry(t, from, next), Moves(from, next)
  PROVE  Local(t)
<1> USE DEF peers, mains, roster, history
<1> DEFINE r == [th[t] EXCEPT !.at = next, !.i = @ + 1,
                              !.reached = Append(@, clients[th[t].i].socket)]
<1>0. {"at", "fd", "text"} \subseteq DOMAIN th[t]
  BY DEF Typed
<1>1. /\ {"at", "fd", "text"} \subseteq DOMAIN r /\ r.at = next
      /\ r.fd = th[t].fd /\ r.text = th[t].text
  BY <1>0
<1> HIDE DEF r
<1>2. Become(t, r) /\ th[t].at = from
  BY DEF SendToEntry, r
<1>3. /\ DOMAIN client' = Conn
      /\ \A c \in Conn : client'[c] = "away" <=> client[c] = "away"
  BY SendsLeaves DEF SendToEntry
<1> QED  BY <1>1, <1>2, <1>3, LocalBecome DEF SendToEntry

(* The three loops over the roster.                                        *)
LEMMA LoopsAreLocal ==
  ASSUME Typed, NEW t \in Conn, UNCHANGED <<peers, mains>>,
         outputConnectedClients(t) \/ newClientJoinedPush(t) \/ sendPublicMessage(t)
  PROVE  Local(t)
<1> USE DEF peers, mains, roster, history, Moves, Connected, Casting
<1>0. {"at", "fd", "text"} \subseteq DOMAIN th[t] /\ DOMAIN client = Conn
  BY DEF Typed
<1>1. CASE \/ While(t, "list?", "list", "list!") \/ While(t, "push?", "push", "recv")
           \/ While(t, "cast?", "own?", "recv")
  BY <1>1, WhileIsLocal
<1>2. CASE SendToEntry(t, "push", "push?") \/ SendToEntry(t, "cast", "cast?")
  BY <1>2, SendToEntryIsLocal
<1>3. CASE CopyName(t)
  <2> DEFINE r == [th[t] EXCEPT !.at = "list?", !.i = @ + 1,
                                !.reached = Append(th[t].reached, clients[th[t].i].name)]
  <2>1. /\ {"at", "fd", "text"} \subseteq DOMAIN r /\ r.at = "list?"
        /\ r.fd = th[t].fd /\ r.text = th[t].text
    BY <1>0
  <2> HIDE DEF r
  <2>2. Become(t, r) /\ th[t].at = "list"
    BY <1>3 DEF CopyName, r
  <2> QED  BY <1>0, <1>3, <2>1, <2>2, LocalBecome DEF CopyName
<1>4. CASE SendList(t)
  <2> DEFINE r == Loop(th[t], "push?")
  <2>1. /\ {"at", "fd", "text"} \subseteq DOMAIN r /\ r.at = "push?"
        /\ r.fd = th[t].fd /\ r.text = th[t].text
    BY <1>0 DEF Loop
  <2> HIDE DEF r
  <2>2. Become(t, r) /\ th[t].at = "list!"
    BY <1>4 DEF SendList, r
  <2>3. /\ DOMAIN client' = Conn
        /\ \A c \in Conn : client'[c] = "away" <=> client[c] = "away"
    BY <1>4, SendsLeaves DEF SendList
  <2> QED  BY <1>4, <2>1, <2>2, <2>3, LocalBecome DEF SendList
<1>5. CASE SkipOwn(t)
  <2> DEFINE r == IF IsOther(clients[th[t].i], th[t].fd)
                  THEN [th[t] EXCEPT !.at = "cast"]
                  ELSE [th[t] EXCEPT !.at = "cast?", !.i = @ + 1]
  <2>1. /\ {"at", "fd", "text"} \subseteq DOMAIN r /\ r.at \in {"cast", "cast?"}
        /\ r.fd = th[t].fd /\ r.text = th[t].text
    BY <1>0
  <2> HIDE DEF r
  <2>2. Become(t, r) /\ th[t].at = "own?"
    BY <1>5 DEF SkipOwn, Goto, r
  <2> QED  BY <1>0, <1>5, <2>1, <2>2, LocalBecome DEF SkipOwn
<1> QED  BY <1>1, <1>2, <1>3, <1>4, <1>5
         DEF outputConnectedClients, newClientJoinedPush, sendPublicMessage

(* Removal, but for the close.                                             *)
LEMMA RemovalIsLocal ==
  ASSUME Typed, NEW t \in Conn, UNCHANGED <<peers, mains>>,
         \/ While(t, "find?", "find", "exit") \/ Find(t)
         \/ ShiftOrNot(t) \/ Shift(t) \/ StoreCountDown(t)
  PROVE  Local(t)
<1> USE DEF peers, mains, roster, history, Moves, Connected, Casting
<1>0. {"at", "fd", "text"} \subseteq DOMAIN th[t] /\ DOMAIN client = Conn
  BY DEF Typed
<1>1. CASE While(t, "find?", "find", "exit")
  BY <1>1, WhileIsLocal
<1>2. CASE Find(t)
  <2> DEFINE r == IF clients[th[t].i].socket = th[t].fd
                  THEN [th[t] EXCEPT !.at = "shift?", !.j = th[t].i]
                  ELSE [th[t] EXCEPT !.at = "find?", !.i = @ + 1]
  <2>1. /\ {"at", "fd", "text"} \subseteq DOMAIN r /\ r.at \in {"shift?", "find?"}
        /\ r.fd = th[t].fd /\ r.text = th[t].text
    BY <1>0
  <2> HIDE DEF r
  <2>2. Become(t, r) /\ th[t].at = "find"
    BY <1>2 DEF Find, r
  <2> QED  BY <1>0, <1>2, <2>1, <2>2, LocalBecome DEF Find
<1>3. CASE ShiftOrNot(t)
  <2> DEFINE r == [th[t] EXCEPT !.at = IF ToShift(th[t].j) THEN "shift" ELSE "count-"]
  <2>1. /\ {"at", "fd", "text"} \subseteq DOMAIN r /\ r.at \in {"shift", "count-"}
        /\ r.fd = th[t].fd /\ r.text = th[t].text
    BY <1>0
  <2> HIDE DEF r
  <2>2. Become(t, r) /\ th[t].at = "shift?"
    BY <1>3 DEF ShiftOrNot, Goto, r
  <2> QED  BY <1>0, <1>3, <2>1, <2>2, LocalBecome DEF ShiftOrNot
<1>4. CASE Shift(t)
  <2> DEFINE r == [th[t] EXCEPT !.at = "shift?", !.j = @ + 1]
  <2>1. /\ {"at", "fd", "text"} \subseteq DOMAIN r /\ r.at = "shift?"
        /\ r.fd = th[t].fd /\ r.text = th[t].text
    BY <1>0
  <2> HIDE DEF r
  <2>2. th[t].at = "shift" /\ (Disturb(t, r, th[t].j) \/ th' = th)
    BY <1>4 DEF Shift, r
  <2> QED  BY <1>0, <1>4, <2>1, <2>2, LocalBecome, LocalStays DEF Shift
<1>5. CASE StoreCountDown(t)
  <2> DEFINE r == [th[t] EXCEPT !.at = "find?", !.i = @ + 1]
  <2>1. /\ {"at", "fd", "text"} \subseteq DOMAIN r /\ r.at = "find?"
        /\ r.fd = th[t].fd /\ r.text = th[t].text
    BY <1>0
  <2> HIDE DEF r
  <2>2. Become(t, r) /\ th[t].at = "count-'"
    BY <1>5 DEF StoreCountDown, r
  <2> QED  BY <1>0, <1>5, <2>1, <2>2, LocalBecome DEF StoreCountDown
<1> QED  BY <1>1, <1>2, <1>3, <1>4, <1>5

-----------------------------------------------------------------------------
(* The threads' steps on sockets and requests.                             *)
LEMMA BecomeThread ==
  ASSUME Typed, NEW t \in Conn, NEW r, {"at", "fd", "text"} \subseteq DOMAIN r,
         Become(t, r)
  PROVE  /\ DOMAIN th' = Conn /\ th'[t] = r
         /\ \A u \in Conn \ {t} : th'[u] = th[u]
         /\ \A u \in Conn : {"at", "fd", "text"} \subseteq DOMAIN th'[u]
BY DEF Typed, Become

(* A thread reads client_socket.                                           *)
LEMMA StartKeeps ==
  ASSUME AskInv, NEW t \in Conn, UNCHANGED <<peers, mains>>, Start(t)
  PROVE  AskInv'
<1> DEFINE r == [th[t] EXCEPT !.at = "name", !.fd = client_socket]
<1>1. /\ th[t].at = "start" /\ Become(t, r)
      /\ own' = (own /\ file[client_socket] = t)
      /\ UNCHANGED <<client, said, got, backlog, file, client_socket, main, asked, answered, helper, crossed>>
  BY DEF Start, peers, mains, roster, link
<1>2. /\ {"at", "fd", "text"} \subseteq DOMAIN r /\ r.text = th[t].text
      /\ r.at = "name" /\ r.fd = client_socket
  BY DEF AskInv, Typed
<1> HIDE DEF r
<1>3. /\ DOMAIN th' = Conn /\ th'[t] = r
      /\ \A u \in Conn \ {t} : th'[u] = th[u]
      /\ \A u \in Conn : {"at", "fd", "text"} \subseteq DOMAIN th'[u]
  BY <1>1, <1>2, BecomeThread DEF AskInv
<1>4. Typed'
  BY <1>1, <1>3 DEF AskInv, Typed
<1>5. client_socket \in Fd
  BY <1>1 DEF AskInv, Typed, Descriptors
<1>6. Descriptors'
  <2>1. \A c \in Fresh : c \in Fresh'
    BY <1>1, <1>3 DEF Fresh
  <2>2. main # None => th'[main].at = "none"
    BY <1>1, <1>3 DEF AskInv, Typed, Descriptors
  <2>3. \A u \in Conn : th'[u].at \in Connected => th'[u].fd \in Fd
    BY <1>2, <1>3, <1>5 DEF AskInv, Descriptors
  <2>4. \A u \in Conn : th'[u].at # "none" => client_socket # 0
    BY <1>1, <1>3 DEF AskInv, Descriptors
  <2> QED  BY <1>1, <2>1, <2>2, <2>3, <2>4 DEF AskInv, Descriptors
<1>7. OwnSockets'
  BY <1>1, <1>2, <1>3 DEF AskInv, OwnSockets
<1>8. \A u \in Conn : \A l \in {"ask", "answer", "cast?", "own?", "cast"} :
        th'[u].at = l <=> (th[u].at = l /\ u # t)
  BY <1>1, <1>2, <1>3
<1>9. OwnRequests' /\ AnswersMatch'
  <2>1. \A u \in Conn : th'[u].at \in {"ask", "answer", "cast?", "own?", "cast"} =>
                          th'[u] = th[u]
    BY <1>2, <1>3
  <2>2. OwnRequests'
    <3> SUFFICES ASSUME own', NEW u \in Conn, th'[u].at \in {"ask", "answer"}
                 PROVE  th'[u].text # <<>> /\ IsLatest(u, th[u].text)'
      BY DEF OwnRequests
    <3>1. th'[u] = th[u] /\ own
      BY <1>1, <2>1
    <3>2. th[u].text # <<>> /\ IsLatest(u, th[u].text)
      BY <3>1 DEF AskInv, OwnRequests
    <3> QED  BY <1>1, <3>1, <3>2 DEF IsLatest
  <2>3. AnswersMatch'
    BY <1>1, <2>1 DEF AskInv, AnswersMatch
  <2> QED  BY <2>2, <2>3
<1>10. OneWaits'
  BY <1>1, <1>3, <1>8 DEF AskInv, OneWaits
<1> QED  BY <1>4, <1>6, <1>7, <1>9, <1>10 DEF AskInv

(* A thread closes its socket.                                             *)
LEMMA CloseKeeps ==
  ASSUME AskInv, NEW t \in Conn, UNCHANGED <<peers, mains>>, Drop(t) \/ Close(t)
  PROVE  AskInv'
<1> DEFINE r == IF th[t].at = "drop" THEN [th[t] EXCEPT !.at = "exit"]
                ELSE [th[t] EXCEPT !.at = "find?", !.i = 0]
           f == th[t].fd
<1>1. /\ th[t].at \in {"drop", "close"} /\ Become(t, r) /\ CloseSocket(f)
      /\ UNCHANGED <<client, said, got, backlog, client_socket, main, asked, answered, helper, own, crossed>>
  BY DEF Drop, Close, Goto, peers, mains, roster, link, history
<1>2. /\ {"at", "fd", "text"} \subseteq DOMAIN r /\ r.text = th[t].text
      /\ r.at \in {"exit", "find?"}
  BY DEF AskInv, Typed
<1> HIDE DEF r
<1>3. /\ DOMAIN th' = Conn /\ th'[t] = r
      /\ \A u \in Conn \ {t} : th'[u] = th[u]
      /\ \A u \in Conn : {"at", "fd", "text"} \subseteq DOMAIN th'[u]
  BY <1>1, <1>2, BecomeThread DEF AskInv
<1>4. /\ file' \in [Fd -> Conn \cup {None}] /\ f \in Fd
      /\ \A g \in Fd : file'[g] = IF g = f THEN None ELSE file[g]
  <2>1. f \in Fd
    BY <1>1 DEF AskInv, Descriptors, Connected
  <2> QED  BY <1>1, <2>1, CloseKeepsDescriptors DEF AskInv
<1>5. Typed'
  BY <1>1, <1>3, <1>4 DEF AskInv, Typed
<1>6. main # None => main \in Conn \ {t} /\ th[main].at = "none" /\ client_socket \in Fd
  BY <1>1 DEF AskInv, Typed, Descriptors
<1>7. Descriptors'
  <2>1. \A c \in Fresh : c \in Fresh'
    BY <1>1, <1>3, <1>4, ConnAssumption DEF Fresh
  <2>2. \A u \in Conn : th'[u].at \in Connected => th'[u].fd \in Fd
    BY <1>2, <1>3 DEF AskInv, Descriptors, Connected
  <2>3. \A u \in Conn : th'[u].at # "none" => client_socket # 0
    BY <1>1, <1>3 DEF AskInv, Descriptors
  <2>4. \A g, k \in Fd : file'[g] = file'[k] /\ file'[g] # None => g = k
    BY <1>4 DEF AskInv, Descriptors
  <2>5. main # None => client_socket # 0 /\ th'[main].at = "none"
    BY <1>3, <1>6 DEF AskInv, Descriptors
  <2> QED  BY <1>1, <2>1, <2>2, <2>3, <2>4, <2>5 DEF AskInv, Descriptors
<1>8. OwnSockets'
  <2> SUFFICES ASSUME own PROVE OwnSockets'
    BY <1>1 DEF OwnSockets
  <2>1. file[f] = t
    BY <1>1 DEF AskInv, OwnSockets, Connected
  <2>2. main # None => file'[client_socket] = main
    BY <1>4, <1>6, <2>1 DEF AskInv, OwnSockets
  <2>3. ASSUME NEW u \in Conn, th'[u].at \in Connected
        PROVE  file'[th'[u].fd] = u
    <3>1. u # t
      BY <1>2, <1>3, <2>3 DEF Connected
    <3>2. th'[u] = th[u] /\ th[u].fd \in Fd /\ file[th[u].fd] = u
      BY <1>3, <2>3, <3>1 DEF AskInv, Descriptors, OwnSockets
    <3> QED  BY <1>4, <2>1, <3>1, <3>2
  <2> QED  BY <1>1, <2>2, <2>3 DEF OwnSockets
<1>9. \A u \in Conn : \A l \in {"ask", "answer", "cast?", "own?", "cast"} :
        th'[u].at = l <=> (th[u].at = l /\ u # t)
  BY <1>1, <1>2, <1>3
<1>10. OwnRequests' /\ AnswersMatch'
  <2>1. \A u \in Conn : th'[u].at \in {"ask", "answer", "cast?", "own?", "cast"} =>
                          th'[u] = th[u]
    BY <1>2, <1>3
  <2>2. OwnRequests'
    <3> SUFFICES ASSUME own', NEW u \in Conn, th'[u].at \in {"ask", "answer"}
                 PROVE  th'[u].text # <<>> /\ IsLatest(u, th[u].text)'
      BY DEF OwnRequests
    <3>1. th'[u] = th[u] /\ own
      BY <1>1, <2>1
    <3>2. th[u].text # <<>> /\ IsLatest(u, th[u].text)
      BY <3>1 DEF AskInv, OwnRequests
    <3> QED  BY <1>1, <3>1, <3>2 DEF IsLatest
  <2>3. AnswersMatch'
    BY <1>1, <2>1 DEF AskInv, AnswersMatch
  <2> QED  BY <2>2, <2>3
<1>11. OneWaits'
  BY <1>1, <1>3, <1>9 DEF AskInv, OneWaits
<1> QED  BY <1>5, <1>7, <1>8, <1>10, <1>11 DEF AskInv

(* A recv on t's socket: what a thread hears is of its own client, and no  *)
(* other thread's client has been heard.                                   *)
LEMMA HearsKeeps ==
  ASSUME AskInv, NEW t \in Conn, UNCHANGED <<peers, mains>>,
         RecvName(t) \/ RecvText(t)
  PROVE  AskInv'
<1> USE DEF peers, mains, roster, link
<1>0. /\ {"at", "fd", "text"} \subseteq DOMAIN th[t] /\ th[t].at \in {"name", "recv"}
      /\ th[t].fd \in Fd /\ file[th[t].fd] \in Conn \cup {None} /\ DOMAIN client = Conn
  BY DEF AskInv, Typed, Descriptors, Connected, RecvName, RecvText
<1>1. UNCHANGED <<client, said, backlog, file, client_socket, main, asked, answered, helper, own, crossed>>
  BY DEF RecvName, RecvText, Hears
<1>2. ASSUME NEW l \in {"drop", "close"}, Goto(t, l), got' = got,
             l = "drop" <=> th[t].at = "name"
      PROVE  AskInv'
  <2> DEFINE r == [th[t] EXCEPT !.at = l]
  <2>1. /\ {"at", "fd", "text"} \subseteq DOMAIN r /\ r.at = l
        /\ r.fd = th[t].fd /\ r.text = th[t].text
    BY <1>0
  <2> HIDE DEF r
  <2>2. Become(t, r)
    BY <1>2 DEF Goto, r
  <2>3. Moves(th[t].at, r.at)
    BY <1>0, <1>2, <2>1 DEF Moves, Connected, Casting
  <2>4. Local(t)
    BY <1>0, <1>1, <1>2, <2>1, <2>2, <2>3, LocalBecome DEF AskInv
  <2> QED  BY <2>4, LocalKeeps
<1>3. ASSUME NEW c \in Conn, c = file[th[t].fd], NEW n \in 1 .. said[c] - got[c],
             got' = [got EXCEPT ![c] = @ + n],
             NEW r, Become(t, r), {"at", "fd", "text"} \subseteq DOMAIN r,
             r.fd = th[t].fd,
             \/ r.at = "slot" /\ r.text = th[t].text
             \/ r.at = "ask" /\ r.text = [k \in 1 .. n |-> <<c, got[c] + k>>]
      PROVE  AskInv'
  <2>1. /\ n \in Nat \ {0} /\ got[c] \in Nat /\ got' \in [Conn -> Nat]
        /\ got'[c] = got[c] + n /\ \A u \in Conn \ {c} : got'[u] = got[u]
    BY <1>3 DEF AskInv, Typed
  <2>3. /\ DOMAIN th' = Conn /\ th'[t] = r
        /\ \A u \in Conn \ {t} : th'[u] = th[u]
        /\ \A u \in Conn : {"at", "fd", "text"} \subseteq DOMAIN th'[u]
    BY <1>3, BecomeThread DEF AskInv
  <2>4. Typed'
    BY <1>1, <2>1, <2>3 DEF AskInv, Typed
  <2>5. Descriptors'
    <3>1. \A d \in Fresh : d \in Fresh'
      BY <1>0, <1>1, <2>3 DEF Fresh
    <3>2. main # None => th'[main].at = "none"
      BY <1>0, <2>3 DEF AskInv, Typed, Descriptors
    <3>3. \A u \in Conn : th'[u].at \in Connected => th'[u].fd \in Fd
      BY <1>0, <1>3, <2>3 DEF AskInv, Descriptors
    <3>4. \A u \in Conn : th'[u].at # "none" => client_socket # 0
      BY <1>0, <2>3 DEF AskInv, Descriptors
    <3> QED  BY <1>1, <3>1, <3>2, <3>3, <3>4 DEF AskInv, Descriptors
  <2>6. OwnSockets'
    <3>1. th[t].at \in Connected
      BY <1>0 DEF Connected
    <3>2. \A u \in Conn : th'[u].at \in Connected => th[u].at \in Connected /\ th'[u].fd = th[u].fd
      BY <1>3, <2>3, <3>1
    <3> QED  BY <1>1, <3>2 DEF AskInv, OwnSockets
  <2>7. \A u \in Conn : th'[u].at \in {"answer", "cast?", "own?", "cast"} => u # t
    BY <1>3, <2>3
  <2>8. own => c = t
    BY <1>0, <1>3 DEF AskInv, OwnSockets, Connected
  <2>9. OwnRequests'
    <3> SUFFICES ASSUME own, NEW u \in Conn, th'[u].at \in {"ask", "answer"}
                 PROVE  th'[u].text # <<>> /\ IsLatest(u, th[u].text)'
      BY <1>1 DEF OwnRequests
    <3>1. CASE u = t
      <4> DEFINE x == [k \in 1 .. n |-> <<t, got[t] + k>>]
      <4>1. th'[u].text = x
        BY <1>3, <2>3, <2>8, <3>1
      <4>2. Len(x) = n /\ x # <<>> /\ \A k \in 1 .. n : x[k] = <<t, got[t] + k>>
        BY <2>1
      <4>3. \A k \in 1 .. n : got'[t] - n + k = got[t] + k
        BY <2>1, <2>8
      <4> QED  BY <3>1, <4>1, <4>2, <4>3 DEF IsLatest
    <3>2. CASE u # t
      <4>1. th'[u] = th[u] /\ got'[u] = got[u]
        BY <2>1, <2>3, <2>8, <3>2
      <4>2. th[u].text # <<>> /\ IsLatest(u, th[u].text)
        BY <4>1 DEF AskInv, OwnRequests
      <4> QED  BY <4>1, <4>2 DEF IsLatest
    <3> QED  BY <3>1, <3>2
  <2>10. AnswersMatch'
    <3> SUFFICES ASSUME ~crossed, own, NEW u \in Conn, th'[u].at \in Casting
                 PROVE  /\ th'[u].text = <<>> => helper # "up"
                        /\ \A k \in 1 .. Len(th'[u].text) :
                             th'[u].text[k] = <<u, got'[u] - Len(th'[u].text) + k>>
      BY <1>1 DEF AnswersMatch, Casting
    <3>1. u # t /\ th'[u] = th[u] /\ got'[u] = got[u]
      BY <2>1, <2>3, <2>7, <2>8 DEF Casting
    <3> QED  BY <3>1 DEF AskInv, AnswersMatch, Casting
  <2>11. OneWaits'
    <3>1. \A u \in Conn : th'[u].at = "answer" <=> (th[u].at = "answer" /\ u # t)
      BY <2>3, <2>7
    <3>2. \A u \in Conn : th[u].at = "answer" => u # t
      BY <1>0
    <3> QED  BY <1>1, <2>3, <3>1, <3>2 DEF AskInv, OneWaits
  <2> QED  BY <2>4, <2>5, <2>6, <2>9, <2>10, <2>11 DEF AskInv
<1>4. CASE RecvName(t)
  <2>1. th[t].at = "name" /\ Hears(t, "name", "slot", "drop")
    BY <1>4 DEF RecvName
  <2>2. CASE Goto(t, "drop") /\ UNCHANGED got
    BY <1>2, <2>1, <2>2
  <2>3. CASE \E n \in 1 .. said[file[th[t].fd]] - got[file[th[t].fd]] :
               /\ file[th[t].fd] # None
               /\ got' = [got EXCEPT ![file[th[t].fd]] = @ + n]
               /\ Become(t, [th[t] EXCEPT !.at = "slot",
                               !["name"] = [k \in 1 .. n |-> <<file[th[t].fd], got[file[th[t].fd]] + k>>]])
    <3> DEFINE c == file[th[t].fd]
    <3>1. c \in Conn
      BY <1>0, <2>3
    <3>2. PICK n \in 1 .. said[c] - got[c] :
            /\ got' = [got EXCEPT ![c] = @ + n]
            /\ Become(t, [th[t] EXCEPT !.at = "slot", !["name"] = [k \in 1 .. n |-> <<c, got[c] + k>>]])
      BY <2>3
    <3> DEFINE r == [th[t] EXCEPT !.at = "slot", !["name"] = [k \in 1 .. n |-> <<c, got[c] + k>>]]
    <3>3. /\ {"at", "fd", "text"} \subseteq DOMAIN r /\ r.at = "slot"
          /\ r.fd = th[t].fd /\ r.text = th[t].text
      BY <1>0
    <3>4. Become(t, r)
      BY <3>2
    <3> HIDE DEF r
    <3> QED  BY <1>3, <3>1, <3>2, <3>3, <3>4
  <2> QED  BY <2>1, <2>2, <2>3 DEF Hears
<1>5. CASE RecvText(t)
  <2>1. th[t].at = "recv" /\ Hears(t, "text", "ask", "close")
    BY <1>5 DEF RecvText
  <2>2. CASE Goto(t, "close") /\ UNCHANGED got
    BY <1>2, <2>1, <2>2
  <2>3. CASE \E n \in 1 .. said[file[th[t].fd]] - got[file[th[t].fd]] :
               /\ file[th[t].fd] # None
               /\ got' = [got EXCEPT ![file[th[t].fd]] = @ + n]
               /\ Become(t, [th[t] EXCEPT !.at = "ask",
                               !["text"] = [k \in 1 .. n |-> <<file[th[t].fd], got[file[th[t].fd]] + k>>]])
    <3> DEFINE c == file[th[t].fd]
    <3>1. c \in Conn
      BY <1>0, <2>3
    <3>2. PICK n \in 1 .. said[c] - got[c] :
            /\ got' = [got EXCEPT ![c] = @ + n]
            /\ Become(t, [th[t] EXCEPT !.at = "ask", !["text"] = [k \in 1 .. n |-> <<c, got[c] + k>>]])
      BY <2>3
    <3> DEFINE x == [k \in 1 .. n |-> <<c, got[c] + k>>]
               r == [th[t] EXCEPT !.at = "ask", !["text"] = x]
    <3>3. /\ {"at", "fd", "text"} \subseteq DOMAIN r /\ r.at = "ask"
          /\ r.fd = th[t].fd /\ r.text = x
      <4> HIDE DEF x
      <4> QED  BY <1>0
    <3>4. Become(t, r)
      BY <3>2
    <3> HIDE DEF r
    <3> QED  BY <1>3, <3>1, <3>2, <3>3, <3>4
  <2> QED  BY <2>1, <2>2, <2>3 DEF Hears
<1> QED  BY <1>4, <1>5

(* A thread asks alone, or crossed is set.                                 *)
LEMMA AskHelperKeeps ==
  ASSUME AskInv, NEW t \in Conn, UNCHANGED <<peers, mains>>, AskHelper(t)
  PROVE  AskInv'
<1> DEFINE r == [th[t] EXCEPT !.at = "answer"]
<1>1. /\ th[t].at = "ask" /\ Become(t, r)
      /\ crossed' = (crossed \/ \E u \in Conn \ {t} : th[u].at = "answer")
      /\ UNCHANGED <<client, said, got, backlog, file, client_socket, main, answered, own>>
      /\ helper' = "up" <=> helper = "up"
      /\ asked' = IF helper = "up" THEN Append(asked, th[t].text) ELSE asked
  BY DEF AskHelper, Goto, peers, mains, roster
<1>2. /\ {"at", "fd", "text"} \subseteq DOMAIN r /\ r.text = th[t].text /\ r.fd = th[t].fd
      /\ r.at = "answer"
  BY DEF AskInv, Typed
<1> HIDE DEF r
<1>3. /\ DOMAIN th' = Conn /\ th'[t] = r
      /\ \A u \in Conn \ {t} : th'[u] = th[u]
      /\ \A u \in Conn : {"at", "fd", "text"} \subseteq DOMAIN th'[u]
  BY <1>1, <1>2, BecomeThread DEF AskInv
<1>4. \A u \in Conn : /\ th'[u].fd = th[u].fd /\ th'[u].text = th[u].text
                      /\ th'[u].at # th[u].at => u = t /\ th[t].at = "ask" /\ th'[t].at = "answer"
  BY <1>1, <1>2, <1>3
<1>5. Typed'
  BY <1>1, <1>3 DEF AskInv, Typed
<1>6. Descriptors'
  <2>1. \A d \in Fresh : d \in Fresh'
    BY <1>1, <1>4 DEF Fresh
  <2>2. main # None => th'[main].at = "none"
    BY <1>4 DEF AskInv, Typed, Descriptors
  <2>3. \A u \in Conn : th'[u].at \in Connected => th'[u].fd \in Fd
    BY <1>4 DEF AskInv, Descriptors, Connected
  <2>4. \A u \in Conn : th'[u].at # "none" => client_socket # 0
    BY <1>4 DEF AskInv, Descriptors
  <2> QED  BY <1>1, <2>1, <2>2, <2>3, <2>4 DEF AskInv, Descriptors
<1>7. OwnSockets'
  <2>1. \A u \in Conn : th'[u].at \in Connected => th[u].at \in Connected
    BY <1>4 DEF Connected
  <2> QED  BY <1>1, <1>4, <2>1 DEF AskInv, OwnSockets
<1>8. OwnRequests'
  <2>1. \A u \in Conn : th'[u].at \in {"ask", "answer"} => th[u].at \in {"ask", "answer"}
    BY <1>4
  <2> QED  BY <1>1, <1>4, <2>1 DEF AskInv, OwnRequests, IsLatest
<1>9. OneWaits'
  <2> SUFFICES ASSUME ~crossed' PROVE OneWaits'
    BY DEF OneWaits
  <2>1. \A u \in Conn : th[u].at # "answer"
    BY <1>1
  <2>2. asked = <<>> /\ answered = <<>>
    BY <1>1, <2>1 DEF AskInv, OneWaits
  <2>3. asked' = IF helper = "up" THEN <<th'[t].text>> ELSE <<>>
    BY <1>1, <1>4, <2>2, Singles
  <2>4. \A u \in Conn : th'[u].at = "answer" <=> u = t
    BY <1>2, <1>3, <2>1
  <2> QED  BY <1>1, <2>2, <2>3, <2>4 DEF OneWaits
<1>10. AnswersMatch'
  <2>1. \A u \in Conn : th'[u].at \in Casting => th[u].at \in Casting
    BY <1>4 DEF Casting
  <2> QED  BY <1>1, <1>4, <2>1 DEF AskInv, AnswersMatch, Casting
<1> QED  BY <1>5, <1>6, <1>7, <1>8, <1>9, <1>10 DEF AskInv

(* The only thread that waits gets the only answer.                        *)
LEMMA HearHelperKeeps ==
  ASSUME AskInv, NEW t \in Conn, UNCHANGED <<peers, mains>>, HearHelper(t)
  PROVE  AskInv'
<1>1. PICK n \in 0 .. Len(answered) :
        /\ n = 0 => answered = <<>> /\ helper # "up"
        /\ answered' = AnswersBeyond(n)
        /\ Become(t, [Loop(th[t], "cast?") EXCEPT !.text = FlattenSeq(SubSeq(answered, 1, n))])
  BY DEF HearHelper
<1> DEFINE x == FlattenSeq(SubSeq(answered, 1, n))
           r == [Loop(th[t], "cast?") EXCEPT !.text = x]
<1>2. /\ th[t].at = "answer" /\ Become(t, r)
      /\ UNCHANGED <<client, said, got, backlog, file, client_socket, main, asked, helper, own, crossed>>
  BY <1>1 DEF HearHelper, peers, mains, roster, history
<1>3. {"at", "fd", "text"} \subseteq DOMAIN r /\ r.text = x /\ r.fd = th[t].fd /\ r.at = "cast?"
  <2> HIDE DEF x
  <2> QED  BY DEF AskInv, Typed, Loop
<1> HIDE DEF r
<1>4. ~crossed => /\ asked = <<>> /\ answered' = <<>>
                  /\ \/ x = <<>> /\ helper # "up"
                     \/ x = th[t].text
  <2> SUFFICES ASSUME ~crossed
               PROVE  /\ asked = <<>> /\ answered' = <<>>
                      /\ \/ x = <<>> /\ helper # "up"
                         \/ x = th[t].text
    OBVIOUS
  <2>1. CASE n = 0
    <3>1. asked = <<>> /\ answered = <<>> /\ helper # "up"
      BY <1>1, <1>2, <2>1, Singles DEF AskInv, OneWaits
    <3>2. answered' = <<>> /\ x = <<>>
      <4>1. Len(answered) = 0 /\ n + 1 = 1
        BY <2>1, <3>1
      <4>2. answered' = SubSeq(<<>>, 1, 0) /\ x = FlattenSeq(SubSeq(<<>>, 1, 0))
        BY <1>1, <2>1, <3>1, <4>1 DEF AnswersBeyond
      <4> QED  BY <4>2, Singles
    <3> QED  BY <3>1, <3>2
  <2>2. CASE n # 0
    <3>1. asked = <<>> /\ answered = <<th[t].text>>
      BY <1>1, <1>2, <2>2, Singles DEF AskInv, OneWaits
    <3>2. n = 1 /\ Len(answered) = 1
      BY <2>2, <3>1, Singles
    <3>3. answered' = <<>> /\ x = th[t].text
      <4>1. /\ answered' = SubSeq(<<th[t].text>>, 2, 1)
            /\ x = FlattenSeq(SubSeq(<<th[t].text>>, 1, 1))
        BY <1>1, <3>1, <3>2 DEF AnswersBeyond
      <4>2. x = FlattenSeq(<<th[t].text>>)
        BY <4>1, Singles
      <4> QED  BY <4>1, <4>2, Singles, FlattenOne
    <3> QED  BY <3>1, <3>3
  <2> QED  BY <2>1, <2>2
<1>5. /\ DOMAIN th' = Conn /\ th'[t] = r
      /\ \A u \in Conn \ {t} : th'[u] = th[u]
      /\ \A u \in Conn : {"at", "fd", "text"} \subseteq DOMAIN th'[u]
  BY <1>2, <1>3, BecomeThread DEF AskInv
<1> HIDE DEF x
<1>6. Typed'
  BY <1>2, <1>5 DEF AskInv, Typed
<1>7. Descriptors'
  <2>1. \A d \in Fresh : d \in Fresh'
    BY <1>2, <1>5 DEF Fresh
  <2>2. main # None => th'[main].at = "none"
    BY <1>2, <1>5 DEF AskInv, Typed, Descriptors
  <2>3. \A u \in Conn : th'[u].at \in Connected => th'[u].fd \in Fd
    BY <1>2, <1>3, <1>5 DEF AskInv, Descriptors, Connected
  <2>4. \A u \in Conn : th'[u].at # "none" => client_socket # 0
    BY <1>2, <1>5 DEF AskInv, Descriptors
  <2> QED  BY <1>2, <2>1, <2>2, <2>3, <2>4 DEF AskInv, Descriptors
<1>8. OwnSockets'
  <2>1. th[t].at \in Connected
    BY <1>2 DEF Connected
  <2>2. \A u \in Conn : th'[u].at \in Connected => th[u].at \in Connected /\ th'[u].fd = th[u].fd
    BY <1>3, <1>5, <2>1
  <2> QED  BY <1>2, <2>2 DEF AskInv, OwnSockets
<1>9. OwnRequests'
  <2>1. \A u \in Conn : th'[u].at \in {"ask", "answer"} => th'[u] = th[u]
    BY <1>3, <1>5
  <2> QED  BY <1>2, <2>1 DEF AskInv, OwnRequests, IsLatest
<1>10. OneWaits'
  <2> SUFFICES ASSUME ~crossed PROVE OneWaits'
    BY <1>2 DEF OneWaits
  <2>1. \A u \in Conn : th'[u].at # "answer"
    BY <1>2, <1>3, <1>5 DEF AskInv, OneWaits
  <2> QED  BY <1>2, <1>4, <2>1 DEF OneWaits
<1>11. AnswersMatch'
  <2> SUFFICES ASSUME ~crossed, own, NEW u \in Conn, th'[u].at \in Casting
               PROVE  /\ th'[u].text = <<>> => helper # "up"
                      /\ \A k \in 1 .. Len(th'[u].text) :
                           th'[u].text[k] = <<u, got[u] - Len(th'[u].text) + k>>
    BY <1>2 DEF AnswersMatch, Casting
  <2>1. CASE u # t
    <3>1. th'[u] = th[u]
      BY <1>5, <2>1
    <3> QED  BY <3>1 DEF AskInv, AnswersMatch, Casting
  <2>2. CASE u = t
    <3>1. th'[u].text = x
      BY <1>3, <1>5, <2>2
    <3>2. CASE x = <<>> /\ helper # "up"
      BY <3>1, <3>2
    <3>3. CASE x = th[t].text
      BY <1>2, <2>2, <3>1, <3>3 DEF AskInv, OwnRequests, IsLatest
    <3> QED  BY <1>4, <3>2, <3>3
  <2> QED  BY <2>1, <2>2
<1> QED  BY <1>6, <1>7, <1>8, <1>9, <1>10, <1>11 DEF AskInv

-----------------------------------------------------------------------------

(* AskInv is inductive.                                                    *)
LEMMA AskInvStep ==
  ASSUME AskInv, [Next]_vars
  PROVE  AskInv'
<1>1. ASSUME NEW c \in Conn, Connect(c) \/ Say(c) \/ Leave(c)
      PROVE  AskInv'
  BY <1>1, ConnectKeeps, SayKeeps, LeaveKeeps
<1>2. CASE HelperAnswers
  BY <1>2, HelperAnswersKeeps
<1>3. CASE HelperDies
  BY <1>3, HelperDiesKeeps
<1>4. CASE Accept
  BY <1>4, AcceptKeeps
<1>5. CASE Admit
  BY <1>5, AdmitKeeps
<1>6. ASSUME NEW t \in Conn, clientThreadSplitFunction(t)
      PROVE  AskInv'
  <2>1. UNCHANGED <<peers, mains>> /\ Typed
    BY <1>6 DEF clientThreadSplitFunction, AskInv
  <2>2. CASE Start(t)
    BY <2>1, <2>2, StartKeeps
  <2>3. CASE RecvName(t) \/ RecvText(t)
    BY <2>1, <2>3, HearsKeeps
  <2>4. CASE Drop(t) \/ Close(t)
    BY <2>1, <2>4, CloseKeeps
  <2>5. CASE LoadSlot(t) \/ FillSlot(t) \/ LoadCount(t) \/ StoreCountUp(t)
    BY <2>1, <2>5, RegistrationIsLocal, LocalKeeps
  <2>6. CASE outputConnectedClients(t) \/ newClientJoinedPush(t) \/ sendPublicMessage(t)
    BY <2>1, <2>6, LoopsAreLocal, LocalKeeps
  <2>7. CASE AskHelper(t)
    BY <2>1, <2>7, AskHelperKeeps
  <2>8. CASE HearHelper(t)
    BY <2>1, <2>8, HearHelperKeeps
  <2>9. CASE \/ While(t, "find?", "find", "exit") \/ Find(t)
             \/ ShiftOrNot(t) \/ Shift(t) \/ StoreCountDown(t)
    BY <2>1, <2>9, RemovalIsLocal, LocalKeeps
  <2> QED  BY <1>6, <2>2, <2>3, <2>4, <2>5, <2>6, <2>7, <2>8, <2>9
           DEF clientThreadSplitFunction, RemoveClient
<1>7. CASE UNCHANGED vars
  BY <1>7, StutterKeeps
<1> QED  BY <1>1, <1>2, <1>3, <1>4, <1>5, <1>6, <1>7 DEF Next

(* For any number of clients and any interleaving, races on the roster     *)
(* included: as long as no thread asks the helper while another waits and  *)
(* each has its own client's socket, a thread passes on the answer to its  *)
(* client's latest lines, or nothing once the helper has gone              *)
(* (talkWithHelperServer, sendPublicMessage).                              *)
THEOREM ServerAnswersMatch == Spec => []AnswersMatch
<1>1. Init => AskInv
  BY InitKeeps
<1>2. AskInv /\ [Next]_vars => AskInv'
  BY AskInvStep
<1>3. AskInv => AnswersMatch
  BY DEF AskInv
<1> QED  BY <1>1, <1>2, <1>3, PTL DEF Spec
=============================================================================
