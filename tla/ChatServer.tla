------------------------------ MODULE ChatServer ------------------------------
(***************************************************************************)
(* The chat server (2_server.c): main accepts connections and starts one   *)
(* thread for each; a thread learns its client's name, enters it in the    *)
(* global array clients[], and then passes every line of its client        *)
(* through the helper node and sends the answer to the others, until the   *)
(* client leaves and its entry is removed.                                 *)
(*                                                                         *)
(* Nothing is locked.  An action is one access to what threads share       *)
(* (client_socket, clients[i], currentClientCount, the descriptors, the    *)
(* helper's socket) with the thread-private work around it; count++ and    *)
(* count-- are a load and a store.  The copy of one clients[] element is   *)
(* one step.  Threads are named after the connection they are created for. *)
(***************************************************************************)
EXTENDS Integers, SequencesExt, FiniteSetsExt

CONSTANTS
  Conn,                       \* the connections clients make
  None,                       \* no connection
  MAXIMUM_CONNECTED_CLIENTS,  \* encDec.h: 6
  BUFFER_SIZE,                \* encDec.h: 100
  Size,                       \* the length of each line
  MaxLines,                   \* bounds on what each client sends: its name, then lines
  MortalHelper                \* whether the helper may die

ASSUME ConnAssumption     == IsFiniteSet(Conn) /\ None \notin Conn
ASSUME CapacityAssumption == MAXIMUM_CONNECTED_CLIENTS \in Nat \ {0}
ASSUME LinesAssumption    == MaxLines \in [Conn -> Nat]
ASSUME HelperAssumption   == MortalHelper \in BOOLEAN

Fd    == 1 .. Cardinality(Conn)
Line  == UNION {{c} \X (1 .. MaxLines[c]) : c \in Conn}    \* line 1 of a client is its name
Entry == 0 .. MAXIMUM_CONNECTED_CLIENTS - 1

ASSUME SizeAssumption == BUFFER_SIZE \in Nat /\ Size \in [Line -> Nat]

VARIABLES
  client,               \* a client is "away", "here", "gone", or "reset" its socket
  said, got,            \* lines sent by a client, lines received by the server
  backlog,              \* connections waiting for accept
  file,                 \* the connection behind each descriptor of the server
  client_socket,        \* main's variable, whose address every thread is given
  main,                 \* the connection main has just accepted, or None
  clients, currentClientCount,   \* the roster
  asked, answered,      \* the two directions of the helper's socket
  helper,               \* the helper is "up", "gone", or known to be gone ("reset")
  th,                   \* the threads
  process,              \* "up", "killed" by SIGPIPE, or out of the bounds of
                        \* clients ("overrun") or listOfClients ("smashed")
  own,                  \* history: each thread got its own client's socket
  serial,               \* history: one thread at a time edited the roster
  crossed               \* history: a thread asked the helper while another waited

peers   == <<said, backlog>>
mains   == <<client_socket, main>>
roster  == <<clients, currentClientCount>>
link    == <<asked, answered, helper>>
history == <<own, serial, crossed>>
vars    == <<client, got, peers, file, mains, roster, link, th, process, history>>

Idle == [at |-> "none", fd |-> 0, name |-> <<>>, text |-> <<>>, i |-> 0, j |-> 0,
         reg |-> 0, reached |-> <<>>, kept |-> {}]

Init ==
  /\ client = [c \in Conn |-> "away"]
  /\ said = [c \in Conn |-> 0] /\ got = [c \in Conn |-> 0]
  /\ backlog = <<>>
  /\ file = [f \in Fd |-> None]
  /\ client_socket = 0 /\ main = None
  /\ clients = [i \in Entry |-> [socket |-> 0, name |-> <<>>]]
  /\ currentClientCount = 0
  /\ asked = <<>> /\ answered = <<>> /\ helper = "up"
  /\ th = [c \in Conn |-> Idle]
  /\ process = "up"
  /\ own = TRUE /\ serial = TRUE /\ crossed = FALSE

-----------------------------------------------------------------------------
(* The clients.                                                            *)
Connect(c) ==
  /\ client[c] = "away"
  /\ client' = [client EXCEPT ![c] = "here"]
  /\ backlog' = Append(backlog, c)
  /\ UNCHANGED <<said, got, file, mains, roster, link, th, process, history>>

Say(c) ==
  /\ client[c] = "here" /\ said[c] < MaxLines[c]
  /\ said' = [said EXCEPT ![c] = @ + 1]
  /\ UNCHANGED <<client, got, backlog, file, mains, roster, link, th, process, history>>

Leave(c) ==
  /\ client[c] = "here"
  /\ client' = [client EXCEPT ![c] = "gone"]
  /\ UNCHANGED <<peers, got, file, mains, roster, link, th, process, history>>

(* The helper: what it has received by its next recv, one request or       *)
(* several, it answers with one send.                                      *)
HelperAnswers ==
  /\ helper = "up"
  /\ \E n \in 1 .. Len(asked) :
       /\ answered' = Append(answered, FlattenSeq(SubSeq(asked, 1, n)))
       /\ asked' = SubSeq(asked, n + 1, Len(asked))
  /\ UNCHANGED <<client, got, peers, file, mains, roster, helper, th, process, history>>

\* Its answers still arrive; what it has not read resets the connection.
HelperDies ==
  /\ MortalHelper /\ helper = "up"
  /\ helper' = IF asked = <<>> THEN "gone" ELSE "reset"
  /\ asked' = <<>>
  /\ UNCHANGED <<client, got, peers, file, mains, roster, answered, th, process, history>>

(* main: accept takes the lowest free descriptor.                          *)
Accept ==
  /\ main = None /\ backlog # <<>>
  /\ main' = Head(backlog)
  /\ backlog' = Tail(backlog)
  /\ client_socket' = Min({f \in Fd : file[f] = None})
  /\ file' = [file EXCEPT ![client_socket'] = main']
  /\ UNCHANGED <<client, said, got, roster, link, th, process, history>>

\* The capacity test, then pthread_create or close.
Admit ==
  /\ main # None
  /\ IF currentClientCount < MAXIMUM_CONNECTED_CLIENTS
     THEN th' = [th EXCEPT ![main].at = "start"] /\ UNCHANGED file
     ELSE file' = [file EXCEPT ![client_socket] = None] /\ UNCHANGED th
  /\ main' = None
  /\ UNCHANGED <<client, got, peers, client_socket, roster, link, process, history>>

-----------------------------------------------------------------------------
(* clientThreadSplitFunction, as thread t.                                 *)
Become(t, r) == th' = [th EXCEPT ![t] = r]
Goto(t, label) == Become(t, [th[t] EXCEPT !.at = label])

\* The threads that are changing the roster, or about to.
RemovalLabel == {"close", "find?", "find", "shift?", "shift", "count-", "count-'"}
EditLabel == {"slot", "fill", "count+", "count+'"} \cup RemovalLabel
Editing(t) == th[t].at \in EditLabel
OtherEdits(t) == \E u \in Conn \ {t} : Editing(u)

\* A loop over the roster begins.  What follows is history: reached is what it
\* has copied, or sent to, and kept the places of clients[] that nobody has
\* stored to since.
Loop(r, label) == [r EXCEPT !.at = label, !.i = 0, !.reached = <<>>, !.kept = Entry]

\* A store to clients[p] disturbs the loops of the other threads there.
Disturb(t, r, p) ==
  th' = [u \in Conn |-> IF u = t THEN r ELSE [th[u] EXCEPT !.kept = @ \ {p}]]

\* int clientSocketID = *((int *)arg)
Start(t) ==
  /\ th[t].at = "start"
  /\ Become(t, [th[t] EXCEPT !.at = "name", !.fd = client_socket])
  /\ own' = (own /\ file[client_socket] = t)
  /\ UNCHANGED <<client, got, file, roster, link, process, serial, crossed>>

\* recv on t's socket: lines of whoever is behind it, one or several; the
\* end of the connection, or of the descriptor, ends the loop.
Hears(t, field, next, end) ==
  LET f == th[t].fd
      c == file[f]
  IN  /\ \/ /\ c # None
            /\ \E n \in 1 .. said[c] - got[c] :
                 /\ got' = [got EXCEPT ![c] = @ + n]
                 /\ Become(t, [th[t] EXCEPT !.at = next,
                                       ![field] = [k \in 1 .. n |-> <<c, got[c] + k>>]])
         \/ /\ c # None => client[c] \in {"gone", "reset"} /\ got[c] = said[c]
            /\ Goto(t, end)
            /\ UNCHANGED got
      /\ UNCHANGED <<client, file, roster, link, process, own, crossed>>

RecvName(t) ==
  /\ th[t].at = "name"
  /\ Hears(t, "name", "slot", "drop")
  /\ serial' = (serial /\ (th'[t].at = "slot" => ~OtherEdits(t)))

\* Mutant: close is forgotten.
KeepOpen(f) == file' = file

\* close
CloseSocket(f) == file' = [file EXCEPT ![f] = None]

\* No name: close and exit.
Drop(t) ==
  /\ th[t].at = "drop"
  /\ CloseSocket(th[t].fd)
  /\ Goto(t, "exit")
  /\ UNCHANGED <<client, got, roster, link, process, history>>

\* clients[currentClientCount] = newBoi
LoadSlot(t) ==
  /\ th[t].at = "slot"
  /\ Become(t, [th[t] EXCEPT !.at = "fill", !.reg = currentClientCount])
  /\ UNCHANGED <<client, got, file, roster, link, process, history>>

FillSlot(t) ==
  LET r == th[t]
  IN  /\ r.at = "fill"
      /\ IF r.reg \in Entry
         THEN /\ clients' = [clients EXCEPT ![r.reg] = [socket |-> r.fd, name |-> r.name]]
              /\ Disturb(t, [r EXCEPT !.at = "count+"], r.reg)
              /\ UNCHANGED process
         ELSE process' = "overrun" /\ UNCHANGED <<clients, th>>
      /\ UNCHANGED <<client, got, file, currentClientCount, link, history>>

\* currentClientCount++ and currentClientCount--
LoadCount(t) ==
  /\ th[t].at \in {"count+", "count-"}
  /\ Become(t, [th[t] EXCEPT !.at = IF @ = "count+" THEN "count+'" ELSE "count-'",
                             !.reg = currentClientCount])
  /\ UNCHANGED <<client, got, file, roster, link, process, history>>

StoreCountUp(t) ==
  /\ th[t].at = "count+'"
  /\ currentClientCount' = th[t].reg + 1
  /\ Become(t, Loop(th[t], "list?"))
  /\ UNCHANGED <<client, got, file, clients, link, process, history>>

\* send to the connection behind f: nothing comes of a closed descriptor; a
\* client that has gone resets the connection, and after that the signal
\* SIGPIPE may end the server.
Sends(f) ==
  LET c == IF f \in Fd THEN file[f] ELSE None
  IN  CASE c # None /\ client[c] = "gone" ->
             client' = [client EXCEPT ![c] = "reset"] /\ UNCHANGED process
        [] c # None /\ client[c] = "reset" ->
             process' \in {"up", "killed"} /\ UNCHANGED client
        [] OTHER -> UNCHANGED <<client, process>>

\* The condition i < currentClientCount of a loop over the roster; an index
\* beyond the array is out of the model.
While(t, from, body, after) ==
  /\ th[t].at = from
  /\ IF th[t].i < currentClientCount
     THEN IF th[t].i \in Entry
          THEN Goto(t, body) /\ UNCHANGED process
          ELSE process' = "overrun" /\ UNCHANGED th
     ELSE Goto(t, after) /\ UNCHANGED process
  /\ UNCHANGED <<client, got, file, roster, link, history>>

\* send(clients[i].socket, ...), and on to the next i.
SendToEntry(t, from, next) ==
  LET r == th[t]
      f == clients[r.i].socket
  IN  /\ r.at = from
      /\ Sends(f)
      /\ Become(t, [r EXCEPT !.at = next, !.i = @ + 1, !.reached = Append(@, f)])
      /\ UNCHANGED <<got, file, roster, link, history>>

\* The length of a name, which may be several lines of its client.
TextSize(name) == FoldSeq(LAMBDA l, sum : Size[l] + sum, 0, name)

\* Mutant: the names are separated by "\r\n".
WithReturn(name) == TextSize(name) + 2

\* strcat(listOfClients, name), strcat(listOfClients, "\n")
WithNewline(name) == TextSize(name) + 1

\* The names are copied one by one, and the list goes to t's client only.
CopyName(t) ==
  LET names == Append(th[t].reached, clients[th[t].i].name)
  IN  /\ th[t].at = "list"
      /\ Become(t, [th[t] EXCEPT !.at = "list?", !.i = @ + 1, !.reached = names])
      /\ process' = IF FoldSeq(LAMBDA n, sum : WithNewline(n) + sum, 0, names) < BUFFER_SIZE
                    THEN process ELSE "smashed"
      /\ UNCHANGED <<client, got, file, roster, link, history>>

SendList(t) ==
  /\ th[t].at = "list!"
  /\ Sends(th[t].fd)
  /\ Become(t, Loop(th[t], "push?"))
  /\ UNCHANGED <<got, file, roster, link, history>>

outputConnectedClients(t) ==
  While(t, "list?", "list", "list!") \/ CopyName(t) \/ SendList(t)

newClientJoinedPush(t) ==
  \/ While(t, "push?", "push", "recv")
  \/ SendToEntry(t, "push", "push?")

RecvText(t) ==
  /\ th[t].at = "recv"
  /\ Hears(t, "text", "ask", "close")
  /\ serial' = (serial /\ (th'[t].at = "close" => ~OtherEdits(t)))

\* talkWithHelperServer sends.  The first send to a helper that has gone
\* resets the connection; after that SIGPIPE may end the server.
AskHelper(t) ==
  /\ th[t].at = "ask"
  /\ IF helper = "up"
     THEN asked' = Append(asked, th[t].text) /\ UNCHANGED <<helper, process>>
     ELSE /\ helper' = "reset"
          /\ process' \in IF helper = "reset" THEN {process, "killed"} ELSE {process}
          /\ UNCHANGED asked
  /\ Goto(t, "answer")
  /\ crossed' = (crossed \/ \E u \in Conn \ {t} : th[u].at = "answer")
  /\ UNCHANGED <<client, got, file, roster, answered, own, serial>>

\* Mutant: the answers heard stay in the socket.
AnswersUnread(n) == answered

AnswersBeyond(n) == SubSeq(answered, n + 1, Len(answered))

\* talkWithHelperServer receives whatever has come by now; when the helper
\* has gone, recv ends at once with nothing.
HearHelper(t) ==
  /\ th[t].at = "answer"
  /\ \E n \in 0 .. Len(answered) :
       /\ n = 0 => answered = <<>> /\ helper # "up"
       /\ answered' = AnswersBeyond(n)
       /\ Become(t, [Loop(th[t], "cast?") EXCEPT !.text = FlattenSeq(SubSeq(answered, 1, n))])
  /\ UNCHANGED <<client, got, file, roster, asked, helper, process, history>>

\* Mutant: == for !=.
SocketMatches(entry, f) == entry.socket = f

IsOther(entry, f) == entry.socket # f

SkipOwn(t) ==
  /\ th[t].at = "own?"
  /\ IF IsOther(clients[th[t].i], th[t].fd)
     THEN Goto(t, "cast")
     ELSE Become(t, [th[t] EXCEPT !.at = "cast?", !.i = @ + 1])
  /\ UNCHANGED <<client, got, file, roster, link, process, history>>

sendPublicMessage(t) ==
  \/ While(t, "cast?", "own?", "recv")
  \/ SkipOwn(t)
  \/ SendToEntry(t, "cast", "cast?")

\* The client has left: close its socket, then look for its entry.
Close(t) ==
  /\ th[t].at = "close"
  /\ CloseSocket(th[t].fd)
  /\ Become(t, [th[t] EXCEPT !.at = "find?", !.i = 0])
  /\ UNCHANGED <<client, got, roster, link, process, history>>

Find(t) ==
  /\ th[t].at = "find"
  /\ IF clients[th[t].i].socket = th[t].fd
     THEN Become(t, [th[t] EXCEPT !.at = "shift?", !.j = th[t].i])
     ELSE Become(t, [th[t] EXCEPT !.at = "find?", !.i = @ + 1])
  /\ UNCHANGED <<client, got, file, roster, link, process, history>>

\* Mutant: the last entry is not shifted.
ShiftEndsEarly(j) == j < currentClientCount - 2

ToShift(j) == j < currentClientCount - 1

ShiftOrNot(t) ==
  /\ th[t].at = "shift?"
  /\ Goto(t, IF ToShift(th[t].j) THEN "shift" ELSE "count-")
  /\ UNCHANGED <<client, got, file, roster, link, process, history>>

\* clients[j] = clients[j + 1]
Shift(t) ==
  LET r == th[t]
  IN  /\ r.at = "shift"
      /\ IF r.j + 1 \in Entry
         THEN /\ clients' = [clients EXCEPT ![r.j] = clients[r.j + 1]]
              /\ Disturb(t, [r EXCEPT !.at = "shift?", !.j = @ + 1], r.j)
              /\ UNCHANGED process
         ELSE process' = "overrun" /\ UNCHANGED <<clients, th>>
      /\ UNCHANGED <<client, got, file, currentClientCount, link, history>>

\* Mutant: ++ for --.
OneMore(n) == n + 1

OneFewer(n) == n - 1

StoreCountDown(t) ==
  /\ th[t].at = "count-'"
  /\ currentClientCount' = OneFewer(th[t].reg)
  /\ Become(t, [th[t] EXCEPT !.at = "find?", !.i = @ + 1])
  /\ UNCHANGED <<client, got, file, clients, link, process, history>>

RemoveClient(t) ==
  \/ Close(t) \/ While(t, "find?", "find", "exit") \/ Find(t)
  \/ ShiftOrNot(t) \/ Shift(t) \/ StoreCountDown(t)

clientThreadSplitFunction(t) ==
  /\ \/ Start(t) \/ RecvName(t) \/ Drop(t)
     \/ LoadSlot(t) \/ FillSlot(t) \/ LoadCount(t) \/ StoreCountUp(t)
     \/ outputConnectedClients(t) \/ newClientJoinedPush(t)
     \/ RecvText(t) \/ AskHelper(t) \/ HearHelper(t) \/ sendPublicMessage(t)
     \/ RemoveClient(t)
  /\ UNCHANGED <<peers, mains>>

Next ==
  /\ process = "up"
  /\ \/ \E c \in Conn : Connect(c) \/ Say(c) \/ Leave(c)
     \/ HelperAnswers \/ HelperDies \/ Accept \/ Admit
     \/ \E t \in Conn : clientThreadSplitFunction(t)

Spec == Init /\ [][Next]_vars

(* Every thread is scheduled, and the helper answers.  Clients need do     *)
(* nothing.                                                                *)
FairSpec ==
  /\ Spec
  /\ WF_vars(process = "up" /\ HelperAnswers)
  /\ WF_vars(process = "up" /\ (Accept \/ Admit))
  /\ \A t \in Conn : WF_vars(process = "up" /\ clientThreadSplitFunction(t))

-----------------------------------------------------------------------------
RosterType == [Entry -> [socket : Fd \cup {0}, name : Seq(Line)]]

Label == EditLabel \cup
         {"none", "start", "name", "drop", "list?", "list", "list!", "push?", "push", "recv", "ask",
          "answer", "cast?", "own?", "cast", "exit"}

TypeOK ==
  /\ client \in [Conn -> {"away", "here", "gone", "reset"}]
  /\ \A c \in Conn : said[c] \in 0 .. MaxLines[c] /\ got[c] \in 0 .. said[c]
  /\ backlog \in Seq(Conn)
  /\ file \in [Fd -> Conn \cup {None}]
  /\ client_socket \in Fd \cup {0} /\ main \in Conn \cup {None}
  /\ clients \in RosterType
  /\ currentClientCount \in -Cardinality(Conn) * MAXIMUM_CONNECTED_CLIENTS .. Cardinality(Conn)
  /\ asked \in Seq(Seq(Line)) /\ answered \in Seq(Seq(Line))
  /\ helper \in {"up", "gone", "reset"}
  /\ \A t \in Conn : /\ th[t].at \in Label
                      /\ th[t].fd \in Fd \cup {0}
                      /\ th[t].name \in Seq(Line) /\ th[t].text \in Seq(Line)
                      /\ th[t].i \in Nat /\ th[t].j \in Entry
                      /\ th[t].reg \in Int /\ th[t].kept \subseteq Entry
                      /\ th[t].reached \in Seq(IF th[t].at \in {"list?", "list", "list!"}
                                               THEN Seq(Line) ELSE Fd \cup {0})
  /\ process \in {"up", "killed", "overrun", "smashed"}
  /\ own \in BOOLEAN /\ serial \in BOOLEAN /\ crossed \in BOOLEAN

\* The threads whose client is entered in the roster.
Registered == {t \in Conn : th[t].at \in {"list?", "list", "list!", "push?", "push", "recv", "ask", "answer",
                                         "cast?", "own?", "cast"}}
Settled == own /\ serial /\ \A t \in Conn : ~Editing(t)

(* As long as registrations and removals follow one another, clients[]     *)
(* lists exactly the clients that have entered and not left, once each,    *)
(* with their own sockets and names.                                       *)
RosterIsExact ==
  Settled =>
    /\ currentClientCount = Cardinality(Registered)
    /\ \A t \in Registered :
         /\ file[th[t].fd] = t
         /\ \E i \in Entry : /\ i < currentClientCount
                            /\ clients[i] = [socket |-> th[t].fd, name |-> th[t].name]

\* The conns a finished loop of t has reached are those of S, once each.
Reached(t, S) ==
  /\ Len(th[t].reached) = Cardinality(S)
  /\ {file[th[t].reached[k]] : k \in DOMAIN th[t].reached} = S

(* A loop over the roster has dealt with every place that has kept its     *)
(* entry since it began, whatever the other threads do to the rest: only   *)
(* clients whose entry a removal moves meanwhile, or a newcomer overwrites,*)
(* can miss their turn.  If all places have kept theirs and the roster is  *)
(* exact, the list has every name, the newcomer is announced to everyone,  *)
(* and a line goes to everyone but its sender (whom line 55 leaves out:    *)
(* see SentToAll), once each.                                              *)
LoopsReachAll ==
  \A t \in Conn :
    LET r == th[t]
        Undisturbed == Settled /\ r.i = currentClientCount /\ 0 .. r.i - 1 \subseteq r.kept
    IN  r.i >= currentClientCount =>
          /\ r.at = "list?" =>
               /\ \A k \in r.kept : k < currentClientCount => r.reached[k + 1] = clients[k].name
               /\ Undisturbed => /\ Len(r.reached) = Cardinality(Registered)
                                 /\ ToSet(r.reached) = {th[u].name : u \in Registered}
          /\ r.at = "push?" =>
               /\ \A k \in r.kept : k < currentClientCount => r.reached[k + 1] = clients[k].socket
               /\ Undisturbed => Reached(t, Registered)
          /\ r.at = "cast?" =>
               /\ \A k \in r.kept : k < currentClientCount =>
                    clients[k].socket \in ToSet(r.reached) \cup {r.fd}
               /\ Undisturbed => Reached(t, Registered \ {t})

(* When no thread asks the helper while another waits, each passes on the  *)
(* answer to its own client's latest lines, or nothing once the helper has *)
(* gone.                                                                   *)
AnswersMatch ==
  ~crossed /\ own =>
    \A t \in Conn : th[t].at \in {"cast?", "own?", "cast"} =>
      LET x == th[t].text
      IN  /\ x = <<>> => helper # "up"
          /\ \A k \in 1 .. Len(x) : x[k] = <<t, got[t] - Len(x) + k>>

(* listOfClients overflows only if one of the names in it takes more than  *)
(* its share of the array: shorter ones fit, however registrations and     *)
(* removals interleave with the copying.                                   *)
ListFitsShortNames ==
  process = "smashed" =>
    \E t \in Conn : \E k \in DOMAIN th[t].reached :
      /\ th[t].at = "list?"
      /\ TextSize(th[t].reached[k]) + 1 > (BUFFER_SIZE - 1) \div MAXIMUM_CONNECTED_CLIENTS

(* The socket of a client that has left is closed in the end, whatever the *)
(* state of the roster its thread has to go through, unless the thread has *)
(* lost its socket or its answer, or the process has ended.                *)
SocketsAreReleased ==
  \A c \in Conn :
    client[c] = "gone" ~> \/ c \notin {file[f] : f \in Fd} \cup ToSet(backlog)
                         \/ ~own \/ crossed \/ process # "up"

-----------------------------------------------------------------------------
\* What the roster stands for: the clients listed in it, but for the one whose
\* entry is being removed, or is being shifted over by the next.
Orderly == own /\ serial /\ process = "up"

Names == {[who |-> c, name |-> [k \in 1 .. n |-> <<c, k>>]] :
            c \in Conn, n \in 1 .. Max({1} \cup {MaxLines[d] : d \in Conn})}

Places  == {i \in Entry : i < currentClientCount}
Gaps    == {i \in Places : \E t \in Conn :
              \/ th[t].at \in {"close", "find?", "find"} /\ clients[i].socket = th[t].fd
              \/ th[t].at \in {"shift?", "shift", "count-", "count-'"} /\ i = th[t].j}
Members ==
  [k \in 1 .. currentClientCount - Cardinality(Gaps) |->
     LET e == clients[IF \E i \in Gaps : i < k THEN k ELSE k - 1]
     IN  [who |-> file[e.socket], name |-> e.name]]

Room == INSTANCE ChatRoom WITH
          Person   <- Names,
          Capacity <- MAXIMUM_CONNECTED_CLIENTS,
          members  <- IF Orderly THEN Members ELSE <<>>,
          open     <- Orderly

(* As long as registrations and removals follow one another, every state   *)
(* of clients[] and currentClientCount, also in the middle of a removal,   *)
(* is one of a room that its clients enter at the end of the line and      *)
(* leave in one step: at count++, and when recv has told of their end.     *)
ImplementsRoom == Room!Spec

-----------------------------------------------------------------------------
(* What the comments say and the code does not do.                         *)

(* encDec.h:27: MAXIMUM_CONNECTED_CLIENTS is the "server max number of     *)
(* allowed clients": no client is entered behind the end of clients[].     *)
NeverTooMany == own /\ serial => process # "overrun"

(* 2_server.c:49: "Format the message with the sender's name": the lines a *)
(* thread sends out are lines of the client whose name it puts on them.    *)
Attributed ==
  own => \A t \in Conn : th[t].at = "cast" => \A k \in DOMAIN th[t].text :
                                               th[t].text[k][1] = th[t].name[1][1]

(* 2_server.c:128: when a client disconnects, its thread will "find client *)
(* id and remove it from array".                                           *)
LeaversAreRemoved ==
  own /\ (\A u \in Conn : ~Editing(u)) =>
    \A t \in Conn : th[t].at = "exit" /\ th[t].name # <<>> =>
      \A i \in Entry : i < currentClientCount => clients[i].name # th[t].name

(* 2_server.c:155: "send result to all clients", and line 43: to "all      *)
(* connected clients": everyone registered gets it, the sender too.  (Line *)
(* 54 would have it go to the "specific client" selectedClient only.)      *)
SentToAll ==
  Settled => \A t \in Conn :
    th[t].at = "cast?" /\ th[t].i >= currentClientCount /\ Entry \subseteq th[t].kept =>
      \A u \in Registered : th[u].fd \in ToSet(th[t].reached)
=============================================================================
