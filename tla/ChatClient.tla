------------------------------ MODULE ChatClient ------------------------------
(***************************************************************************)
(* The chat client (3_client.c): send the user's name, then wait with      *)
(* select for the user or the server.  A line of the user is sent, a       *)
(* message of the server is shown, and both are appended to the history    *)
(* file.  One array, outgoingDatastream, serves for both directions.       *)
(*                                                                         *)
(* fgets reads through stdio: when stdio's own buffer is empty it reads    *)
(* from descriptor 0, one line of a terminal, or any number of lines of a  *)
(* pipe or a file.  select only knows of the lines not yet read that way.  *)
(* What the user types is counted in lines, what the server sends in bytes.*)
(***************************************************************************)
EXTENDS Integers, Sequences

CONSTANTS
  MaxTyped, MaxPosted,   \* bounds on the user's lines, on the server's bytes
  MaxSent,               \* bound on the client's calls of send
  MaxRead,               \* the most lines that one read of stdin returns: 1 for a
                         \* terminal, unless a line is longer than the array,
                         \* which makes it several
  BUFFER_SIZE,           \* encDec.h: 100
  MessageSize            \* the longest message of the server: 99

ASSUME BoundsAssumption  == MaxTyped \in Nat /\ MaxPosted \in Nat /\ MaxSent \in Nat
ASSUME ReadAssumption    == MaxRead \in Nat \ {0}
ASSUME MessageAssumption == BUFFER_SIZE \in Nat /\ MessageSize \in Nat /\ MessageSize < BUFFER_SIZE

User   == {"user"} \X (1 .. MaxTyped)
Server == {"server"} \X (1 .. MaxPosted)
Unset  == <<"unset", 0>>       \* what an array holds before it is written

VARIABLES
  typed, ended,         \* lines the user has typed; the end of stdin
  drawn, taken,         \* lines stdio has read; lines fgets has returned
  posted, heard,        \* bytes the server has sent, and the client received
  ends,                 \* where the server's messages ended
  server,               \* "up", "gone", or "reset" the connection
  pc,
  outgoingDatastream,   \* the text that starts in the shared array: lines, or the
                        \* server's bytes
  sent,                 \* history: what each call of send was given
  outputFile,           \* the history file
  overread              \* history: the array was printed without a terminator

world  == <<typed, ended, posted, ends>>
stdio  == <<drawn, taken>>
log    == <<outputFile, overread>>
vars   == <<world, stdio, heard, server, pc, outgoingDatastream, sent, log>>

Init ==
  /\ typed = 0 /\ ended = FALSE /\ drawn = 0 /\ taken = 0
  /\ posted = 0 /\ ends = {} /\ heard = 0 /\ server = "up"
  /\ pc = "name"
  /\ outgoingDatastream = <<Unset>>
  /\ sent = <<>> /\ outputFile = <<>> /\ overread = FALSE

-----------------------------------------------------------------------------
(* The user and the server.                                                *)
Type ==
  /\ ~ended /\ typed < MaxTyped
  /\ typed' = typed + 1
  /\ UNCHANGED <<ended, posted, ends, stdio, heard, server, pc, outgoingDatastream, sent, log>>

EndInput ==
  /\ ~ended
  /\ ended' = TRUE
  /\ UNCHANGED <<typed, posted, ends, stdio, heard, server, pc, outgoingDatastream, sent, log>>

Post ==
  /\ server = "up"
  /\ \E n \in 1 .. MessageSize : posted' = posted + n /\ posted' <= MaxPosted
  /\ ends' = ends \cup {posted'}
  /\ UNCHANGED <<typed, ended, stdio, heard, server, pc, outgoingDatastream, sent, log>>

ServerGoes ==
  /\ server = "up"
  /\ server' = "gone"
  /\ UNCHANGED <<world, stdio, heard, pc, outgoingDatastream, sent, log>>

-----------------------------------------------------------------------------
(* fgets(array, BUFFER_SIZE, stdin), where before is what the array holds: *)
(* a line that stdio has, or has to read first; at the end of input the    *)
(* array is left alone.                                                    *)
fgets(before, after) ==
  \/ /\ taken < drawn
     /\ after = <<<<"user", taken + 1>>>>
     /\ taken' = taken + 1 /\ UNCHANGED drawn
  \/ /\ taken = drawn
     /\ \E n \in 1 .. MaxRead : drawn' = drawn + n /\ drawn' <= typed
     /\ after = <<<<"user", taken + 1>>>>
     /\ taken' = taken + 1
  \/ /\ taken = typed /\ ended
     /\ after = before
     /\ UNCHANGED stdio

\* send; a server that has gone resets the connection, and a send after that
\* may end the client with SIGPIPE.
Sends(text, next) ==
  /\ Len(sent) < MaxSent
  /\ sent' = Append(sent, text)
  /\ CASE server = "up"    -> pc' = next /\ UNCHANGED server
       [] server = "gone"  -> pc' = next /\ server' = "reset"
       [] server = "reset" -> pc' \in {next, "killed"} /\ UNCHANGED server

\* The user's name, in an array of its own; then fopen.  If the history file
\* cannot be opened the client exits.
EnterName ==
  /\ pc = "name"
  /\ \E name \in {<<l>> : l \in User \cup {Unset}}, next \in {"select", "exit"} :
       fgets(<<Unset>>, name) /\ Sends(name, next)
  /\ UNCHANGED <<world, heard, outgoingDatastream, log>>

\* Mutant: FD_SET(0, &read_fds) is forgotten.
StdinUnwatched == FALSE

\* FD_ISSET(0, &read_fds): there is something to read, or the end of input.
StdinReady == ended \/ drawn < typed

\* Mutant: select(client_socket, ...), one descriptor too few.
SocketUnwatched == FALSE

SocketReady == heard < posted \/ server # "up"

select ==
  /\ pc = "select"
  /\ StdinReady \/ SocketReady
  /\ pc' = IF StdinReady THEN "stdin" ELSE "socket"
  /\ UNCHANGED <<world, stdio, heard, server, outgoingDatastream, sent, log>>

\* Mutant: the array is sent before it is read into.
TextBefore(before, after) == before

\* What is sent, and written to the file.
TextToSend(before, after) == after

FromUser ==
  /\ pc = "stdin"
  /\ \E text \in {<<l>> : l \in User} \cup {outgoingDatastream} :
       /\ fgets(outgoingDatastream, text)
       /\ outgoingDatastream' = text
       /\ Sends(TextToSend(outgoingDatastream, text), "select")
       /\ outputFile' = outputFile \o TextToSend(outgoingDatastream, text)
  /\ UNCHANGED <<world, heard, overread>>

\* Mutant: the terminator is counted too.
HeardAndOne(n) == heard + n + 1

Heard(n) == heard + n

\* Mutant: the array is not cleared.
NotCleared(n) == SubSeq(outgoingDatastream, n + 1, Len(outgoingDatastream))

\* What memset leaves of the array behind n bytes received.
Cleared(n) == <<>>

\* Mutant: the last byte of the array is not cleared.
RoomForTwo(n) == n < BUFFER_SIZE - 1

\* A byte is left for the terminator.
Terminated(n) == n < BUFFER_SIZE

Received(n) == [k \in 1 .. n |-> <<"server", heard + k>>]

\* One recv takes part of a message, one, or several that have come together.
\* Without a terminator the text goes on with what is behind the array: in
\* this build padding, which may hold anything, zeros included.
FromServer ==
  /\ pc = "socket"
  /\ \E n \in 1 .. BUFFER_SIZE :
       /\ n <= posted - heard
       /\ heard' = Heard(n)
       /\ \E behind \in {<<>>} \cup (IF Terminated(n) THEN {} ELSE {<<Unset>>}) :
            outgoingDatastream' = Received(n) \o Cleared(n) \o behind
       /\ overread' = (overread \/ ~Terminated(n))
  /\ outputFile' = outputFile \o outgoingDatastream'
  /\ pc' = "select"
  /\ UNCHANGED <<world, stdio, server, sent>>

\* recv answers 0 or -1: the array has been cleared; close and return.
Disconnected ==
  /\ pc = "socket" /\ heard = posted
  /\ pc' = "closed"
  /\ outgoingDatastream' = <<>>
  /\ UNCHANGED <<world, stdio, heard, server, sent, log>>

Step == EnterName \/ select \/ FromUser \/ FromServer \/ Disconnected

Next == Type \/ EndInput \/ Post \/ ServerGoes \/ Step

Spec == Init /\ [][Next]_vars

(* The client is scheduled.  The user and the server need do nothing.      *)
FairSpec == Spec /\ WF_vars(Step)

-----------------------------------------------------------------------------
Text == Seq(User \cup Server \cup {Unset})

TypeOK ==
  /\ typed \in 0 .. MaxTyped /\ drawn \in 0 .. typed /\ taken \in 0 .. drawn
  /\ posted \in 0 .. MaxPosted /\ heard \in 0 .. posted /\ ends \subseteq 1 .. posted
  /\ ended \in BOOLEAN
  /\ server \in {"up", "gone", "reset"}
  /\ pc \in {"name", "select", "stdin", "socket", "closed", "exit", "killed"}
  /\ outgoingDatastream \in Text
  /\ sent \in Seq(Text) /\ Len(sent) <= MaxSent
  /\ outputFile \in Text /\ overread \in BOOLEAN

\* Where the history file has something of the user, of the server, or of
\* neither; and that this is the lines or bytes in S, once each and in order.
Places(who) == {i \in DOMAIN outputFile : outputFile[i][1] = who}
Recorded(who, S) ==
  /\ {outputFile[i][2] : i \in Places(who)} = S
  /\ \A i, j \in Places(who) : i < j => outputFile[i][2] < outputFile[j][2]

(* Until the end of input, the server gets the user's lines in the order   *)
(* they were typed, each once, and nothing else: the array they share with *)
(* the server's messages never sends one of those back.                    *)
SendsTheUsersLines ==
  ~ended => sent = [k \in 1 .. taken |-> <<<<"user", k>>>>]

(* Until the end of input, the history file is the conversation: every     *)
(* line sent after the name and every byte received, once each and in      *)
(* order, and nothing else, unless the array was full without a terminator.*)
HistoryIsConversation ==
  ~ended =>
    /\ Recorded("server", 1 .. heard)
    /\ Recorded("user", 2 .. taken)
    /\ Places("unset") # {} => overread

(* printf and the history file read on behind the array only if several    *)
(* messages of the server are received together.                           *)
ReadsOnOnlyWhenJoined ==
  [][overread' # overread => \E k \in ends : heard < k /\ k < heard']_vars

(* On a terminal every line typed is sent in the end, unless the input or  *)
(* the connection ends.                                                    *)
TypedLinesAreSent ==
  \A k \in 1 .. MaxTyped :
    typed >= k ~> (taken >= k \/ ended \/ pc \in {"closed", "exit", "killed"})

(* Once the user pauses for good, what the server has sent is received in  *)
(* the end, and so is the end of the connection.  The pause is needed:     *)
(* lines 119 and 128 read from the server only when no input is ready, and *)
(* a user who types before every select, or whose input has ended, starves *)
(* the socket for ever.                                                    *)
ServerIsHeard ==
  <>[][~Type]_vars =>
    /\ \A k \in 1 .. MaxPosted :
         (posted >= k /\ pc # "name") ~> (heard >= k \/ ended \/ pc \in {"exit", "killed"})
    /\ (server # "up" /\ pc # "name") ~> (pc \in {"closed", "exit", "killed"} \/ ended)
=============================================================================
