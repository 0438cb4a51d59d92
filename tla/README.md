# Verification of the vowel-uppercasing chat system

This directory specifies the program in `src/Playing Around/` in TLA+: a chat
server (`2_server.c`), its clients (`3_client.c`), and a helper node
(`1_helper.c`) that replaces lowercase vowels by uppercase ones with a round of
threads for every few characters. TLC checks the specifications on small instances; TLAPS
proves theorems about them for all values of the constants.

The program has no locks, no message framing and few error checks. So the project
has two kinds of results: what holds in spite of that, and six statements of a comment
or the README of the repository that the code does not keep (the *findings*).

## 1. Inventory

### Components

| Component | State | Operations | Modelled by |
|---|---|---|---|
| Circular queue (`1_helper.c:17-70`, `encDec.h:38-42`) | `values`, `head`, `tail`, `countOfEntries`, `size` | `setupTheQueue`, `addToTheQueue`, `removeFromTheQueue` | `CircularQueue`, `SequentialQueue` |
| Decoder threads (`1_helper.c:72-152`, `257-288`) | the shared queue; per thread a `tempQueue` and a character | create, drain, switch, put back, join | `VowelSwitch`, `DecodeRound` |
| Helper's main loop (`1_helper.c:204-324`) | the request, the input queues, `uppercasedBuffer`, the connection to the server | receive and enqueue, one round per queue, dequeue and answer, end | `HelperNode`, `ChatPipeline` |
| Chat server (`2_server.c`) | `clients[]`, `currentClientCount`, `client_socket`, the open descriptors, the helper's socket, a thread per client | accept, admit or refuse, register, list, announce, receive a line, ask the helper, broadcast, remove | `ChatServer`, `ChatRoom`, `ChatPipeline` |
| Chat client (`3_client.c`) | `outgoingDatastream`, stdio's buffer, the history file, the socket | send the name, open the history file, select, send a line, receive, disconnect | `ChatClient` |
| Banners (`encDec.c`), Makefile, scripts, recorded logs, `OLD/`, `src/Drafts/`, `src/Documentation/` | none | printing; earlier versions; documents | not modelled (section 7) |

### Interactions

- A client connects to the server, sends its name in one `send`, then lines; it
  receives the roster, announcements of newcomers and other clients' lines. The
  connection keeps no message bounds.
- Each connection has a server thread. A thread passes a line to the helper through
  **one socket shared by all threads** and waits there for the answer, which it
  broadcasts by a loop over the shared roster.
- The helper serves one connection, the server's. `main` spreads the bytes of a request
  over queues of five, runs six threads on each queue in turn, joins them, collects
  the characters in a global buffer and sends as many bytes as it received.
- The threads of a round share the queue by pointer; everything else of theirs is private.

### What is hard here, and the property that makes each part correct

| Part | Hard behaviour | Correct means |
|---|---|---|
| queue | indexes wrap; empty and full are told apart by a count | it is a bounded FIFO |
| round | unlocked loads and stores by six threads; test then act; count below zero; joins | nothing is made up, own vowel gone; exact when threads do not overlap; ends |
| helper | requests cut and joined by TCP; a buffer kept between requests; its last index | the answer belongs to the request, once per request, byte for byte |
| server and helper | one socket for all threads; answers joined, cut or taken by another thread; the helper's death; arrays that are cleared at one place only | bytes asked and not heard are under way; a thread broadcasts its own client's line, and nothing left over |
| server | registration, removal and broadcast loops interleave; descriptors reused; shared `client_socket`; names that do not fit; SIGPIPE | the roster is that of a room entered and left in one step, a broadcast reaches every entry that stays in its place, answers go with their lines, sockets are released |
| client | stdin goes first; stdio hides lines from `select`; one array for both directions, which a recv may fill | sends the user's lines only, once and in order; hears the server; the history file is the conversation |

`PROJECT.json` lists the hazards line by line with the properties that watch them.

## 2. Modules and how they correspond to the code

```
BoundedFifo <-refines- SequentialQueue -> CircularQueue <- VowelSwitch
                                                              ^   ^
                     UppercaseRound <-refines- DecodeRound ---+   +--- HelperNode <-refines- ChatPipeline
                                                    ^                  (uses the round       (the server's threads
                                           DecodeRoundSerial            as UppercaseRound)    and the helper, in bytes)

ChatRoom <-refines- ChatServer (the helper: one action)

ChatClient (the server: its messages)
```

- **CircularQueue** gives the three queue functions as operators on a record. `size` never
  changes after `setupTheQueue`, so it is the constant `QueueSize`.
- **SequentialQueue** is one queue under any order of calls by one thread. That is how
  `main` uses the input queues and `serverDecoder` its `tempQueue`. **BoundedFifo** is the
  promise.
- **VowelSwitch** is the `switch` of `serverDecoder` (lines 95-138), what all threads make
  of a character, and what a round may leave in a queue (`RoundOutcomes`).
- **DecodeRound** is one round. The program is compiled without optimisation
  (`Makefile`: `CFLAGS = -Wall`), and in the object code every read of a queue field is a load and
  every assignment a store; so `q->head = (q->head + 1) % q->size` is `LoadHead` and
  `StoreHead`, and `countOfEntries--` is `LoadCountDown` and `StoreCountDown`. Thread-private
  work goes with the access before it. `pc` names the access that comes next, `reg` is the
  value loaded, `ch` the character in hand. The data race is undefined in C; the model
  gives the outcomes of this build on a machine that runs one access at a time. Store buffers
  (x86-TSO) are not modelled.
- **UppercaseRound** is what `main` may rely on: a round may end; if no thread started while
  another was at work, the queue holds the characters in order with their vowels
  uppercased; otherwise only the set of possible characters is known.
- **HelperNode** is `main`'s loop. A round is `UppercaseRound`'s, which DecodeRound
  implements (proved). `Receive` is `recv` with the enqueueing loops (n bytes become
  `numberOfQueues(n)` queues; the last byte is replaced, line 240); `serverEncoder` is the dequeueing loops,
  the newline and terminator, the send and the frees. `recv` may return any
  number of the bytes under way. The server may send any message at any time. `Killed` is the end of the process.
  `raced`, `pastEnd` and `answered` are observers.
  The terminator at line 308 goes to index `counter`, which is `BUFFER_SIZE` when all queues of a full
  buffer are used; `pastEnd` records it, the byte behind the array being nobody's in the model.
- **ChatPipeline** puts the server's threads in place of "any message at any time": it extends HelperNode with
  the way of a client's bytes from `fgets` in the client through `recv`, `talkWithHelperServer`, the helper and back to
  the text of the broadcast. What a user types is a fixed stream of bytes, and `said` tells where each `send` of
  the client ended. A `recv` on a client's socket takes all that has come, or an array full (a
  send of less than 100 bytes arrives whole); one on the helper's socket, at either end, any number of bytes. `outputBufferBoi` keeps what
  recv does not overwrite: `Junk` before anything was stored (line 152), zeros after the `memset` of line 159. `Shows` is how
  far `snprintf` copies it. `Recv` counts a terminator at index `BUFFER_SIZE` (lines 105, 147) in `spilled`: in the
  object code of this build that byte is padding, so nothing else changes. `HelperDies` loses what the helper had not read or not sent; after that a
  first send passes, a later one may raise SIGPIPE, and `recv` answers nothing, which the code does not look at (`HearNothing`).
  The roster is left out. `crossed`, `parted` and `mixed` record whether two threads have waited for the helper at once,
  whether a `recv` on the helper's connection has cut something, and whether decoder threads have overlapped.
- **ChatServer** is the server from `accept` on. A thread is named after the connection it was created
  for. An action is one access to the roster, to `client_socket`, to a descriptor or
  to the helper's socket: `clients[currentClientCount] = newBoi` is `LoadSlot` and
  `FillSlot`, `currentClientCount++` is `LoadCount` and `StoreCountUp`, and each turn of a loop
  reads the count (`While`), then the entry. Line 55 and line 57 read `clients[i].socket`
  once each. Copying a `clients[]` element is one step. `accept` takes the lowest free descriptor.
  A line is a pair of its client and its number; a text is a sequence of lines,
  as one `recv` may return several. `send` to a client that has gone resets
  the connection; a later one may raise SIGPIPE (`process = "killed"`). The helper is one action, and may die.
  `CopyName` adds up the lengths of the names in `listOfClients`; one that does not fit stops the model (`process = "smashed"`),
  and so does an access behind the end of `clients[]` (`"overrun"`).
  `reached` and `kept` are history: what a loop over the roster has copied or sent to, and the places of `clients[]` that nobody
  has stored to since it began (`Disturb`).
  `own`, `serial` and `crossed` record whether a thread has read another's `client_socket`,
  whether two threads have edited the roster at once, and whether two have waited for the helper at once.
- **ChatRoom** is what the roster promises: a room of limited capacity, which persons enter at the end of the
  line and leave in one step. `ChatServer` maps to it by `Members`: the entries of `clients[]` at its `Places`, which are those below the count, but for `Gaps`: the place
  of the one that is being removed, and, while a removal copies entries down, the place that the next copy overwrites. A registration becomes
  visible at `count++`, a removal when `recv` has told of the client's end. Once edits have overlapped or the
  process has ended, the room is wrecked and nothing is promised (`Orderly`).
- **ChatClient** is the client's `main`. `fgets` is modelled with stdio's buffer: `drawn`
  lines have been read from descriptor 0 and `taken` returned; `select` sees only what is not
  drawn. What is ready is fixed by `select` and used after it. The user's input is counted in lines, the server's messages in bytes, because
  one `recv` may take part of a message, one, or several. `outgoingDatastream` is the text that starts in the shared
  array: if a `recv` fills it, there is no terminator, and the text goes on behind the array (`Unset`) or happens to end there.
  If the history file cannot be opened, the client exits when it has sent its name.

`MC*` modules supply constants; `*Proofs` modules hold the theorems. An operator marked *Mutant* is
the change of the operator after it that a plausible slip would make; no specification uses it, and
it shows that a property can fail.

## 3. Runs

| Run | Configuration | Shows |
|---|---|---|
| `queue_fifo` | 3 slots | the circular array is a bounded FIFO through every position of head and tail |
| `decode_round` | 2 threads, 2 slots, ints -4..3 | safety of a racing round, the serial invariant, refinement of `UppercaseRound`, the last thread exits |
| `decode_no_vowel_left` | the same | **finding**: a vowel survives (`README.md:24-25`) |
| `decode_terminates` | the same | **finding**: two threads keep each other from ever seeing an empty queue (`README.md:14`) |
| `helper_node` (`MCChatPipeline`) | 2 clients who type 4 bytes each, 2 slots, buffer of 4, 2 decoder threads | the helper alone (replies, its invariant, when the terminator leaves the buffer) and under the server's threads: bytes are accounted for, broadcasts are the clients' own lines with nothing left over, terminators leave the arrays only when sends are joined, every request is answered; the helper or the server may die at any time |
| `chat_server` | room for 2, names of 1 or 2 in a list of 5; 2 connections with 2 sends each and a helper that may die, and 3 connections that send their names and of which 2 leave | answers, loops over the roster and the list of names in every interleaving of two; the roster is exact and that of `ChatRoom`, as long as edits follow one another; refusals happen here |
| `chat_release` | 2 connections, 2 and 1 sends | types; sockets of clients that left are closed |
| `chat_too_many` | 3 connections, room for 2, names only | **finding**: `clients[]` overrun (`encDec.h:27`) |
| `chat_attributed` | 2 connections, room for 2, 2 sends each | **finding**: a line goes out under another's name (`2_server.c:49`) |
| `chat_leavers` | as `chat_attributed` | **finding**: a client that left is listed again (`2_server.c:128`) |
| `chat_sent_to_all` | as `chat_attributed` | **finding**: the sender is left out (`2_server.c:155`, `:43`; `:54` has the test the other way round) |
| `client_terminal` | 3 lines, 4 bytes of the server in messages of 1 or 2, an array of 3, reads of 1 line | the client until the end of its input |

The repository's `README.md` is meant where no directory is given.

### Bounds, and why they are enough

- *Round.* Two threads and two slots make every pair of accesses meet, indexes wrap, a queue look full or
  empty to one and not to the other, and the count go to both signs. `MaxInt = 3` makes the int wrap within reach; it
  stands for 2^31 - 1. More threads repeat the same pairs; the theorems hold for any number.
- *Helper and pipeline.* `BUFFER_SIZE = 4` is two queues, so a request fills its queues or does not, and reaches the buffer's end or does not. One
  client has a name of one byte, then a line and an empty line; the other a name as long as the array allows and an unfinished line.
  Their sends can be joined to the length of the array, requests of both joined and answers cut. `Markup = 0` (5 in the code)
  lets `snprintf` cut one client's text and not the other's. Two sends behind the name make a second request find the first's remains.
- *Server.* Two connections let two threads interleave everywhere, with a name and one more send each.
  `BUFFER_SIZE = 5` lets two names of one line fit the list and names of two lines not; the other runs have room for
  all. Three connections exceed a capacity of two. `chat_server` has both (`PairOrThree` in `MCChatServer`). As long as the third connection is away
  the other two do whatever they can (`Pair`); only the helper's death is confined to behaviours in which no thread disturbs another (`own`, `serial`,
  `~crossed`), where `AnswersMatch` claims something. Then it comes, and behaviours are pruned to states where edits of the roster follow one another (`Ordered`),
  which is where `RosterIsExact` and `ImplementsRoom` claim anything, and to one looping thread at a time, beside one that edits; each client
  sends its name and two may leave (`Three`). As clients are alike the one that comes last may be called `c3`.
  `Unexcused` prunes `chat_release` where `SocketsAreReleased` is already fulfilled by its own exceptions, which
  never cease to hold, so that no counterexample is lost.
- *Client.* `MaxTyped`, `MaxPosted` and `MaxSent` end the behaviours; `MaxSent` exceeds `MaxTyped`, so it
  stops only the endless resending after the end of input. Two messages of two bytes overfill the array of three.
  `MaxRead = 1` is a terminal, which
  `start_client.sh` gives the client, with lines of less than 100 characters. With `MaxRead = 3`, a pipe, or a long line that fgets returns in parts, TLC refutes `TypedLinesAreSent`: the lines that stdio
  has drawn are unknown to `select`. The theorems on safety hold of both.
  With `MaxTyped` the user falls silent at last, which is the premise of `ServerIsHeard`, so the run says nothing of a user who goes on typing
  before every `select`: such a user does starve the socket (see *Fairness*).

Clients are alike, so the safety runs of the server use their permutations as symmetry; the liveness run does not.
Deadlock is not checked: users may stop typing, all threads exit, or the process ends.

### Fairness

- *Round:* weak fairness of each thread and of `main`'s creation of threads: pthreads are preemptive.
- *Pipeline:* weak fairness of each of the server's threads and of the helper's `main`; a round is only taken to end while its threads do not overlap
  (all threads start, so without overlap the others have exited before the last one starts, and `LastThreadExits` says that it
  exits too; `decode_terminates` shows why no more can be assumed). Users need not type, and nobody need die.
- *Server:* weak fairness of `main`, of each thread, and of the helper's answer. The last is
  an assumption about `1_helper.c`, which the same finding qualifies. No fairness for clients or the helper's death.
- *Client:* weak fairness of its own steps, none for the user or the server. `select` prefers descriptor 0, so a user who types before
  every `select` keeps the client from the server for ever: `ServerIsHeard` has the premise that the user
  falls silent at last (`<>[][~Type]_vars`), with the input open. That is a premise about the user, not about scheduling, and the property is false without it.

## 4. Properties

- *Queue:* `ImplementsFifo`.
- *Round:* `NothingInvented` (a race loses, repeats and reorders characters but only ever
  stores those of the message, uppercased or not, or `'\0'`), `OwnVowelGone`, `SerialRoundIsCorrect`,
  `ImplementsRound`, `LastThreadExits` (a negative count is counted down until the int wraps round, and
  from there to 0).
- *Helper:* `NothingStale`, `SerialReplyIsCorrect`
  (which also says what becomes of the last byte: a newline if the request fills its queues, a space if
  not), `OverrunsOnlyWhenFull`.
- *Pipeline:* `ImplementsHelper` (the threads use the helper as its specification expects), `EveryByteComesBack` (bytes asked and not heard are under way,
  neither more nor fewer, however requests are cut and joined), `NothingLeftOver` (no part of an earlier answer is sent out again, also
  when the helper has gone), `BroadcastIsOwnLine` (end to end), `SpillsOnlyWhenJoined`, `RequestsAreAnswered`.
- *Server:* `RosterIsExact`, `ImplementsRoom`, `LoopsReachAll`, `AnswersMatch`, `ListFitsShortNames` (the list overflows only
  if a name takes more than its share of the array, which is 16 characters for six clients), `SocketsAreReleased`.
- *Client:* `SendsTheUsersLines`, `HistoryIsConversation`, `ReadsOnOnlyWhenJoined`, `TypedLinesAreSent`,
  `ServerIsHeard` (if the user pauses).

`LoopsReachAll` has two parts. Whatever other threads do, a loop at its end has dealt with every place whose entry has stayed what it was: its
name is in the list, its socket has been sent to, unless, in a broadcast, it is the sender's own. And if all have stayed and the roster is exact, these are the
registered clients, each once. The comments promise something else: to "all clients" (lines 43 and 155), and to one "specific client" only (line 54). The finding
`SentToAll` reports it. Nor does `LoopsReachAll` promise that everyone is reached while entries move: an entry that a removal shifts to a place the loop has passed is skipped, although its client
has been there all the time.

The server's properties say under which conditions the code works: registrations and removals one
after the other (`serial`), each thread with its own socket (`own`), one thread at a time with the
helper (`~crossed`). Two findings show what is excused: `chat_leavers` for `serial` and `chat_attributed` for
`~crossed`. Also excused by `~crossed` is that a thread whose answer another has taken waits for ever and never closes its client's socket, and by `own`
that two threads that read `client_socket` (`2_server.c:250`) after the second `accept` serve the same connection and the first has no thread. In the same way
`decode_no_vowel_left` shows what `SerialRoundIsCorrect` excuses, among other things (overlapping threads also lose characters, when two
store to the slot of one `tail`, and put them back in another order), and `decode_terminates` what
`RequestsAreAnswered` does: its two threads count the int down through its whole range, jumping over 0 at every turn.
`BroadcastIsOwnLine` also needs `~parted` (no framing: a cut request loses its last byte) and `~mixed`. Even then the last character of a line is
replaced, and of the first broadcast of a thread nothing is said about what follows the line: `outputBufferBoi` is not initialised
(`2_server.c:152`), so `NothingLeftOver` speaks of the second broadcast and later ones.
The client's properties of safety end with its input: after that `fgets` leaves the shared array as it was, and the
client sends what is in it, be it the server's message, again and again.

## 5. Proofs

All theorems hold for every value of the constants that satisfies the named assumptions of the modules:
`QueueSize`, `MAX_THREADS` and `BUFFER_SIZE` are positive, `BUFFER_SIZE` is a multiple of `QueueSize` (100 and 5 in the code), an int can
count a queue's entries, `'\0'` and the space are bytes and not vowels; users type no `'\0'`, and names and messages are shorter than the array; there
are finitely many connections. TLC evaluates the assumptions in the runs.

| Module | Theorem | Statement |
|---|---|---|
| `SequentialQueueProofs` | `QueueStaysWellFormed` | `Spec => []TypeOK` |
| | `QueueImplementsFifo` | `Spec => ImplementsFifo` |
| `DecodeRoundProofs` | `RoundTypeOK` | `Spec => []TypeOK` |
| | `RoundInventsNothing` | `Spec => []NothingInvented` |
| | `RoundOwnVowelGone` | `Spec => []OwnVowelGone` |
| | `RoundSerialInv` | `Spec => []SerialInv` |
| | `SerialRoundCorrect` | `Spec => []SerialRoundIsCorrect` |
| | `RoundImplementsService` | `Spec => ImplementsRound` |
| `HelperNodeProofs` | `HelperInv` | `Spec => [](TypeOK /\ WorkInv)` |
| | `HelperTypeOK` | `Spec => []TypeOK` |
| | `HelperSerialReply` | `Spec => []SerialReplyIsCorrect` |
| | `HelperNothingStale` | `Spec => []NothingStale` |
| | `HelperOverruns` | `Spec => OverrunsOnlyWhenFull` |
| `ChatPipelineProofs` | `PipelineImplementsHelper` | `PipelineSpec => ImplementsHelper` |
| | `PipelineBytes` | `PipelineSpec => [](PipelineTypeOK /\ EveryByteComesBack)` |
| | `PipelineTypes` | `PipelineSpec => []PipelineTypeOK` |
| | `PipelineNothingLeftOver` | `PipelineSpec => []NothingLeftOver` |
| | `PipelineSpills` | `PipelineSpec => SpillsOnlyWhenJoined` |
| | `PipelineBroadcasts` | `PipelineSpec => []BroadcastIsOwnLine` |
| `ChatServerProofs` | `ServerAnswersMatch` | `Spec => []AnswersMatch` |
| `ChatRosterProofs` | `ServerTypeOK` | `Spec => []TypeOK` |
| | `ServerListFits` | `Spec => []ListFitsShortNames` |
| | `ServerRoster` | `Spec => []RosterIsExact` |
| | `ServerLoops` | `Spec => []LoopsReachAll` |
| | `ServerImplementsRoom` | `Spec => ImplementsRoom` |
| `ChatClientProofs` | `ClientTypeOK` | `Spec => []TypeOK` |
| | `ClientSendsLines` | `Spec => []SendsTheUsersLines` |
| | `ClientHistory` | `Spec => []HistoryIsConversation` |
| | `ClientReadsOn` | `Spec => ReadsOnOnlyWhenJoined` |

- *Queue.* `TypeOK` includes what makes the queue well formed, `tail = (head + countOfEntries) % QueueSize`. `Contents`
  reads the array from `head` on; adding appends to it and removing takes its head, because slots less than a turn apart
  are different (`DistinctOffsets` in `CircularQueueProofs`, which also serves the round).
- *Racing round.* `TypeOK` is inductive as it stands: every stored index went through `% QueueSize` and every count
  through `Wrap`. `NothingInvented` bounds every character wherever it is (array, `tempQueue`, in hand) and is
  inductive with it; `OwnVowelGone` speaks of the `tempQueue` after the `switch`.
- *Round without overlap.* What `main` collects says nothing about a thread half-way, so `SerialRoundIsCorrect` is
  not inductive. `SerialInv` says that at most one thread has begun and not finished and describes the state by its
  `pc`: the queue at rest holds the message as the finished threads made it (`Resting`); a draining thread
  has the first entries, uppercased by it, in its `tempQueue` and the rest are still in their slots (`Draining`); a thread putting back has moved
  some of them behind the others (`PuttingBack`). `OneThreadMore` shows that the effect of
  one more thread on a character commutes with the finished ones'.
- *Refinement of the round.* A step maps to the end of the abstract round, to its `overlapped` flag going up, or to
  a stutter; `NothingInvented` gives the racing outcome and `SerialRoundIsCorrect` the other.
- *Helper.* `WorkInv` says, of each queue between `recv` and `send`, that its characters are `Permitted` by what it was
  filled with, are just that if its round is to come, and are that uppercased if its round is over and no threads
  overlapped. `QueuesHoldRequest` bounds what the queues hold by the request's length, and `GatheredWhereEnqueued` shows
  that character k is stored from the slot where character k of the request was put; both rest on `\div` and `%`
  lemmas. The reply properties are about the last step, so they follow from `WorkInv` before it.
- *Pipeline.* The helper must be sent messages, which is the threads' business, and the threads must hear bytes, which is
  the helper's: `PipelineInv` joins the helper's invariant with the types of both, and every step of the composition is a step of `HelperNode` or none of its
  business (`HelperStep`), so the helper's theorems hold here. `EveryByteComesBack` adds that a reply is as long as its request.
  `NothingLeftOver` follows from what is behind the bytes heard in a cleared array (`ClearedInv`). `SpillsOnlyWhenJoined` needs that among any
  `BUFFER_SIZE` bytes that a client has sent a send ends before the last one (`DenseInv`).
- *End to end.* `BroadcastIsOwnLine` rests on `TurnInv`: while nothing is crossed, cut or mixed, at most one thread waits, and
  its line is in exactly one place: on the way to the helper, in its queues, or as the answer on the way back. `ReplyIsAnswer` and `AnswerHasNoNul` take
  the helper's `WorkInv` from there to the text that `snprintf` copies.
- *Answers.* `AskInv` is the same argument in `ChatServer`, with everything that the roster and the descriptors may do around it. That a
  connection is behind one descriptor only needs that `accept` finds a free one: there are as many as connections
  (`FreeDescriptor`, by counting), and that a connection in the backlog is behind none (`Descriptors`). Most steps touch neither
  sockets nor requests and go through one lemma (`LocalKeeps`); no assumption is made on how edits of the roster interleave.
- *Types of the server.* What a thread holds depends on its label, e.g. an index is within the array at the labels that use it (`ThreadOK`).
  The bound on the count cannot be inductive by itself: `currentClientCount++` is a load and a store, so a thread may store
  an old value and a later one may add to it again. `Counts` says of the count *and* of every loaded value
  that it is at most the number of threads that have come to their addition (`Past`) and at least minus the number of places that
  removals have gone by (`Taken`). Both sets only grow, and each addition or subtraction has an element of its own, so
  racing threads can lose and revive values, but cannot leave these bounds.
- *List of names.* The length of `listOfClients` is a fold over the names copied. That it is below
  `BUFFER_SIZE` needs an induction, which is done over a set of numbers (`InductiveSet`: a set that holds 0 and, with n, n + 1, is
  `Nat`), so that no operator is a parameter; `SumsExist` gives the function that the fold computes, and `SumBound` its bound.
- *Roster.* `RosterIsExact` only speaks of moments when nobody edits. `RosterInv` says what holds in between, while
  `own` and `serial` hold: at most one thread is at a label where it edits; if none is in a removal, the places below the count list the
  registered clients, each once (`Lists`); an `Entering` thread has loaded the count and perhaps stored its entry behind the last; a
  `Leaving` one is still listed (`Searching`), or is no longer, and all places but `j` list the others, or it has found nothing more to remove. Each store
  is one of `ListsAdd`, `ListsDrop` and `ListsShift`. It needs that a descriptor belongs to one thread, which is part of `AskInv`.
- *Loops.* `LoopInv` says of a thread in a loop that it has dealt with the places below `i` that have kept their entries (`kept`), and,
  if all of these have, with nothing else. A turn of the loop adds one (`LoopTakes`, `LoopSkips`); a store to `clients[p]` by another thread takes `p` out of
  `kept` and changes no other place (`LoopLoses`), so nothing is assumed on how edits interleave. At the loop's end this is the first part
  of `LoopsReachAll` (`LoopCovers`); with `RosterInv` it gives the second (`LoopEnds`).
- *Room.* While edits are in order, the row of `clients[]` has at most one gap (`OneGap`), and `Row` needs to be reasoned about only
  without a gap (`RowWhole`) and with one (`RowGap`). Storing behind the end, copying an entry down and `count--` leave the
  row as it is; `count++` is the room's `Enter`, and the `recv` that tells of a client's end is its `Leave`. Names come from the clients themselves (`NamesInv`).
  Once order is lost the room is wrecked, and stays so.
- *Client.* `SendsTheUsersLines` is inductive with `TypeOK`: `fgets` overwrites the shared array before a line is sent.
  `HistoryIsConversation` says that what the file has of the user, and of the server, is an interval of numbers in increasing order, and `RecordMore`
  that appending the next ones keeps it so; it needs that the line not recorded is the name (`NameTaken`). `ReadsOnOnlyWhenJoined` rests on
  `Endings`: every message is shorter than the array.

## 6. Model-checked only

Liveness (`LastThreadExits`, `RequestsAreAnswered`, `SocketsAreReleased`,
`TypedLinesAreSent`, `ServerIsHeard`) rests on fairness and `ENABLED`, which the prover does not
handle. Every safety invariant, action property and refinement that a passing run checks is also a theorem. `RosterInv`
and `LoopInv`, the strongest of the invariants that were needed, were checked on instances of two and three connections before they were proved.

## 7. Not modelled

- *Argument parsing and socket set-up*: they succeed or the process exits before it has state.
- *Texts*: the roster's banner (which leaves 52 characters for the names before `snprintf` cuts it), the announcement of a newcomer, and the name
  of the history file (`3_client.c:32`).
- *What lies behind `clients[]` and `listOfClients`*: the models stop there. In the object code of this build `listOfClients` is followed by
  padding, the loop's counter and the frame's links.
- *A thread blocked in `recv` on a descriptor that another closes*: the kernel lets it go on with the old
  connection. In the model it finds the descriptor closed, or reused, at its next step; such sharing
  only happens after the race on `client_socket`.
- *A failing `accept`*: `2_server.c:246` does not look at -1, which would then be a thread's descriptor; here `accept` succeeds.
- *An empty name*, which the client does not send at all, so that the user's first line becomes the name.
- *Store buffers* of the processor in a round: one access happens at a time.
- *A restart* of the helper or the server: neither listens again or reconnects, so a death is for good.
- *Banners, Makefile, scripts, recorded logs, documents*: no behaviour. The
  recorded log `peter_20231202_213204.txt` shows the effect of `decode_no_vowel_left`: in "fAlls neAtly" an e is left in lower case.
- *`OLD/` and `src/Drafts/`*: 157 C files with 27,000 lines, which are the same three programs at earlier
  stages, from v1 on, and experiments. The Makefile of the final version builds none of them, and nothing calls them. The final version has 820 lines in four files
  and is modelled from `accept`, `connect` and `recv` on, as `PROJECT.json` maps it line by line. A model of a stage that was replaced
  would say nothing about the program; of a copy it would repeat what is here. For this reason the map covers
  little of the repository's lines, though most of the program's.
- The CRC encoding the README's list asks for does not exist in the final version.

## 8. Plan

Done, in this order: queue and its FIFO; the round, its refinement and proofs; the helper's loop
and its proofs; the server; the client and its proofs; the helper composed with the server's threads in bytes, with its death, and its proofs; the room; lengths of
names and messages; the answers in the server, and the client's history, as theorems; the server's types, its list of names, the roster, the loops over it
and the room, as theorems.

The loops over the roster under concurrent edits, with their proof, and the finding about whom a line is sent to followed.

Next: a round with store buffers, to see whether any result depends on one access at a time.
