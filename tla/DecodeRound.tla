----------------------------- MODULE DecodeRound -----------------------------
(***************************************************************************)
(* One round of the helper node (1_helper.c): main creates the threads and *)
(* joins them, and every thread runs serverDecoder on the same queue with  *)
(* no lock.  A thread drains the queue into its private tempQueue,         *)
(* replacing its own lowercase vowel, and then puts everything back.       *)
(*                                                                         *)
(* The accesses to the shared queue race.  The program is built without    *)
(* optimisation (Makefile: CFLAGS = -Wall), so every read of head, tail,   *)
(* countOfEntries or values[] in the source is one load and every          *)
(* assignment one store; an action below is one such load or store with    *)
(* the thread-private work that follows it, and threads interleave between *)
(* any two.  tempQueue is private, hence a FIFO (SequentialQueueProofs),   *)
(* and is kept as a sequence of at most QueueSize characters.              *)
(***************************************************************************)
EXTENDS VowelSwitch

CONSTANTS
  MaxInt,       \* the greatest int: 2^31 - 1
  Chunk         \* the characters main may have put into the queue

MinInt  == -MaxInt - 1
Int32   == MinInt .. MaxInt

ASSUME MaxIntAssumption  == MaxInt \in Nat /\ QueueSize <= MaxInt
ASSUME ChunkAssumption   == Chunk \subseteq [Slot -> Byte]

VARIABLES
  chunk,           \* what main enqueued for this round (datastreamFromMainServer)
  head, tail, countOfEntries, values,   \* the shared queue, insideQueue
  created,         \* threads 1 .. created have been created
  pc,              \* where each thread is
  reg,             \* the int a thread has loaded and not yet used
  ch,              \* the thread's indexToUppercase
  tempQueue,       \* the thread's tempQueue
  overlapped       \* history: some thread began while another was at work

queue == <<head, tail, countOfEntries, values>>
local == <<pc, reg, ch, tempQueue>>
vars  == <<chunk, queue, created, local, overlapped>>

\* Mutant: arithmetic that stops at the ends of the range.
Saturate(n) == IF n > MaxInt THEN MaxInt ELSE IF n < MinInt THEN MinInt ELSE n

\* countOfEntries is a plain int; the unoptimised build wraps it round.
Wrap(n) == IF n > MaxInt THEN MinInt ELSE IF n < MinInt THEN MaxInt ELSE n

\* addToTheQueue(&tempQueue, c): a full queue drops the character.
AddToTemp(s, c) == IF Len(s) = QueueSize THEN s ELSE Append(s, c)

-----------------------------------------------------------------------------
\* The enqueueing loop of main fills the queue exactly: head and tail meet.
Init ==
  /\ chunk \in Chunk
  /\ head = 0
  /\ tail = 0
  /\ countOfEntries = QueueSize
  /\ values = chunk
  /\ created = 0
  /\ pc = [t \in Threads |-> "start"]
  /\ reg = [t \in Threads |-> 0]
  /\ ch = [t \in Threads |-> Nul]
  /\ tempQueue = [t \in Threads |-> <<>>]
  /\ overlapped = FALSE

\* pthread_create in main, one thread after the other.
Create ==
  /\ created < MAX_THREADS
  /\ created' = created + 1
  /\ UNCHANGED <<chunk, queue, local, overlapped>>

Goto(t, label) == pc' = [pc EXCEPT ![t] = label]

\* A load of the int v into the thread's register.
Load(t, from, v, to) ==
  /\ pc[t] = from
  /\ reg' = [reg EXCEPT ![t] = v]
  /\ Goto(t, to)
  /\ UNCHANGED <<queue, ch, tempQueue, overlapped>>

\* A thread is at work from its first look at the queue until it exits.
AtWork(t) == pc[t] \notin {"start", "exit"}

\* A thread with nothing (left) to put back frees its tempQueue and exits.
PutBackFrom(s) == IF s = <<>> THEN "exit" ELSE "full?"

(* Draining: while (!(insideQueue->countOfEntries == 0)).                  *)
While(t) ==
  /\ pc[t] \in {"start", "while"}
  /\ Goto(t, IF countOfEntries # 0 THEN "empty?" ELSE PutBackFrom(tempQueue[t]))
  /\ overlapped' = (overlapped \/ /\ pc[t] = "start"
                                  /\ \E u \in Threads \ {t} : AtWork(u))
  /\ UNCHANGED <<queue, reg, ch, tempQueue>>

(* removeFromTheQueue(insideQueue): the second look at countOfEntries.     *)
(* Found empty, it returns '\0', which the switch leaves alone.            *)
RemoveTest(t) ==
  /\ pc[t] = "empty?"
  /\ IF countOfEntries = 0
     THEN /\ tempQueue' = [tempQueue EXCEPT ![t] = AddToTemp(@, Uppercase(t, Nul))]
          /\ Goto(t, "while")
     ELSE /\ UNCHANGED tempQueue
          /\ Goto(t, "front")
  /\ UNCHANGED <<queue, reg, ch, overlapped>>

LoadFrontIndex(t) == Load(t, "front", head, "take")

TakeValue(t) ==
  /\ pc[t] = "take"
  /\ ch' = [ch EXCEPT ![t] = values[reg[t]]]
  /\ reg' = [reg EXCEPT ![t] = 0]
  /\ Goto(t, "head")
  /\ UNCHANGED <<queue, tempQueue, overlapped>>

LoadHead(t) == Load(t, "head", head, "head'")

StoreHead(t) ==
  /\ pc[t] = "head'"
  /\ head' = NextSlot(reg[t])
  /\ reg' = [reg EXCEPT ![t] = 0]
  /\ Goto(t, "count-")
  /\ UNCHANGED <<tail, countOfEntries, values, ch, tempQueue, overlapped>>

LoadCountDown(t) == Load(t, "count-", countOfEntries, "count-'")

\* The rest of removeFromTheQueue, the switch, and the add to tempQueue.
StoreCountDown(t) ==
  /\ pc[t] = "count-'"
  /\ countOfEntries' = Wrap(reg[t] - 1)
  /\ reg' = [reg EXCEPT ![t] = 0]
  /\ tempQueue' = [tempQueue EXCEPT ![t] = AddToTemp(@, Uppercase(t, ch[t]))]
  /\ ch' = [ch EXCEPT ![t] = Nul]
  /\ Goto(t, "while")
  /\ UNCHANGED <<head, tail, values, overlapped>>

(* Putting back: while (!(tempQueue.countOfEntries == 0)), with            *)
(* addToTheQueue(insideQueue, ...); a queue that looks full drops the      *)
(* character.                                                              *)
AddTest(t) ==
  /\ pc[t] = "full?"
  /\ tempQueue' = [tempQueue EXCEPT ![t] = Tail(@)]
  /\ IF countOfEntries = QueueSize
     THEN /\ Goto(t, PutBackFrom(Tail(tempQueue[t])))
          /\ UNCHANGED ch
     ELSE /\ Goto(t, "back")
          /\ ch' = [ch EXCEPT ![t] = Head(tempQueue[t])]
  /\ UNCHANGED <<queue, reg, overlapped>>

\* Mutant: the character is put where the oldest entry is.
LoadBackIndexOfHead(t) == Load(t, "back", head, "put")

LoadBackIndex(t) == Load(t, "back", tail, "put")

PutValue(t) ==
  /\ pc[t] = "put"
  /\ values' = [values EXCEPT ![reg[t]] = ch[t]]
  /\ reg' = [reg EXCEPT ![t] = 0]
  /\ ch' = [ch EXCEPT ![t] = Nul]
  /\ Goto(t, "count+")
  /\ UNCHANGED <<head, tail, countOfEntries, tempQueue, overlapped>>

LoadCountUp(t) == Load(t, "count+", countOfEntries, "count+'")

StoreCountUp(t) ==
  /\ pc[t] = "count+'"
  /\ countOfEntries' = Wrap(reg[t] + 1)
  /\ reg' = [reg EXCEPT ![t] = 0]
  /\ Goto(t, "tail")
  /\ UNCHANGED <<head, tail, values, ch, tempQueue, overlapped>>

LoadTail(t) == Load(t, "tail", tail, "tail'")

StoreTail(t) ==
  /\ pc[t] = "tail'"
  /\ tail' = NextSlot(reg[t])
  /\ reg' = [reg EXCEPT ![t] = 0]
  /\ Goto(t, PutBackFrom(tempQueue[t]))
  /\ UNCHANGED <<head, countOfEntries, values, ch, tempQueue, overlapped>>

serverDecoder(t) ==
  /\ t <= created
  /\ \/ While(t) \/ RemoveTest(t) \/ LoadFrontIndex(t) \/ TakeValue(t)
     \/ LoadHead(t) \/ StoreHead(t) \/ LoadCountDown(t) \/ StoreCountDown(t)
     \/ AddTest(t) \/ LoadBackIndex(t) \/ PutValue(t)
     \/ LoadCountUp(t) \/ StoreCountUp(t) \/ LoadTail(t) \/ StoreTail(t)
  /\ UNCHANGED <<chunk, created>>

Next == Create \/ \E t \in Threads : serverDecoder(t)

Spec == Init /\ [][Next]_vars

(* pthreads are scheduled preemptively: a thread that can step, steps.     *)
FairSpec ==
  Spec /\ WF_vars(Create) /\ \A t \in Threads : WF_vars(serverDecoder(t))

-----------------------------------------------------------------------------
\* Every pthread_join of main has returned.
AllJoined == created = MAX_THREADS /\ \A t \in Threads : pc[t] = "exit"

\* The k-th character main dequeues after the joins, with removeFromTheQueue.
Collected(k) ==
  IF countOfEntries \in 0 .. k THEN Nul ELSE values[(head + k) % QueueSize]

\* What main finds, once it gets there.
Round == INSTANCE UppercaseRound WITH
  result <- IF AllJoined THEN [k \in Slot |-> Collected(k)] ELSE <<>>

-----------------------------------------------------------------------------
(* Whatever the interleaving, every index stays inside the values array    *)
(* and every int inside the type, although countOfEntries may not.         *)
Label == {"start", "while", "empty?", "front", "take", "head", "head'",
          "count-", "count-'", "full?", "back", "put", "count+", "count+'",
          "tail", "tail'", "exit"}

IndexLabel == {"take", "head'", "put", "tail'"}

TypeOK ==
  /\ chunk \in [Slot -> Byte]
  /\ head \in Slot
  /\ tail \in Slot
  /\ countOfEntries \in Int32
  /\ values \in [Slot -> Byte]
  /\ created \in 0 .. MAX_THREADS
  /\ pc \in [Threads -> Label]
  /\ reg \in [Threads -> Int32]
  /\ \A t \in Threads : pc[t] \in IndexLabel => reg[t] \in Slot
  /\ ch \in [Threads -> Byte]
  /\ tempQueue \in [Threads -> Seq(Byte)]
  /\ \A t \in Threads : Len(tempQueue[t]) <= QueueSize
  /\ \A t \in Threads : pc[t] = "full?" => tempQueue[t] # <<>>
  /\ overlapped \in BOOLEAN

(* The race can lose, repeat and reorder characters, but it makes none up: *)
(* all a round ever stores is a character of the message, as it came or    *)
(* uppercased, or the '\0' of removeFromTheQueue.                          *)
NothingInvented ==
  /\ values \in [Slot -> Permitted(chunk)]
  /\ ch \in [Threads -> Permitted(chunk)]
  /\ tempQueue \in [Threads -> Seq(Permitted(chunk))]

(* Whatever a thread puts back has been through its own case of the        *)
(* switch: charA never writes an 'a' into the shared queue, and so on.     *)
OwnVowelGone ==
  \A t \in Threads \cap (1 .. 5) :
    /\ tempQueue[t] \in Seq(Byte \ {Lower[t]})
    /\ pc[t] \in {"back", "put"} => ch[t] # Lower[t]

(* If no thread started while another was at work, the round does what it  *)
(* is for: main dequeues the characters of the message in their order,     *)
(* each vowel uppercased, whichever thread ran first.                      *)
SerialRoundIsCorrect ==
  AllJoined /\ ~overlapped => \A k \in Slot : Collected(k) = UppercaseAll(chunk[k])

(* Once all others have exited, the last thread gets out of its loop even  *)
(* if a race has left countOfEntries negative: each turn takes one off and *)
(* the int wraps round to positive values, so that main's pthread_join     *)
(* returns.                                                                *)
LastThreadExits ==
  \A t \in Threads :
    (created = MAX_THREADS /\ \A u \in Threads \ {t} : pc[u] = "exit")
      ~> (pc[t] = "exit")

(* main's view of the threads and their races is UppercaseRound: it never  *)
(* sees a result before the last join, nor one that changes afterwards.    *)
ImplementsRound == Round!Spec

-----------------------------------------------------------------------------
(* What the repository says of a round and the race refutes.               *)

(* README.md:24-25: "The solution must replace all instances of lowercase  *)
(* vowels with uppercase ones."                                            *)
NoVowelLeft ==
  AllJoined => \A k \in Slot, t \in Threads \cap (1 .. 5) : Collected(k) # Lower[t]

(* README.md:14: "Threads should terminate when end of input data is       *)
(* reached."                                                               *)
ThreadsTerminate == <>AllJoined
=============================================================================
