-------------------------- MODULE DecodeRoundSerial --------------------------
(***************************************************************************)
(* The state of a round of 1_helper.c whose threads have not overlapped so *)
(* far: the inductive invariant behind SerialRoundIsCorrect.               *)
(***************************************************************************)
EXTENDS DecodeRound

Finished == {u \in Threads : pc[u] = "exit"}

\* The message as the finished threads have made it, and as thread t will.
Before   == [k \in Slot |-> UppercaseBy(Finished, chunk[k])]
After(t) == [k \in Slot |-> UppercaseBy(Finished \cup {t}, chunk[k])]

\* Where the k-th entry counted from slot i lies.
At(i, k) == (i + k) % QueueSize

\* Nobody has begun, or the last thread has put everything back.
Resting ==
  /\ head = tail
  /\ countOfEntries = QueueSize
  /\ \A k \in Slot : values[At(head, k)] = Before[k]

\* t has moved the first Len(tempQueue[t]) entries into its tempQueue.
Draining(t) ==
  LET n     == Len(tempQueue[t])
      moved == IF pc[t] \in {"count-", "count-'"} THEN n + 1 ELSE n
  IN  /\ pc[t] \in {"while", "empty?", "front", "take", "head", "head'",
                    "count-", "count-'"}
      /\ pc[t] # "while" => n < QueueSize
      /\ head = At(tail, moved)
      /\ countOfEntries = QueueSize - n
      /\ \A k \in Slot : values[At(tail, k)] = Before[k]
      /\ \A k \in 1 .. n : tempQueue[t][k] = After(t)[k - 1]
      /\ pc[t] \in {"take", "head'"} => reg[t] = head
      /\ pc[t] \in {"head", "head'", "count-", "count-'"} => ch[t] = Before[n]
      /\ pc[t] = "count-'" => reg[t] = countOfEntries

\* t has put back p entries and keeps the others in its tempQueue, but for
\* the one it is working on.
PuttingBack(t) ==
  LET held   == IF pc[t] = "full?" THEN 0 ELSE 1
      p      == QueueSize - Len(tempQueue[t]) - held
      stored == IF pc[t] \in {"count+", "count+'", "tail", "tail'"} THEN p + 1 ELSE p
  IN  /\ pc[t] \in {"full?", "back", "put", "count+", "count+'", "tail", "tail'"}
      /\ p \in Slot
      /\ tail = At(head, p)
      /\ countOfEntries = IF pc[t] \in {"tail", "tail'"} THEN p + 1 ELSE p
      /\ \A k \in Slot : k < stored => values[At(head, k)] = After(t)[k]
      /\ \A k \in 1 .. Len(tempQueue[t]) :
           tempQueue[t][k] = After(t)[p + held + k - 1]
      /\ pc[t] \in {"back", "put"} => ch[t] = After(t)[p]
      /\ pc[t] \in {"put", "tail'"} => reg[t] = tail
      /\ pc[t] = "count+'" => reg[t] = countOfEntries

(* A round without overlap is always in one of three states: nobody at     *)
(* work and the whole message in the queue in order, or one thread moving  *)
(* it out, or one thread moving it back in.                                *)
SerialInv ==
  /\ \A u \in Threads : pc[u] = "start" => tempQueue[u] = <<>>
  /\ ~overlapped =>
       \/ Resting /\ \A u \in Threads : ~AtWork(u)
       \/ \E t \in Threads : /\ Draining(t) \/ PuttingBack(t)
                             /\ \A u \in Threads \ {t} : ~AtWork(u)
=============================================================================
