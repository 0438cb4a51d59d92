----------------------------- MODULE VowelSwitch -----------------------------
(***************************************************************************)
(* What the threads of 1_helper.c make of a character: the switch of       *)
(* serverDecoder, what all threads make of it between them, and what main  *)
(* may find in a queue once a round of threads has been joined.            *)
(***************************************************************************)
EXTENDS CircularQueue

CONSTANT MAX_THREADS   \* encDec.h: 6

ASSUME ThreadsAssumption == MAX_THREADS \in Nat \ {0}

Threads == 1 .. MAX_THREADS

\* What threads 1 to 5 look for and what they replace it by.
Lower == <<"a", "e", "i", "o", "u">>
Upper == <<"A", "E", "I", "O", "U">>

ASSUME LettersAssumption == /\ {Upper[t] : t \in 1 .. 5} \subseteq Byte \ {Nul}
                            /\ Nul \notin {Lower[t] : t \in 1 .. 5}

\* Mutant: thread numbers start at 0, so the last vowel has no thread.
UppercaseFromZero(t, c) ==
  IF t - 1 \in 1 .. 5 /\ c = Lower[t - 1] THEN Upper[t - 1] ELSE c

\* Mutant: a case copied from its neighbour.
UppercaseCopied(t, c) ==
  IF t \in 1 .. 5 /\ c = Lower[t] THEN Upper[(t % 5) + 1] ELSE c

\* The switch of thread t: thread 6 and any other number change nothing.
Uppercase(t, c) == IF t \in 1 .. 5 /\ c = Lower[t] THEN Upper[t] ELSE c

\* What the threads of S are to make of c between them.
UppercaseBy(S, c) ==
  IF \E t \in S : t \in 1 .. 5 /\ c = Lower[t]
  THEN Upper[CHOOSE t \in 1 .. 5 : c = Lower[t]]
  ELSE c

\* What the whole round is for.
UppercaseAll(c) == UppercaseBy(Threads, c)

-----------------------------------------------------------------------------
\* What a round can leave of the characters c of a queue: each as it came,
\* uppercased, or the '\0' of removeFromTheQueue.
Permitted(c) == {Nul} \cup {c[i] : i \in Slot} \cup {UppercaseAll(c[i]) : i \in Slot}

\* What main can dequeue after a round on the characters c.
RoundOutcomes(c, overlapped) ==
  IF overlapped THEN [Slot -> Permitted(c)]
                ELSE {[k \in Slot |-> UppercaseAll(c[k])]}
=============================================================================
