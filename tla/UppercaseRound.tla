---------------------------- MODULE UppercaseRound ----------------------------
(***************************************************************************)
(* What main of 1_helper.c may rely on when it starts a round of threads   *)
(* on a full queue and joins them: the round may end, and if it does while *)
(* no two threads have overlapped, what main then dequeues is the queue's  *)
(* characters in order with their vowels uppercased.  Once threads overlap *)
(* only the set of possible characters is known.                           *)
(***************************************************************************)
EXTENDS VowelSwitch

CONSTANT
  Chunk        \* the characters main may have put into the queue

VARIABLES
  chunk,       \* those of this round
  overlapped,  \* some thread has started while another was at work
  result       \* what main dequeues, None until the threads are joined

None == <<>>

Init == chunk \in Chunk /\ overlapped = FALSE /\ result = None

Overlap ==
  /\ result = None
  /\ ~overlapped
  /\ overlapped' = TRUE
  /\ UNCHANGED <<chunk, result>>

End ==
  /\ result = None
  /\ result' \in RoundOutcomes(chunk, overlapped)
  /\ UNCHANGED <<chunk, overlapped>>

Next == Overlap \/ End

Spec == Init /\ [][Next]_<<chunk, overlapped, result>>
=============================================================================
