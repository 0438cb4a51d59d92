------------------------------- MODULE ChatRoom -------------------------------
(***************************************************************************)
(* What the chat server's array clients[] is to stand for: a room of at    *)
(* most Capacity persons, in the order in which they have entered.  A      *)
(* person enters or leaves in one step, and nothing happens to the others. *)
(* The room may be wrecked, after which nothing is promised.               *)
(***************************************************************************)
EXTENDS Naturals, SequencesExt

CONSTANTS Person, Capacity

VARIABLES members, open

roomVars == <<members, open>>

Init == members = <<>> /\ open = TRUE

Enter(p) ==
  /\ open
  /\ Len(members) < Capacity
  /\ \A q \in ToSet(members) : q.who # p.who
  /\ members' = Append(members, p)
  /\ UNCHANGED open

Leave(p) ==
  /\ open
  /\ \E k \in DOMAIN members : members[k] = p /\ members' = RemoveAt(members, k)
  /\ UNCHANGED open

Wreck ==
  /\ open' = FALSE
  /\ members' = <<>>

Next ==
  \/ Wreck
  \/ members' # members /\ \E p \in Person : Enter(p) \/ Leave(p)

Spec == Init /\ [][Next]_roomVars
=============================================================================
