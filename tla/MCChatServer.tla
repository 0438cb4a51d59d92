----------------------------- MODULE MCChatServer -----------------------------
EXTENDS ChatServer, TLC

CONSTANTS c1, c2, c3

MCTwo   == {c1, c2}
MCThree == {c1, c2, c3}
OneEach == [c \in Conn |-> 1]
TwoEach == [c \in Conn |-> 2]
OneTwo  == [c \in Conn |-> IF c = c1 THEN 2 ELSE 1]
Short   == [l \in Line |-> 1]
Alike   == Permutations(Conn)
AlikeButThird == Permutations({c1, c2})

\* Two connections do everything; the helper may die where no thread disturbs
\* another, before its death or after.
Pair ==
  /\ client[c3] = "away"
  /\ helper = "up" \/ (own /\ serial /\ ~crossed)

\* Bounds of the larger instances: the roster is edited by one thread at a time,
\* and one thread at a time loops over it.
Ordered ==
  /\ own /\ serial
  /\ Cardinality({t \in Conn : th[t].at \notin {"none", "start", "name", "recv", "exit"}
                               /\ ~Editing(t)}) <= 1

\* Three connections, of which the one to come last is called c3: moreover, each
\* sends its name only, two leave at most, and the helper lives.
Three ==
  /\ Ordered /\ helper = "up"
  /\ client[c1] # "away" /\ client[c2] # "away"
  /\ \A c \in Conn : said[c] <= 1
  /\ Cardinality({c \in Conn : client[c] \in {"gone", "reset"}}) <= 2

PairOrThree == Pair \/ Three

\* SocketsAreReleased holds of a behaviour from the first state outside of
\* this, so that none of its counterexamples leaves it.
Unexcused == own /\ ~crossed /\ process = "up"
=============================================================================
