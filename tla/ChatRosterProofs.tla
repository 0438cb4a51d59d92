--------------------------- MODULE ChatRosterProofs ---------------------------
(***************************************************************************)
(* Proofs about the chat server's roster, whatever the number of clients,  *)
(* the capacity and the order of all steps: the types of everything, the   *)
(* names in listOfClients, the loops over clients[], and clients[] itself  *)
(* as long as registrations and removals follow one another.               *)
(***************************************************************************)
EXTENDS ChatServerProofs, FunctionTheorems

-----------------------------------------------------------------------------
(* Induction, over sets of numbers.                                        *)
LEMMA InductiveSet ==
  ASSUME NEW S, 0 \in S, \A n \in Nat : n \in S => n + 1 \in S
  PROVE  Nat \subseteq S
<1> SUFFICES ASSUME NEW m \in Nat, m \notin S PROVE FALSE
  OBVIOUS
<1> DEFINE F == Nat \ S
           R == OpToRel(<, Nat)
<1>1. IsWellFoundedOn(R, Nat)
  BY NatLessThanWellFounded, Zenon
<1>2. F \subseteq Nat /\ F # {}
  OBVIOUS
<1>3. PICK x \in F : \A y \in F : ~(<<y, x>> \in R)
  <2> HIDE DEF R, F
  <2> QED  BY <1>1, <1>2, WFMin
<1>4. \A y \in F : ~(y < x)
  BY <1>3 DEF OpToRel
<1>5. x \in Nat /\ x # 0 /\ x - 1 \in Nat /\ x - 1 \notin F
  BY <1>4
<1>6. (x - 1) + 1 \in S
  BY <1>5
<1> QED  BY <1>5, <1>6

(* Sequences of a type, joined, give a sequence of that type.              *)
LEMMA FlattenType ==
  ASSUME NEW T, NEW s \in Seq(Seq(T))
  PROVE  FlattenSeq(s) \in Seq(T)
<1> DEFINE Flattens(f, n) == f = [i \in 1 .. n |-> IF i = 1 THEN s[i] ELSE f[i - 1] \o s[i]]
           Flattened == CHOOSE f : Flattens(f, Len(s))
<1>1. Len(s) \in Nat /\ \A i \in 1 .. Len(s) : s[i] \in Seq(T)
  OBVIOUS
<1>2. \E f : Flattens(f, Len(s))
  <2> DEFINE S == {n \in Nat : \E f : Flattens(f, n)}
  <2>1. 0 \in S
    <3>1. Flattens([i \in 1 .. 0 |-> i], 0)
      OBVIOUS
    <3> QED  BY <3>1
  <2>2. ASSUME NEW n \in Nat, n \in S
        PROVE  n + 1 \in S
    <3>1. PICK f : Flattens(f, n)
      BY <2>2
    <3> DEFINE g == [i \in 1 .. n + 1 |-> IF i = 1 THEN s[i] ELSE f[i - 1] \o s[i]]
    <3>2. \A i \in 1 .. n : g[i] = f[i]
      <4>1. \A i \in 1 .. n : f[i] = IF i = 1 THEN s[i] ELSE f[i - 1] \o s[i]
        BY <3>1, Zenon
      <4> QED  BY <4>1
    <3>3. \A i \in 1 .. n + 1 : i # 1 => i - 1 \in 1 .. n
      OBVIOUS
    <3>4. \A i \in 1 .. n + 1 :
            (IF i = 1 THEN s[i] ELSE f[i - 1] \o s[i]) = (IF i = 1 THEN s[i] ELSE g[i - 1] \o s[i])
      BY <3>2, <3>3
    <3>5. g = [i \in 1 .. n + 1 |-> IF i = 1 THEN s[i] ELSE g[i - 1] \o s[i]]
      <4> DEFINE h == [i \in 1 .. n + 1 |-> IF i = 1 THEN s[i] ELSE g[i - 1] \o s[i]]
      <4>1. DOMAIN g = 1 .. n + 1 /\ DOMAIN h = 1 .. n + 1
        OBVIOUS
      <4>2. \A i \in 1 .. n + 1 : g[i] = h[i]
        BY <3>4
      <4>3. g = [i \in 1 .. n + 1 |-> g[i]] /\ h = [i \in 1 .. n + 1 |-> h[i]]
        OBVIOUS
      <4> HIDE DEF g, h
      <4>4. g = h
        BY <4>1, <4>2, <4>3
      <4> QED  BY <4>4 DEF h
    <3> HIDE DEF g
    <3>6. \E h : Flattens(h, n + 1)
      BY <3>5
    <3> HIDE DEF Flattens
    <3> QED  BY <3>6
  <2> HIDE DEF S
  <2>3. Nat \subseteq S
    BY <2>1, <2>2, InductiveSet
  <2> QED  BY <1>1, <2>3 DEF S
<1>3. Flattens(Flattened, Len(s))
  BY <1>2
<1>4. \A i \in 1 .. Len(s) : Flattened[i] \in Seq(T)
  <2> DEFINE S == {n \in Nat : n \in 1 .. Len(s) => Flattened[n] \in Seq(T)}
  <2> HIDE DEF Flattened
  <2>1. 0 \in S
    OBVIOUS
  <2>2. ASSUME NEW n \in Nat, n \in S
        PROVE  n + 1 \in S
    <3> SUFFICES ASSUME n + 1 \in 1 .. Len(s) PROVE Flattened[n + 1] \in Seq(T)
      OBVIOUS
    <3>1. Flattened[n + 1] = IF n + 1 = 1 THEN s[n + 1] ELSE Flattened[n] \o s[n + 1]
      <4>1. \A i \in 1 .. Len(s) : Flattened[i] = IF i = 1 THEN s[i] ELSE Flattened[i - 1] \o s[i]
        BY <1>3
      <4>2. (n + 1) - 1 = n
        OBVIOUS
      <4> QED  BY <4>1, <4>2
    <3>2. n # 0 => Flattened[n] \in Seq(T)
      BY <1>1, <2>2
    <3> QED  BY <1>1, <3>1, <3>2
  <2> HIDE DEF S
  <2>3. Nat \subseteq S
    BY <2>1, <2>2, InductiveSet
  <2> QED  BY <1>1, <2>3 DEF S
<1>5. CASE Len(s) = 0
  BY <1>5 DEF FlattenSeq
<1>6. CASE Len(s) # 0
  <2>1. FlattenSeq(s) = Flattened[Len(s)]
    BY <1>6 DEF FlattenSeq
  <2> HIDE DEF Flattened
  <2> QED  BY <1>1, <1>4, <1>6, <2>1
<1> QED  BY <1>5, <1>6
-----------------------------------------------------------------------------
(* Sums, as the folds of SequencesExt compute them: f gives to each set of *)
(* positions the sum of what w has there.                                  *)
Picked(s) == CHOOSE x \in s : TRUE
Sums(f, w, n) ==
  f = [s \in SUBSET (1 .. n) |-> IF s = {} THEN 0 ELSE w[Picked(s)] + f[s \ {Picked(s)}]]

(* Taking one position out of a set of k + 1 leaves k.                     *)
LEMMA PickOne ==
  ASSUME NEW n \in Nat, NEW s \in SUBSET (1 .. n), s # {}
  PROVE  /\ Picked(s) \in 1 .. n /\ s \ {Picked(s)} \in SUBSET (1 .. n)
         /\ IsFiniteSet(s) /\ Cardinality(s) \in Nat
         /\ Cardinality(s \ {Picked(s)}) = Cardinality(s) - 1
<1>1. Picked(s) \in s
  BY DEF Picked
<1>2. IsFiniteSet(s)
  <2>1. IsFiniteSet(1 .. n)
    BY FS_Interval
  <2> QED  BY <2>1, FS_Subset
<1>3. Cardinality(s \ {Picked(s)}) = Cardinality(s) - 1
  BY <1>1, <1>2, FS_RemoveElement
<1> QED  BY <1>1, <1>2, <1>3, FS_CardinalityType

(* The function that sums over sets of positions exists.                   *)
LEMMA SumsExist ==
  ASSUME NEW n \in Nat, NEW w
  PROVE  \E f : Sums(f, w, n)
<1> DEFINE D(k) == {s \in SUBSET (1 .. n) : Cardinality(s) =< k}
           Upto(f, k) == f = [s \in D(k) |-> IF s = {} THEN 0 ELSE w[Picked(s)] + f[s \ {Picked(s)}]]
           S == {k \in Nat : \E f : Upto(f, k)}
<1>1. \A s \in SUBSET (1 .. n) : IsFiniteSet(s) /\ Cardinality(s) \in 0 .. n
  <2>1. IsFiniteSet(1 .. n) /\ Cardinality(1 .. n) = n
    <3>1. n - 1 + 1 = n
      OBVIOUS
    <3> QED  BY <3>1, FS_Interval
  <2>2. \A s \in SUBSET (1 .. n) : IsFiniteSet(s) /\ Cardinality(s) =< Cardinality(1 .. n)
    BY <2>1, FS_Subset
  <2>3. \A s \in SUBSET (1 .. n) : Cardinality(s) \in Nat
    BY <2>2, FS_CardinalityType
  <2> QED  BY <2>1, <2>2, <2>3
<1>2. 0 \in S
  <2> DEFINE f == [s \in D(0) |-> 0]
  <2>1. \A s \in D(0) : s = {}
    BY <1>1, FS_EmptySet
  <2>2. f = [s \in D(0) |-> IF s = {} THEN 0 ELSE w[Picked(s)] + f[s \ {Picked(s)}]]
    BY <2>1
  <2> HIDE DEF f
  <2>3. \E g : Upto(g, 0)
    BY <2>2
  <2> HIDE DEF Upto
  <2> QED  BY <2>3
<1>3. ASSUME NEW k \in Nat, k \in S
      PROVE  k + 1 \in S
  <2>1. PICK f : Upto(f, k)
    BY <1>3
  <2> DEFINE body(g, s) == IF s = {} THEN 0 ELSE w[Picked(s)] + g[s \ {Picked(s)}]
             g == [s \in D(k + 1) |-> body(f, s)]
  <2>2. \A s \in D(k) : f[s] = body(f, s)
    BY <2>1, Zenon
  <2>3. \A s \in D(k) : s \in D(k + 1) /\ g[s] = f[s]
    BY <1>1, <2>2
  <2>4. \A s \in D(k + 1) : s # {} => s \ {Picked(s)} \in D(k)
    BY <1>1, PickOne
  <2>5. \A s \in D(k + 1) : body(f, s) = body(g, s)
    <3> HIDE DEF g, D
    <3> QED  BY <2>3, <2>4
  <2>6. g = [s \in D(k + 1) |-> body(g, s)]
    <3> DEFINE h == [s \in D(k + 1) |-> body(g, s)]
    <3>1. \A s \in D(k + 1) : g[s] = h[s]
      BY <2>5
    <3>2. DOMAIN g = D(k + 1) /\ DOMAIN h = D(k + 1)
      OBVIOUS
    <3>3. g = [s \in D(k + 1) |-> g[s]] /\ h = [s \in D(k + 1) |-> h[s]]
      OBVIOUS
    <3> HIDE DEF g, h, D
    <3>4. g = h
      BY <3>1, <3>3
    <3> QED  BY <3>4 DEF h
  <2> HIDE DEF g
  <2>7. \E h : Upto(h, k + 1)
    BY <2>6
  <2> HIDE DEF Upto
  <2> QED  BY <2>7
<1> HIDE DEF S
<1>4. n \in S
  BY <1>2, <1>3, InductiveSet
<1>5. PICK f : Upto(f, n)
  BY <1>4 DEF S
<1>6. D(n) = SUBSET (1 .. n)
  BY <1>1
<1>7. Sums(f, w, n)
  <2> HIDE DEF D
  <2> QED  BY <1>5, <1>6 DEF Sums
<1> QED  BY <1>7

(* A sum of n numbers is a number, at most n * q if none of them is over q. *)
LEMMA SumBound ==
  ASSUME NEW n \in Nat, NEW w, \A i \in 1 .. n : w[i] \in Nat,
         NEW f, Sums(f, w, n)
  PROVE  /\ f[1 .. n] \in Nat
         /\ \A q \in Nat : (\A i \in 1 .. n : w[i] =< q) => f[1 .. n] =< n * q
<1> DEFINE Bounded(s, k) == /\ f[s] \in Nat
                            /\ \A q \in Nat : (\A i \in 1 .. n : w[i] =< q) => f[s] =< k * q
           S == {k \in Nat : \A s \in SUBSET (1 .. n) : Cardinality(s) = k => Bounded(s, k)}
<1>1. \A s \in SUBSET (1 .. n) : f[s] = IF s = {} THEN 0 ELSE w[Picked(s)] + f[s \ {Picked(s)}]
  BY Zenon DEF Sums
<1>2. 0 \in S
  <2> SUFFICES ASSUME NEW s \in SUBSET (1 .. n), Cardinality(s) = 0
               PROVE  Bounded(s, 0)
    OBVIOUS
  <2>1. s = {}
    <3> SUFFICES ASSUME s # {} PROVE FALSE
      OBVIOUS
    <3>1. IsFiniteSet(s)
      BY PickOne
    <3> QED  BY <3>1, FS_EmptySet
  <2>2. f[s] = 0
    BY <1>1, <2>1
  <2> QED  BY <2>2
<1>3. ASSUME NEW k \in Nat, k \in S
      PROVE  k + 1 \in S
  <2> SUFFICES ASSUME NEW s \in SUBSET (1 .. n), Cardinality(s) = k + 1
               PROVE  Bounded(s, k + 1)
    OBVIOUS
  <2>1. s # {}
    BY FS_EmptySet
  <2>2. w[Picked(s)] \in Nat /\ Bounded(s \ {Picked(s)}, k) /\ Picked(s) \in 1 .. n
    <3>1. /\ Picked(s) \in 1 .. n /\ s \ {Picked(s)} \in SUBSET (1 .. n)
          /\ Cardinality(s \ {Picked(s)}) = k
      BY <2>1, PickOne
    <3> HIDE DEF Bounded
    <3> QED  BY <1>3, <3>1
  <2>3. f[s] = w[Picked(s)] + f[s \ {Picked(s)}]
    BY <1>1, <2>1
  <2>4. f[s] \in Nat
    BY <2>2, <2>3
  <2>5. ASSUME NEW q \in Nat, \A i \in 1 .. n : w[i] =< q
        PROVE  f[s] =< (k + 1) * q
    <3>1. (k + 1) * q = k * q + q /\ k * q \in Nat
      OBVIOUS
    <3>2. w[Picked(s)] =< q /\ f[s \ {Picked(s)}] =< k * q /\ f[s \ {Picked(s)}] \in Nat
      BY <2>2, <2>5
    <3> QED  BY <2>2, <2>3, <3>1, <3>2
  <2> QED  BY <2>4, <2>5
<1> HIDE DEF S
<1>4. n \in S
  BY <1>2, <1>3, InductiveSet
<1>5. Cardinality(1 .. n) = n
  BY FS_Interval
<1> HIDE DEF Bounded
<1>6. Bounded(1 .. n, n)
  BY <1>4, <1>5 DEF S
<1> QED  BY <1>6 DEF Bounded

(* The length of a name is a number.                                       *)
LEMMA TextSizeType ==
  ASSUME NEW name \in Seq(Line)
  PROVE  TextSize(name) \in Nat
<1> DEFINE n == Len(name)
           w == [i \in 1 .. n |-> Size[name[i]]]
           Folds(f) == f = [s \in SUBSET (1 .. n) |->
                              IF s = {} THEN 0
                              ELSE Size[name[CHOOSE x \in s : TRUE]] + f[s \ {CHOOSE x \in s : TRUE}]]
<1>1. n \in Nat /\ DOMAIN name = 1 .. n /\ \A i \in 1 .. n : w[i] \in Nat
  BY SizeAssumption
<1>2. ASSUME NEW f
      PROVE  Folds(f) <=> Sums(f, w, n)
  <2> DEFINE a == [s \in SUBSET (1 .. n) |->
                     IF s = {} THEN 0 ELSE Size[name[Picked(s)]] + f[s \ {Picked(s)}]]
             b == [s \in SUBSET (1 .. n) |->
                     IF s = {} THEN 0 ELSE w[Picked(s)] + f[s \ {Picked(s)}]]
  <2>1. \A s \in SUBSET (1 .. n) : s # {} => Picked(s) \in 1 .. n
    BY <1>1, PickOne
  <2>2. \A s \in SUBSET (1 .. n) : a[s] = b[s]
    BY <2>1
  <2>3. a = [s \in SUBSET (1 .. n) |-> a[s]] /\ b = [s \in SUBSET (1 .. n) |-> b[s]]
    OBVIOUS
  <2> HIDE DEF a, b
  <2>4. a = b
    BY <2>2, <2>3
  <2>5. Folds(f) <=> f = a
    BY DEF a, Picked
  <2>6. Sums(f, w, n) <=> f = b
    BY DEF b, Sums
  <2> QED  BY <2>4, <2>5, <2>6
<1>3. \E f : Folds(f)
  <2>1. \E f : Sums(f, w, n)
    <3> HIDE DEF w, n
    <3> QED  BY <1>1, SumsExist
  <2> HIDE DEF Folds, w, n
  <2> QED  BY <1>2, <2>1
<1> DEFINE F == CHOOSE f : Folds(f)
<1>4. TextSize(name) = F[1 .. n]
  BY <1>1 DEF TextSize, FoldSeq, FoldFunction, FoldFunctionOnSet, MapThenFoldSet
<1>5. Sums(F, w, n)
  <2>1. Folds(F)
    <3> HIDE DEF Folds
    <3> QED  BY <1>3
  <2> HIDE DEF F, Folds, w, n
  <2> QED  BY <1>2, <2>1
<1> HIDE DEF F, w, n
<1> QED  BY <1>1, <1>4, <1>5, SumBound

(* The names in listOfClients fit as long as none of them takes more than  *)
(* its share of the array.                                                 *)
Total(names) == FoldSeq(LAMBDA n, sum : WithNewline(n) + sum, 0, names)
Share == (BUFFER_SIZE - 1) \div MAXIMUM_CONNECTED_CLIENTS

(* Names that take no more than their share fit into the list together.    *)
LEMMA ShortNamesFit ==
  ASSUME NEW names \in Seq(Seq(Line)), Len(names) \in 1 .. MAXIMUM_CONNECTED_CLIENTS,
         \A i \in 1 .. Len(names) : WithNewline(names[i]) =< Share
  PROVE  Total(names) < BUFFER_SIZE
<1> DEFINE n == Len(names)
           w == [i \in 1 .. n |-> WithNewline(names[i])]
           Folds(f) == f = [s \in SUBSET (1 .. n) |->
                              IF s = {} THEN 0
                              ELSE WithNewline(names[CHOOSE x \in s : TRUE]) + f[s \ {CHOOSE x \in s : TRUE}]]
<1>1. n \in Nat /\ DOMAIN names = 1 .. n /\ \A i \in 1 .. n : w[i] \in Nat
  BY TextSizeType DEF WithNewline
<1>2. ASSUME NEW f
      PROVE  Folds(f) <=> Sums(f, w, n)
  <2> DEFINE a == [s \in SUBSET (1 .. n) |->
                     IF s = {} THEN 0 ELSE WithNewline(names[Picked(s)]) + f[s \ {Picked(s)}]]
             b == [s \in SUBSET (1 .. n) |->
                     IF s = {} THEN 0 ELSE w[Picked(s)] + f[s \ {Picked(s)}]]
  <2>1. \A s \in SUBSET (1 .. n) : s # {} => Picked(s) \in 1 .. n
    BY <1>1, PickOne
  <2>2. \A s \in SUBSET (1 .. n) : a[s] = b[s]
    BY <2>1
  <2>3. a = [s \in SUBSET (1 .. n) |-> a[s]] /\ b = [s \in SUBSET (1 .. n) |-> b[s]]
    OBVIOUS
  <2> HIDE DEF a, b
  <2>4. a = b
    BY <2>2, <2>3
  <2>5. Folds(f) <=> f = a
    BY DEF a, Picked
  <2>6. Sums(f, w, n) <=> f = b
    BY DEF b, Sums
  <2> QED  BY <2>4, <2>5, <2>6
<1>3. \E f : Folds(f)
  <2>1. \E f : Sums(f, w, n)
    <3> HIDE DEF w, n
    <3> QED  BY <1>1, SumsExist
  <2> HIDE DEF Folds, w, n
  <2> QED  BY <1>2, <2>1
<1> DEFINE F == CHOOSE f : Folds(f)
<1>4. Total(names) = F[1 .. n]
  BY <1>1 DEF Total, FoldSeq, FoldFunction, FoldFunctionOnSet, MapThenFoldSet
<1>5. Sums(F, w, n)
  <2>1. Folds(F)
    <3> HIDE DEF Folds
    <3> QED  BY <1>3
  <2> HIDE DEF F, Folds, w, n
  <2> QED  BY <1>2, <2>1
<1>6. w[1] =< Share /\ w[1] \in Nat /\ \A i \in 1 .. n : w[i] =< Share
  BY <1>1
<1>7. Share \in Nat
  <2>1. Share \in Int
    BY SizeAssumption, CapacityAssumption DEF Share
  <2> HIDE DEF w
  <2> QED  BY <1>6, <2>1
<1> DEFINE m == MAXIMUM_CONNECTED_CLIENTS
<1>8. n * Share =< m * Share
  <2>1. m \in Nat /\ n =< m
    BY CapacityAssumption
  <2>2. (m - n) * Share \in Nat /\ m - n \in Nat
    BY <1>1, <1>7, <2>1
  <2>3. (m - n) * Share = m * Share - n * Share
    BY <1>1, <1>7, <2>1
  <2> QED  BY <1>1, <1>7, <2>1, <2>2, <2>3
<1>9. m * Share =< BUFFER_SIZE - 1
  BY SizeAssumption, CapacityAssumption DEF Share
<1>10. F[1 .. n] \in Nat /\ F[1 .. n] =< n * Share
  <2> HIDE DEF F, w, n
  <2> QED  BY <1>1, <1>5, <1>6, <1>7, SumBound
<1>11. n * Share \in Int /\ m * Share \in Int
  BY <1>1, <1>7, CapacityAssumption
<1> HIDE DEF F, w, n, m
<1> QED  BY <1>4, <1>8, <1>9, <1>10, <1>11, SizeAssumption

-----------------------------------------------------------------------------
(* Types.                                                                  *)
Item   == Seq(Line) \cup Fd \cup {0}
Thread == [at : Label, fd : Fd \cup {0}, name : Seq(Line), text : Seq(Line), i : Nat, j : Entry,
           reg : Int, reached : Seq(Item), kept : SUBSET Entry]

\* The labels where i is an index of clients[].
Indexing == {"list", "push", "own?", "cast", "find", "shift?", "shift", "count-", "count-'"}
Listing  == {"list?", "list", "list!"}

ThreadOK(r) ==
  /\ r \in Thread
  /\ r.at \in Indexing => r.i \in Entry
  /\ r.reached \in Seq(IF r.at \in Listing THEN Seq(Line) ELSE Fd \cup {0})
  /\ r.at \in {"list?", "list"} => Len(r.reached) = r.i

ThreadsOK == /\ th \in [Conn -> Thread]
             /\ \A t \in Conn : ThreadOK(th[t])

\* The types of what is not private to a thread.
SharedOK ==
  /\ client \in [Conn -> {"away", "here", "gone", "reset"}]
  /\ \A c \in Conn : said[c] \in 0 .. MaxLines[c] /\ got[c] \in 0 .. said[c]
  /\ clients \in RosterType
  /\ currentClientCount \in Int
  /\ asked \in Seq(Seq(Line)) /\ answered \in Seq(Seq(Line))
  /\ helper \in {"up", "gone", "reset"}
  /\ process \in {"up", "killed", "overrun", "smashed"}
  /\ own \in BOOLEAN /\ serial \in BOOLEAN /\ crossed \in BOOLEAN

Types == SharedOK /\ ThreadsOK

(* A step gives one thread a new state; a store to clients[] also takes    *)
(* its place from what the others' loops have kept.                        *)
Gives(t, r) ==
  /\ th' \in [Conn -> Thread] /\ th'[t] = r
  /\ \A u \in Conn \ {t} : th'[u] = [th[u] EXCEPT !.kept = th'[u].kept]

(* A thread that takes a well-typed state leaves all threads well typed.   *)
LEMMA ThreadMoves ==
  ASSUME ThreadsOK, NEW t \in Conn, NEW r, ThreadOK(r), Become(t, r) \/ \E p : Disturb(t, r, p)
  PROVE  Gives(t, r) /\ ThreadsOK'
<1>1. r \in Thread /\ th \in [Conn -> Thread] /\ \A u \in Conn : ThreadOK(th[u])
  BY DEF ThreadsOK, ThreadOK
<1>2. \A u \in Conn : th[u] = [th[u] EXCEPT !.kept = th[u].kept]
  BY <1>1 DEF Thread
<1>3. CASE Become(t, r)
  <2>1. /\ th' \in [Conn -> Thread] /\ th'[t] = r /\ \A u \in Conn \ {t} : th'[u] = th[u]
    BY <1>1, <1>3 DEF Become
  <2>2. \A u \in Conn : ThreadOK(th'[u])
    BY <1>1, <2>1
  <2>3. \A u \in Conn \ {t} : th'[u] = [th[u] EXCEPT !.kept = th'[u].kept]
    BY <1>2, <2>1
  <2> QED  BY <2>1, <2>2, <2>3 DEF Gives, ThreadsOK, ThreadOK
<1>4. ASSUME NEW p, Disturb(t, r, p)
      PROVE  Gives(t, r) /\ ThreadsOK'
  <2>1. ASSUME NEW u \in Conn
        PROVE  LET q == [th[u] EXCEPT !.kept = @ \ {p}]
               IN  q \in Thread /\ ThreadOK(q) /\ q.kept = th[u].kept \ {p}
    BY <1>1 DEF Thread, ThreadOK
  <2>2. /\ th' \in [Conn -> Thread] /\ th'[t] = r
        /\ \A u \in Conn \ {t} : th'[u] = [th[u] EXCEPT !.kept = @ \ {p}]
    BY <1>1, <1>4, <2>1 DEF Disturb
  <2>3. ASSUME NEW u \in Conn \ {t}
        PROVE  th'[u].kept = th[u].kept \ {p} /\ ThreadOK(th'[u])
    BY <2>1, <2>2
  <2>4. \A u \in Conn \ {t} : th'[u] = [th[u] EXCEPT !.kept = th'[u].kept]
    BY <2>2, <2>3
  <2> QED  BY <2>2, <2>3, <2>4 DEF Gives, ThreadsOK, ThreadOK
<1> QED  BY <1>3, <1>4

(* A thread that goes on to a label where it is indexing nothing and is   *)
(* not in another kind of loop keeps its types.                            *)
LEMMA GotoOK ==
  ASSUME NEW r, ThreadOK(r), NEW l \in Label, l \in Listing <=> r.at \in Listing,
         l \in {"list?", "list"} => r.at \in {"list?", "list"},
         l \in Indexing => r.i \in Entry
  PROVE  ThreadOK([r EXCEPT !.at = l])
BY DEF ThreadOK, Thread

(* So does one that begins a loop over the roster, or takes its next turn. *)
LEMMA LoopOK ==
  ASSUME NEW r, ThreadOK(r), NEW l \in {"list?", "push?", "cast?"}
  PROVE  ThreadOK(Loop(r, l))
<1> DEFINE q == Loop(r, l)
<1>1. q = [r EXCEPT !.at = l, !.i = 0, !.reached = <<>>, !.kept = Entry]
  BY DEF Loop
<1>2. r \in Thread /\ <<>> \in Seq(Item) /\ l \in Label /\ 0 \in Nat
  BY DEF ThreadOK, Label
<1>3. /\ q \in Thread /\ q.at = l /\ q.i = 0 /\ q.reached = <<>>
  BY <1>1, <1>2 DEF Thread
<1>4. <<>> \in Seq(Seq(Line)) /\ <<>> \in Seq(Fd \cup {0}) /\ Len(<<>>) = 0
  OBVIOUS
<1> HIDE DEF q
<1>5. ThreadOK(q)
  BY <1>3, <1>4 DEF ThreadOK, Indexing, Listing
<1> QED  BY <1>5 DEF q

(* A thread that has dealt with one more entry is well typed.              *)
LEMMA ReachMore ==
  ASSUME NEW r, ThreadOK(r), NEW x, NEW l,
         \/ r.at = "list" /\ x \in Seq(Line) /\ l = "list?"
         \/ r.at = "push" /\ x \in Fd \cup {0} /\ l = "push?"
         \/ r.at = "cast" /\ x \in Fd \cup {0} /\ l = "cast?"
  PROVE  ThreadOK([r EXCEPT !.at = l, !.i = @ + 1, !.reached = Append(@, x)])
<1> DEFINE q == [r EXCEPT !.at = l, !.i = @ + 1, !.reached = Append(@, x)]
<1>1. r \in Thread /\ l \in Label /\ r.i + 1 \in Nat /\ x \in Item /\ r.reached \in Seq(Item)
  BY DEF ThreadOK, Thread, Label, Item
<1>2. Append(r.reached, x) \in Seq(Item) /\ Len(Append(r.reached, x)) = Len(r.reached) + 1
  BY <1>1, AppendProperties
<1>3. /\ q \in Thread /\ q.at = l /\ q.i = r.i + 1 /\ q.reached = Append(r.reached, x)
  BY <1>1, <1>2 DEF Thread
<1>4. CASE r.at = "list"
  <2>1. q.reached \in Seq(Seq(Line)) /\ Len(q.reached) = q.i
    BY <1>2, <1>3, <1>4, AppendProperties DEF ThreadOK, Listing
  <2> HIDE DEF q
  <2>2. ThreadOK(q)
    BY <1>3, <1>4, <2>1 DEF ThreadOK, Indexing, Listing
  <2> QED  BY <2>2 DEF q
<1>5. CASE r.at # "list"
  <2>1. q.reached \in Seq(Fd \cup {0})
    BY <1>2, <1>3, <1>5, AppendProperties DEF ThreadOK, Listing
  <2> HIDE DEF q
  <2>2. ThreadOK(q)
    BY <1>3, <1>5, <2>1 DEF ThreadOK, Indexing, Listing
  <2> QED  BY <2>2 DEF q
<1> QED  BY <1>4, <1>5

\* The state a step of t gives to it.
Stepped(t) == ThreadsOK' /\ \/ Gives(t, th'[t])
                            \/ th' = th /\ process' = "overrun"

(* The same, as the lemmas on the single steps need it.                    *)
LEMMA Steps ==
  ASSUME ThreadsOK, NEW t \in Conn, NEW r, ThreadOK(r), Become(t, r) \/ \E p : Disturb(t, r, p)
  PROVE  Stepped(t)
BY ThreadMoves DEF Stepped, Gives

(* Each step of a thread leaves every thread with values of its types.     *)
LEMMA HearsStep ==
  ASSUME Types, AskInv, NEW t \in Conn, RecvName(t) \/ RecvText(t)
  PROVE  Stepped(t)
<1> DEFINE r == th[t]
           c == file[r.fd]
<1>1. ThreadOK(r) /\ ThreadsOK /\ r.at \in {"name", "recv"} /\ r \in Thread
  BY DEF Types, ThreadsOK, ThreadOK, RecvName, RecvText
<1>2. c \in Conn \cup {None}
  BY <1>1 DEF AskInv, Typed, Descriptors, Connected
<1>3. ASSUME NEW l \in {"drop", "close"}, Goto(t, l)
      PROVE  Stepped(t)
  <2>1. ThreadOK([r EXCEPT !.at = l])
    BY <1>1, <1>3, GotoOK DEF Label, EditLabel, RemovalLabel, Listing, Indexing
  <2> HIDE DEF r
  <2> QED  BY <1>1, <1>3, <2>1, Steps DEF Goto, r
<1>4. ASSUME NEW n \in 1 .. said[c] - got[c], c \in Conn
      PROVE  [k \in 1 .. n |-> <<c, got[c] + k>>] \in Seq(Line)
  <2>1. said[c] \in 0 .. MaxLines[c] /\ got[c] \in 0 .. said[c] /\ MaxLines[c] \in Nat
    BY <1>4, LinesAssumption DEF Types, SharedOK
  <2>2. \A k \in 1 .. n : <<c, got[c] + k>> \in {c} \X (1 .. MaxLines[c])
    BY <2>1
  <2>3. \A k \in 1 .. n : <<c, got[c] + k>> \in Line
    BY <1>4, <2>2 DEF Line
  <2>4. n \in Nat
    BY <2>1
  <2> DEFINE new == [k \in 1 .. n |-> <<c, got[c] + k>>]
  <2>5. new \in [1 .. n -> Line]
    BY <2>3
  <2> HIDE DEF new
  <2>6. new \in Seq(Line)
    BY <2>4, <2>5
  <2> QED  BY <2>6 DEF new
<1>5. ASSUME NEW x \in Seq(Line), NEW q,
             \/ q = [r EXCEPT !.at = "slot", !["name"] = x]
             \/ q = [r EXCEPT !.at = "ask", !["text"] = x],
             Become(t, q)
      PROVE  Stepped(t)
  <2>1. /\ q \in Thread /\ q.at \in {"slot", "ask"} /\ q.reached = r.reached
    <3>1. {"slot", "ask"} \subseteq Label
      BY DEF Label, EditLabel
    <3> HIDE DEF r
    <3>2. CASE q = [r EXCEPT !.at = "slot", !["name"] = x]
      BY <1>1, <3>1, <3>2 DEF Thread
    <3>3. CASE q = [r EXCEPT !.at = "ask", !["text"] = x]
      BY <1>1, <3>1, <3>3 DEF Thread
    <3> QED  BY <1>5, <3>2, <3>3
  <2>2. ThreadOK(q)
    BY <1>1, <2>1 DEF ThreadOK, Indexing, Listing
  <2> QED  BY <1>1, <1>5, <2>2, Steps
<1>6. CASE RecvName(t)
  <2> SUFFICES ASSUME c # None, ~Goto(t, "drop") PROVE Stepped(t)
    BY <1>3, <1>6 DEF RecvName, Hears
  <2>1. PICK n \in 1 .. said[c] - got[c] :
          Become(t, [r EXCEPT !.at = "slot", !["name"] = [k \in 1 .. n |-> <<c, got[c] + k>>]])
    BY <1>6 DEF RecvName, Hears
  <2> HIDE DEF r, c
  <2> QED  BY <1>2, <1>4, <1>5, <2>1
<1>7. CASE RecvText(t)
  <2> SUFFICES ASSUME c # None, ~Goto(t, "close") PROVE Stepped(t)
    BY <1>3, <1>7 DEF RecvText, Hears
  <2>1. PICK n \in 1 .. said[c] - got[c] :
          Become(t, [r EXCEPT !.at = "ask", !["text"] = [k \in 1 .. n |-> <<c, got[c] + k>>]])
    BY <1>7 DEF RecvText, Hears
  <2> HIDE DEF r, c
  <2> QED  BY <1>2, <1>4, <1>5, <2>1
<1> QED  BY <1>6, <1>7

(* The condition of a loop.                                                *)
LEMMA WhileStep ==
  ASSUME Types, NEW t \in Conn, NEW from, NEW body, NEW after, While(t, from, body, after),
         \/ from = "list?" /\ body = "list" /\ after = "list!"
         \/ from = "push?" /\ body = "push" /\ after = "recv"
         \/ from = "cast?" /\ body = "own?" /\ after = "recv"
         \/ from = "find?" /\ body = "find" /\ after = "exit"
  PROVE  Stepped(t)
<1> DEFINE r == th[t]
<1>1. ThreadOK(r) /\ ThreadsOK
  BY DEF Types, ThreadsOK
<1>2. CASE th' = th
  <2>1. ThreadsOK'
    BY <1>1, <1>2 DEF ThreadsOK
  <2>2. Goto(t, body) \/ Goto(t, after) \/ process' = "overrun"
    BY DEF While
  <2>3. CASE process' = "overrun"
    BY <1>2, <2>1, <2>3 DEF Stepped
  <2>4. CASE Goto(t, body) \/ Goto(t, after)
    <3>1. th'[t].at # th[t].at
      BY <1>1, <2>4 DEF While, Goto, Become, ThreadsOK, ThreadOK, Thread
    <3> QED  BY <1>2, <3>1
  <2> QED  BY <2>2, <2>3, <2>4
<1>3. ASSUME NEW l, Goto(t, l), l = after \/ (l = body /\ r.i \in Entry)
      PROVE  Stepped(t)
  <2>1. ThreadOK([r EXCEPT !.at = l])
    BY <1>1, <1>3, GotoOK DEF While, Label, EditLabel, RemovalLabel, Listing, Indexing
  <2> HIDE DEF r
  <2> QED  BY <1>1, <1>3, <2>1, Steps DEF Goto, r
<1> QED  BY <1>2, <1>3 DEF While

(* A send to the socket in an entry.                                       *)
LEMMA SendToEntryStep ==
  ASSUME Types, NEW t \in Conn, NEW from, NEW next, SendToEntry(t, from, next),
         \/ from = "push" /\ next = "push?"
         \/ from = "cast" /\ next = "cast?"
  PROVE  Stepped(t)
<1> DEFINE r == th[t]
           f == clients[r.i].socket
<1>1. ThreadOK(r) /\ ThreadsOK /\ r.i \in Entry /\ r.at = from
  BY DEF Types, ThreadsOK, ThreadOK, Indexing, SendToEntry
<1>2. f \in Fd \cup {0}
  BY <1>1 DEF Types, SharedOK, RosterType
<1>3. ThreadOK([r EXCEPT !.at = next, !.i = @ + 1, !.reached = Append(@, f)])
  <2> HIDE DEF r, f
  <2> QED  BY <1>1, <1>2, ReachMore
<1>4. Become(t, [r EXCEPT !.at = next, !.i = @ + 1, !.reached = Append(@, f)])
  BY DEF SendToEntry
<1> HIDE DEF r, f
<1> QED  BY <1>1, <1>3, <1>4, Steps

(* A name copied into listOfClients.                                       *)
LEMMA CopyNameStep ==
  ASSUME Types, NEW t \in Conn, CopyName(t)
  PROVE  Stepped(t)
<1> DEFINE r == th[t]
           x == clients[r.i].name
<1>1. ThreadOK(r) /\ ThreadsOK /\ r.i \in Entry /\ r.at = "list"
  BY DEF Types, ThreadsOK, ThreadOK, Indexing, CopyName
<1>2. x \in Seq(Line)
  BY <1>1 DEF Types, SharedOK, RosterType
<1>3. ThreadOK([r EXCEPT !.at = "list?", !.i = @ + 1, !.reached = Append(@, x)])
  <2> HIDE DEF r, x
  <2> QED  BY <1>1, <1>2, ReachMore
<1>4. Become(t, [r EXCEPT !.at = "list?", !.i = @ + 1, !.reached = Append(@, x)])
  <2>1. Become(t, [r EXCEPT !.at = "list?", !.i = @ + 1, !.reached = Append(r.reached, x)])
    BY DEF CopyName
  <2> QED  BY <2>1
<1> HIDE DEF r, x
<1> QED  BY <1>1, <1>3, <1>4, Steps

(* Registration and removal.                                               *)
LEMMA RegistrationStep ==
  ASSUME Types, NEW t \in Conn, LoadSlot(t) \/ FillSlot(t) \/ LoadCount(t) \/ StoreCountUp(t)
  PROVE  Stepped(t)
<1> DEFINE r == th[t]
<1>1. ThreadOK(r) /\ ThreadsOK /\ r \in Thread
  BY DEF Types, ThreadsOK, ThreadOK
<1>2. CASE LoadSlot(t)
  <2> DEFINE q == [r EXCEPT !.at = "fill", !.reg = currentClientCount]
  <2>1. ThreadOK(q)
    BY <1>1, <1>2 DEF LoadSlot, Types, SharedOK, ThreadOK, Thread, Indexing, Listing, Label, EditLabel
  <2>2. Become(t, q)
    BY <1>2 DEF LoadSlot
  <2> HIDE DEF q
  <2> QED  BY <1>1, <2>1, <2>2, Steps
<1>3. CASE FillSlot(t)
  <2> DEFINE q == [r EXCEPT !.at = "count+"]
  <2>1. ThreadOK(q)
    BY <1>1, <1>3 DEF FillSlot, ThreadOK, Thread, Indexing, Listing, Label, EditLabel
  <2>2. CASE Disturb(t, q, r.reg)
    <3> HIDE DEF q
    <3> QED  BY <1>1, <2>1, <2>2, Steps
  <2>3. CASE th' = th /\ process' = "overrun"
    BY <1>1, <2>3 DEF Stepped, ThreadsOK
  <2> QED  BY <1>3, <2>2, <2>3 DEF FillSlot
<1>4. CASE LoadCount(t)
  <2> DEFINE q == [r EXCEPT !.at = IF @ = "count+" THEN "count+'" ELSE "count-'", !.reg = currentClientCount]
  <2>1. ThreadOK(q)
    BY <1>1, <1>4 DEF LoadCount, Types, SharedOK, ThreadOK, Thread, Indexing, Listing, Label, EditLabel, RemovalLabel
  <2>2. Become(t, q)
    BY <1>4 DEF LoadCount
  <2> HIDE DEF q
  <2> QED  BY <1>1, <2>1, <2>2, Steps
<1>5. CASE StoreCountUp(t)
  <2>1. ThreadOK(Loop(r, "list?"))
    BY <1>1, LoopOK
  <2>2. Become(t, Loop(r, "list?"))
    BY <1>5 DEF StoreCountUp
  <2> HIDE DEF r
  <2> QED  BY <1>1, <2>1, <2>2, Steps
<1> QED  BY <1>2, <1>3, <1>4, <1>5

(* The steps of a removal.                                                 *)
LEMMA RemovalStep ==
  ASSUME Types, NEW t \in Conn, RemoveClient(t)
  PROVE  Stepped(t)
<1> DEFINE r == th[t]
<1>1. ThreadOK(r) /\ ThreadsOK /\ r \in Thread
  BY DEF Types, ThreadsOK, ThreadOK
<1> USE DEF ThreadOK, Thread, Indexing, Listing, Label, EditLabel, RemovalLabel
<1>2. CASE Close(t)
  <2> DEFINE q == [r EXCEPT !.at = "find?", !.i = 0]
  <2>1. ThreadOK(q)
    BY <1>1, <1>2 DEF Close
  <2>2. Become(t, q)
    BY <1>2 DEF Close
  <2> HIDE DEF q, ThreadOK
  <2> QED  BY <1>1, <2>1, <2>2, Steps
<1>3. CASE Find(t)
  <2> DEFINE q1 == [r EXCEPT !.at = "shift?", !.j = th[t].i]
             q2 == [r EXCEPT !.at = "find?", !.i = @ + 1]
  <2>0. r.i + 1 \in Nat /\ r.i \in Entry /\ r.at = "find"
    BY <1>1, <1>3 DEF Find
  <2>1. ThreadOK(q1) /\ ThreadOK(q2)
    <3>1. q1 \in Thread /\ q1.at = "shift?" /\ q1.i = r.i /\ q1.reached = r.reached
      BY <1>1, <2>0
    <3>2. q2 \in Thread /\ q2.at = "find?" /\ q2.reached = r.reached
      BY <1>1, <2>0
    <3> HIDE DEF q1, q2
    <3> QED  BY <1>1, <2>0, <3>1, <3>2
  <2>2. Become(t, q1) \/ Become(t, q2)
    BY <1>3 DEF Find
  <2> HIDE DEF q1, q2, ThreadOK
  <2> QED  BY <1>1, <2>1, <2>2, Steps
<1>4. CASE ShiftOrNot(t)
  <2> DEFINE q(l) == [r EXCEPT !.at = l]
  <2>1. ThreadOK(q("shift")) /\ ThreadOK(q("count-"))
    BY <1>1, <1>4 DEF ShiftOrNot
  <2>2. Become(t, q("shift")) \/ Become(t, q("count-"))
    BY <1>4 DEF ShiftOrNot, Goto
  <2> HIDE DEF q, ThreadOK
  <2> QED  BY <1>1, <2>1, <2>2, Steps
<1>5. CASE Shift(t)
  <2> DEFINE q == [r EXCEPT !.at = "shift?", !.j = @ + 1]
  <2>1. CASE r.j + 1 \in Entry
    <3>1. ThreadOK(q)
      BY <1>1, <1>5, <2>1 DEF Shift
    <3>2. Disturb(t, q, r.j)
      BY <1>5, <2>1 DEF Shift
    <3> HIDE DEF q, ThreadOK
    <3> QED  BY <1>1, <3>1, <3>2, Steps
  <2>2. CASE r.j + 1 \notin Entry
    BY <1>1, <1>5, <2>2 DEF Shift, Stepped, ThreadsOK
  <2> QED  BY <2>1, <2>2
<1>6. CASE StoreCountDown(t)
  <2> DEFINE q == [r EXCEPT !.at = "find?", !.i = @ + 1]
  <2>1. ThreadOK(q)
    <3>1. r.i + 1 \in Nat /\ r.at = "count-'"
      BY <1>1, <1>6 DEF StoreCountDown
    <3>2. q \in Thread /\ q.at = "find?" /\ q.reached = r.reached
      BY <1>1, <3>1
    <3> HIDE DEF q
    <3> QED  BY <1>1, <3>1, <3>2
  <2>2. Become(t, q)
    BY <1>6 DEF StoreCountDown
  <2> HIDE DEF q, ThreadOK
  <2> QED  BY <1>1, <2>1, <2>2, Steps
<1>7. CASE While(t, "find?", "find", "exit")
  BY <1>7, WhileStep
<1> QED  BY <1>2, <1>3, <1>4, <1>5, <1>6, <1>7 DEF RemoveClient

(* Every step of a thread leaves the threads well typed.                   *)
LEMMA ThreadStep ==
  ASSUME Types, AskInv, NEW t \in Conn, clientThreadSplitFunction(t)
  PROVE  Stepped(t)
<1> DEFINE r == th[t]
<1>1. ThreadOK(r) /\ ThreadsOK /\ r \in Thread
  BY DEF Types, ThreadsOK, ThreadOK
<1>2. CASE Start(t)
  <2> DEFINE q == [r EXCEPT !.at = "name", !.fd = client_socket]
  <2>1. ThreadOK(q)
    BY <1>1, <1>2 DEF Start, AskInv, Typed, ThreadOK, Thread, Indexing, Listing, Label
  <2>2. Become(t, q)
    BY <1>2 DEF Start
  <2> HIDE DEF q
  <2> QED  BY <1>1, <2>1, <2>2, Steps
<1>3. CASE RecvName(t) \/ RecvText(t)
  BY <1>3, HearsStep
<1>4. CASE Drop(t)
  <2>1. ThreadOK([r EXCEPT !.at = "exit"])
    BY <1>1, <1>4, GotoOK DEF Drop, Label, Listing, Indexing
  <2>2. Become(t, [r EXCEPT !.at = "exit"])
    BY <1>4 DEF Drop, Goto
  <2> HIDE DEF r
  <2> QED  BY <1>1, <2>1, <2>2, Steps
<1>5. CASE LoadSlot(t) \/ FillSlot(t) \/ LoadCount(t) \/ StoreCountUp(t)
  BY <1>5, RegistrationStep
<1>6. CASE outputConnectedClients(t)
  <2>1. CASE SendList(t)
    <3>1. ThreadOK(Loop(r, "push?"))
      BY <1>1, LoopOK
    <3>2. Become(t, Loop(r, "push?"))
      BY <2>1 DEF SendList
    <3> HIDE DEF r
    <3> QED  BY <1>1, <3>1, <3>2, Steps
  <2> QED  BY <1>6, <2>1, WhileStep, CopyNameStep DEF outputConnectedClients
<1>7. CASE newClientJoinedPush(t)
  BY <1>7, WhileStep, SendToEntryStep DEF newClientJoinedPush
<1>8. CASE AskHelper(t)
  <2>1. ThreadOK([r EXCEPT !.at = "answer"])
    BY <1>1, <1>8, GotoOK DEF AskHelper, Label, Listing, Indexing
  <2>2. Become(t, [r EXCEPT !.at = "answer"])
    BY <1>8 DEF AskHelper, Goto
  <2> HIDE DEF r
  <2> QED  BY <1>1, <2>1, <2>2, Steps
<1>9. CASE HearHelper(t)
  <2>1. PICK n \in 0 .. Len(answered) :
          Become(t, [Loop(r, "cast?") EXCEPT !.text = FlattenSeq(SubSeq(answered, 1, n))])
    BY <1>9 DEF HearHelper
  <2> DEFINE x == FlattenSeq(SubSeq(answered, 1, n))
             p == Loop(r, "cast?")
             q == [p EXCEPT !.text = x]
  <2>2. SubSeq(answered, 1, n) \in Seq(Seq(Line))
    <3>1. \A k \in 1 .. n : answered[k] \in Seq(Line)
      BY DEF Types, SharedOK
    <3> QED  BY <3>1, SubSeqProperties DEF Types, SharedOK
  <2>3. x \in Seq(Line)
    BY <2>2, FlattenType
  <2>4. ThreadOK(p)
    BY <1>1, LoopOK
  <2> HIDE DEF x, p
  <2>5. ThreadOK(q)
    BY <2>3, <2>4 DEF ThreadOK, Thread
  <2> HIDE DEF q
  <2>6. Become(t, q)
    BY <2>1 DEF q, p, x
  <2> QED  BY <1>1, <2>5, <2>6, Steps
<1>10. CASE sendPublicMessage(t)
  <2>1. CASE SkipOwn(t)
    <3> DEFINE q == [r EXCEPT !.at = "cast?", !.i = @ + 1]
    <3>1. ThreadOK(q) /\ ThreadOK([r EXCEPT !.at = "cast"])
      <4>1. r.i + 1 \in Nat /\ r.at = "own?" /\ r.i \in Entry
        BY <1>1, <2>1 DEF SkipOwn, ThreadOK, Thread, Indexing
      <4>2. q \in Thread /\ q.at = "cast?" /\ q.reached = r.reached
        BY <1>1, <4>1 DEF Thread, Label
      <4>3. ThreadOK([r EXCEPT !.at = "cast"])
        BY <1>1, <4>1, GotoOK DEF Label, Listing, Indexing
      <4> HIDE DEF q
      <4> QED  BY <1>1, <4>1, <4>2, <4>3 DEF ThreadOK, Indexing, Listing
    <3>2. Become(t, q) \/ Become(t, [r EXCEPT !.at = "cast"])
      BY <2>1 DEF SkipOwn, Goto
    <3> HIDE DEF q, r
    <3> QED  BY <1>1, <3>1, <3>2, Steps
  <2> QED  BY <1>10, <2>1, WhileStep, SendToEntryStep DEF sendPublicMessage
<1>11. CASE RemoveClient(t)
  BY <1>11, RemovalStep
<1> QED  BY <1>2, <1>3, <1>4, <1>5, <1>6, <1>7, <1>8, <1>9, <1>10, <1>11
         DEF clientThreadSplitFunction

(* What a step of a thread stores in shared variables has its type, too.   *)
LEMMA SendsOK ==
  ASSUME SharedOK, NEW f, Sends(f)
  PROVE  /\ client' \in [Conn -> {"away", "here", "gone", "reset"}]
         /\ process' \in {"up", "killed", "overrun", "smashed"}
<1> DEFINE c == IF f \in Fd THEN file[f] ELSE None
<1>1. CASE c # None /\ client[c] = "gone"
  <2>1. client' = [client EXCEPT ![c] = "reset"] /\ process' = process
    BY <1>1 DEF Sends
  <2> HIDE DEF c
  <2> QED  BY <2>1 DEF SharedOK
<1>2. CASE c # None /\ client[c] = "reset"
  BY <1>2 DEF Sends, SharedOK
<1>3. CASE ~(c # None /\ client[c] = "gone") /\ ~(c # None /\ client[c] = "reset")
  BY <1>3 DEF Sends, SharedOK
<1> QED  BY <1>1, <1>2, <1>3

(* It leaves the shared variables well typed, too.                         *)
LEMMA SharedStep ==
  ASSUME Types, AskInv, NEW t \in Conn, clientThreadSplitFunction(t)
  PROVE  SharedOK'
<1> USE DEF peers, mains, roster, link, history
<1>0. /\ SharedOK /\ ThreadsOK /\ ThreadOK(th[t]) /\ th[t] \in Thread /\ UNCHANGED said
      /\ th[t].fd \in Fd \cup {0} /\ th[t].name \in Seq(Line) /\ th[t].text \in Seq(Line)
      /\ th[t].reg \in Int /\ th[t].j \in Entry
  BY DEF Types, ThreadsOK, ThreadOK, Thread, clientThreadSplitFunction
<1>1. CASE Start(t)
  BY <1>0, <1>1 DEF Start, SharedOK
<1>2. CASE RecvName(t) \/ RecvText(t)
  <2>1. UNCHANGED <<client, clients, currentClientCount, asked, answered, helper, process, own, crossed>>
    BY <1>2 DEF RecvName, RecvText, Hears
  <2>2. serial' \in BOOLEAN
    BY <1>0, <1>2 DEF RecvName, RecvText, SharedOK
  <2>3. \A c \in Conn : got'[c] \in 0 .. said[c]
    <3>1. CASE got' = got
      BY <1>0, <3>1 DEF SharedOK
    <3>2. CASE got' # got
      <4> DEFINE c == file[th[t].fd]
      <4>1. c # None /\ c \in Conn
        <5>1. th[t].fd \in Fd
          BY <1>2 DEF AskInv, Descriptors, Connected, RecvName, RecvText
        <5>2. c # None
          BY <1>2, <3>2 DEF RecvName, RecvText, Hears
        <5> QED  BY <5>1, <5>2 DEF AskInv, Typed
      <4>2. PICK n \in 1 .. said[c] - got[c] : got' = [got EXCEPT ![c] = @ + n]
        BY <1>2, <3>2 DEF RecvName, RecvText, Hears
      <4>3. got \in [Conn -> Nat] /\ said \in [Conn -> Nat]
        BY DEF AskInv, Typed
      <4> HIDE DEF c
      <4> QED  BY <1>0, <4>1, <4>2, <4>3 DEF SharedOK
    <3> QED  BY <3>1, <3>2
  <2> QED  BY <1>0, <2>1, <2>2, <2>3 DEF SharedOK
<1>3. CASE Drop(t) \/ Close(t)
  BY <1>0, <1>3 DEF Drop, Close, SharedOK
<1>4. CASE FillSlot(t)
  <2>1. UNCHANGED <<client, got, currentClientCount, asked, answered, helper, own, serial, crossed>>
    BY <1>4 DEF FillSlot
  <2>2. clients' \in RosterType
    <3>1. CASE th[t].reg \in Entry
      <4>1. clients' = [clients EXCEPT ![th[t].reg] = [socket |-> th[t].fd, name |-> th[t].name]]
        BY <1>4, <3>1 DEF FillSlot
      <4> QED  BY <1>0, <3>1, <4>1 DEF SharedOK, RosterType
    <3>2. CASE th[t].reg \notin Entry
      BY <1>0, <1>4, <3>2 DEF FillSlot, SharedOK
    <3> QED  BY <3>1, <3>2
  <2>3. process' \in {"up", "killed", "overrun", "smashed"}
    BY <1>0, <1>4 DEF FillSlot, SharedOK
  <2> QED  BY <1>0, <2>1, <2>2, <2>3 DEF SharedOK
<1>5. CASE Shift(t)
  <2>1. UNCHANGED <<client, got, currentClientCount, asked, answered, helper, own, serial, crossed>>
    BY <1>5 DEF Shift
  <2>2. clients' \in RosterType
    <3>1. CASE th[t].j + 1 \in Entry
      <4>1. clients' = [clients EXCEPT ![th[t].j] = clients[th[t].j + 1]]
        BY <1>5, <3>1 DEF Shift
      <4> QED  BY <1>0, <3>1, <4>1 DEF SharedOK, RosterType
    <3>2. CASE th[t].j + 1 \notin Entry
      BY <1>0, <1>5, <3>2 DEF Shift, SharedOK
    <3> QED  BY <3>1, <3>2
  <2>3. process' \in {"up", "killed", "overrun", "smashed"}
    BY <1>0, <1>5 DEF Shift, SharedOK
  <2> QED  BY <1>0, <2>1, <2>2, <2>3 DEF SharedOK
<1>6. CASE LoadSlot(t) \/ LoadCount(t) \/ Find(t) \/ ShiftOrNot(t) \/ SkipOwn(t)
  BY <1>0, <1>6 DEF LoadSlot, LoadCount, Find, ShiftOrNot, SkipOwn, SharedOK
<1>7. CASE StoreCountUp(t) \/ StoreCountDown(t)
  BY <1>0, <1>7 DEF StoreCountUp, StoreCountDown, OneFewer, SharedOK
<1>8. CASE CopyName(t)
  BY <1>0, <1>8 DEF CopyName, SharedOK
<1>9. CASE SendList(t) \/ SendToEntry(t, "push", "push?") \/ SendToEntry(t, "cast", "cast?")
  <2>1. UNCHANGED <<got, clients, currentClientCount, asked, answered, helper, own, serial, crossed>>
    BY <1>9 DEF SendList, SendToEntry
  <2>2. \E f : Sends(f)
    BY <1>9 DEF SendList, SendToEntry
  <2> QED  BY <1>0, <2>1, <2>2, SendsOK DEF SharedOK
<1>10. CASE \/ While(t, "list?", "list", "list!") \/ While(t, "push?", "push", "recv")
            \/ While(t, "cast?", "own?", "recv") \/ While(t, "find?", "find", "exit")
  BY <1>0, <1>10 DEF While, SharedOK
<1>11. CASE AskHelper(t)
  <2>1. UNCHANGED <<client, got, clients, currentClientCount, answered, own, serial>>
    BY <1>11 DEF AskHelper
  <2>2. asked' \in Seq(Seq(Line))
    <3>1. Append(asked, th[t].text) \in Seq(Seq(Line)) /\ asked \in Seq(Seq(Line))
      BY <1>0, AppendProperties DEF SharedOK
    <3>2. asked' = Append(asked, th[t].text) \/ asked' = asked
      BY <1>11 DEF AskHelper
    <3> QED  BY <3>1, <3>2
  <2>3. /\ helper' \in {"up", "gone", "reset"} /\ crossed' \in BOOLEAN
        /\ process' \in {"up", "killed", "overrun", "smashed"}
    BY <1>0, <1>11 DEF AskHelper, SharedOK
  <2> QED  BY <1>0, <2>1, <2>2, <2>3 DEF SharedOK
<1>12. CASE HearHelper(t)
  <2>1. UNCHANGED <<client, got, clients, currentClientCount, asked, helper, process, own, serial, crossed>>
    BY <1>12 DEF HearHelper
  <2>2. PICK n \in 0 .. Len(answered) : answered' = SubSeq(answered, n + 1, Len(answered))
    BY <1>12 DEF HearHelper, AnswersBeyond
  <2>3. answered' \in Seq(Seq(Line))
    BY <1>0, <2>2, SubSeqProperties DEF SharedOK
  <2> QED  BY <1>0, <2>1, <2>3 DEF SharedOK
<1> QED  BY <1>1, <1>2, <1>3, <1>4, <1>5, <1>6, <1>7, <1>8, <1>9, <1>10, <1>11, <1>12
         DEF clientThreadSplitFunction, outputConnectedClients, newClientJoinedPush,
             sendPublicMessage, RemoveClient

(* A step of nobody's thread.                                              *)
LEMMA ThreadsStay ==
  ASSUME ThreadsOK, th' = th
  PROVE  ThreadsOK'
BY DEF ThreadsOK

(* main creates a thread, which is the only thing it does to threads.      *)
LEMMA AdmitTypes ==
  ASSUME Types, AskInv, Admit
  PROVE  ThreadsOK' /\ \/ th' = th
                       \/ /\ main \in Conn /\ th[main].at = "none"
                          /\ Gives(main, [th[main] EXCEPT !.at = "start"])
<1>1. main \in Conn /\ ThreadsOK /\ th \in [Conn -> Thread] /\ ThreadOK(th[main]) /\ th[main].at = "none"
  BY DEF Admit, AskInv, Typed, Descriptors, Types, ThreadsOK
<1> DEFINE q == [th[main] EXCEPT !.at = "start"]
<1>2. CASE th' = th
  BY <1>1, <1>2, ThreadsStay
<1>3. CASE th' = [th EXCEPT ![main].at = "start"]
  <2>1. ThreadOK(q)
    BY <1>1, GotoOK DEF Label, Listing, Indexing
  <2>2. Become(main, q)
    BY <1>3 DEF Become
  <2> HIDE DEF q
  <2>3. Gives(main, q) /\ ThreadsOK'
    BY <1>1, <2>1, <2>2, ThreadMoves
  <2> QED  BY <1>1, <2>3 DEF q
<1> QED  BY <1>2, <1>3 DEF Admit

(* The types are inductive, given AskInv for the descriptors.              *)
LEMMA TypesStep ==
  ASSUME Types, AskInv, [Next]_vars
  PROVE  Types'
<1> USE DEF peers, mains, roster, link, history
<1>0. SharedOK /\ ThreadsOK
  BY DEF Types
<1>1. ASSUME NEW c \in Conn, Connect(c) \/ Say(c) \/ Leave(c)
      PROVE  Types'
  <2>1. th' = th /\ UNCHANGED <<got, roster, link, process, history>>
    BY <1>1 DEF Connect, Say, Leave
  <2>2. client' \in [Conn -> {"away", "here", "gone", "reset"}]
    BY <1>0, <1>1 DEF Connect, Say, Leave, SharedOK
  <2>3. \A d \in Conn : said'[d] \in 0 .. MaxLines[d] /\ got[d] \in 0 .. said'[d]
    <3>1. CASE said' = said
      BY <1>0, <3>1 DEF SharedOK
    <3>2. CASE Say(c)
      <4>1. /\ said \in [Conn -> Nat] /\ said[c] < MaxLines[c] /\ MaxLines[c] \in Nat
            /\ said' = [said EXCEPT ![c] = said[c] + 1]
        BY <3>2, LinesAssumption DEF Say, AskInv, Typed
      <4>2. \A d \in Conn : got[d] \in 0 .. said[d] /\ said[d] \in 0 .. MaxLines[d]
        BY <1>0 DEF SharedOK
      <4>3. \A d \in Conn : said'[d] = IF d = c THEN said[d] + 1 ELSE said[d]
        BY <4>1
      <4> QED  BY <4>1, <4>2, <4>3
    <3> QED  BY <1>1, <3>1, <3>2 DEF Connect, Leave
  <2> QED  BY <1>0, <2>1, <2>2, <2>3, ThreadsStay DEF Types, SharedOK
<1>2. CASE HelperAnswers
  <2>1. th' = th /\ UNCHANGED <<client, got, peers, roster, helper, process, history>>
    BY <1>2 DEF HelperAnswers
  <2>2. PICK n \in 1 .. Len(asked) :
          /\ answered' = Append(answered, FlattenSeq(SubSeq(asked, 1, n)))
          /\ asked' = SubSeq(asked, n + 1, Len(asked))
    BY <1>2 DEF HelperAnswers
  <2>3. SubSeq(asked, 1, n) \in Seq(Seq(Line)) /\ asked' \in Seq(Seq(Line))
    <3>1. asked \in Seq(Seq(Line)) /\ Len(asked) \in Nat
      BY <1>0 DEF SharedOK
    <3>2. \A k \in 1 .. Len(asked) : asked[k] \in Seq(Line)
      BY <3>1
    <3>3. SubSeq(asked, 1, n) \in Seq(Seq(Line))
      BY <3>1, <3>2, SubSeqProperties
    <3>4. SubSeq(asked, n + 1, Len(asked)) \in Seq(Seq(Line))
      BY <3>1, <3>2, SubSeqProperties
    <3> QED  BY <2>2, <3>3, <3>4
  <2>4. FlattenSeq(SubSeq(asked, 1, n)) \in Seq(Line)
    BY <2>3, FlattenType
  <2>5. answered' \in Seq(Seq(Line))
    BY <1>0, <2>2, <2>4, AppendProperties DEF SharedOK
  <2> QED  BY <1>0, <2>1, <2>3, <2>5, ThreadsStay DEF Types, SharedOK
<1>3. CASE HelperDies
  <2>1. th' = th /\ UNCHANGED <<client, got, peers, roster, answered, process, history>>
    BY <1>3 DEF HelperDies
  <2>2. asked' \in Seq(Seq(Line)) /\ helper' \in {"up", "gone", "reset"}
    BY <1>3 DEF HelperDies
  <2> QED  BY <1>0, <2>1, <2>2, ThreadsStay DEF Types, SharedOK
<1>4. CASE Accept
  <2>1. th' = th /\ UNCHANGED <<client, said, got, roster, link, process, history>>
    BY <1>4 DEF Accept
  <2> QED  BY <1>0, <2>1, ThreadsStay DEF Types, SharedOK
<1>5. CASE Admit
  <2>1. UNCHANGED <<client, got, peers, roster, link, process, history>>
    BY <1>5 DEF Admit
  <2>2. ThreadsOK'
    BY <1>5, AdmitTypes
  <2> QED  BY <1>0, <2>1, <2>2 DEF Types, SharedOK
<1>6. ASSUME NEW t \in Conn, clientThreadSplitFunction(t)
      PROVE  Types'
  BY <1>6, ThreadStep, SharedStep DEF Types, Stepped
<1>7. CASE UNCHANGED vars
  BY <1>0, <1>7, ThreadsStay DEF Types, SharedOK, vars
<1> QED  BY <1>1, <1>2, <1>3, <1>4, <1>5, <1>6, <1>7 DEF Next

(* They hold at the start.                                                 *)
LEMMA TypesInit ==
  ASSUME Init
  PROVE  Types
<1>1. ThreadOK(Idle)
  <2>1. Idle \in Thread
    BY CapacityAssumption DEF Idle, Thread, Label, Entry
  <2>2. Idle.at = "none" /\ Idle.reached = <<>>
    BY DEF Idle
  <2> QED  BY <2>1, <2>2 DEF ThreadOK, Indexing, Listing
<1>2. ThreadsOK
  BY <1>1 DEF Init, ThreadsOK, ThreadOK
<1>3. clients \in RosterType
  BY DEF Init, RosterType
<1>4. SharedOK
  <2>1. \A c \in Conn : said[c] \in 0 .. MaxLines[c] /\ got[c] \in 0 .. said[c]
    BY LinesAssumption DEF Init
  <2>2. asked \in Seq(Seq(Line)) /\ answered \in Seq(Seq(Line))
    BY DEF Init
  <2>3. client \in [Conn -> {"away", "here", "gone", "reset"}]
    BY DEF Init
  <2>4. /\ currentClientCount = 0 /\ helper = "up" /\ process = "up"
        /\ own = TRUE /\ serial = TRUE /\ crossed = FALSE
    BY DEF Init
  <2>5. /\ currentClientCount \in Int /\ helper \in {"up", "gone", "reset"}
        /\ process \in {"up", "killed", "overrun", "smashed"}
    BY <2>4
  <2>6. own \in BOOLEAN /\ serial \in BOOLEAN /\ crossed \in BOOLEAN
    BY <2>4
  <2> QED  BY <1>3, <2>1, <2>2, <2>3, <2>5, <2>6, Zenon DEF SharedOK
<1> QED  BY <1>2, <1>4 DEF Types

-----------------------------------------------------------------------------
(* currentClientCount.  Every value that it takes, or that a thread has    *)
(* loaded in order to add one or take one off, comes from at most one      *)
(* addition by each thread, and one subtraction by each thread for each    *)
(* place it has looked at in the array: threads that race can lose these,  *)
(* and bring old values back, but add nothing.                             *)
Past == {t \in Conn : th[t].at \notin {"none", "start", "name", "drop", "slot", "fill", "count+", "count+'"}}
Taken == {x \in Conn \X Entry :
            /\ th[x[1]].at \in (RemovalLabel \ {"close"}) \cup {"exit"}
            /\ x[2] < th[x[1]].i}

Counted(n) == n \in Int /\ -Cardinality(Taken) =< n /\ n =< Cardinality(Past)

Counts ==
  /\ Counted(currentClientCount)
  /\ \A t \in Conn : th[t].at \in {"count+'", "count-'"} => Counted(th[t].reg)

\* The two sets are finite, and bounded by the number of clients and places.
LEMMA CountedSets ==
  /\ IsFiniteSet(Conn) /\ IsFiniteSet(Conn \X Entry) /\ IsFiniteSet(Past) /\ IsFiniteSet(Taken)
  /\ Cardinality(Past) \in Nat /\ Cardinality(Taken) \in Nat
  /\ Cardinality(Past) =< Cardinality(Conn) /\ Cardinality(Conn) \in Nat
  /\ Cardinality(Taken) =< Cardinality(Conn) * MAXIMUM_CONNECTED_CLIENTS
<1>1. IsFiniteSet(Conn) /\ Cardinality(Conn) \in Nat
  BY ConnAssumption, FS_CardinalityType
<1>2. Past \subseteq Conn /\ Taken \subseteq Conn \X Entry
  BY DEF Past, Taken
<1>3. IsFiniteSet(Entry) /\ Cardinality(Entry) = MAXIMUM_CONNECTED_CLIENTS
  <2>1. 0 \in Int /\ MAXIMUM_CONNECTED_CLIENTS - 1 \in Int /\ ~(0 > MAXIMUM_CONNECTED_CLIENTS - 1)
    BY CapacityAssumption
  <2>2. MAXIMUM_CONNECTED_CLIENTS - 1 - 0 + 1 = MAXIMUM_CONNECTED_CLIENTS
    BY CapacityAssumption
  <2> QED  BY <2>1, <2>2, FS_Interval DEF Entry
<1>4. /\ IsFiniteSet(Conn \X Entry)
      /\ Cardinality(Conn \X Entry) = Cardinality(Conn) * MAXIMUM_CONNECTED_CLIENTS
  BY <1>1, <1>3, FS_Product
<1>5. /\ IsFiniteSet(Past) /\ Cardinality(Past) =< Cardinality(Conn)
      /\ IsFiniteSet(Taken) /\ Cardinality(Taken) =< Cardinality(Conn \X Entry)
  BY <1>1, <1>2, <1>4, FS_Subset
<1> QED  BY <1>1, <1>4, <1>5, FS_CardinalityType

(* The sets only grow, which keeps every value counted.                    *)
LEMMA CountedGrows ==
  ASSUME Past \subseteq Past', Taken \subseteq Taken', NEW n, Counted(n)
  PROVE  Counted(n)'
<1> SUFFICES n \in Int /\ -Cardinality(Taken') =< n /\ n =< Cardinality(Past')
  BY DEF Counted
<1>1. /\ IsFiniteSet(Past') /\ IsFiniteSet(Taken')
      /\ Cardinality(Past') \in Nat /\ Cardinality(Taken') \in Nat
  <2>1. Past' \subseteq Conn /\ Taken' \subseteq Conn \X Entry
    BY DEF Past, Taken
  <2>2. IsFiniteSet(Past') /\ IsFiniteSet(Taken')
    BY <2>1, CountedSets, FS_Subset
  <2> QED  BY <2>2, FS_CardinalityType
<1>2. Cardinality(Past) =< Cardinality(Past') /\ Cardinality(Taken) =< Cardinality(Taken')
  BY <1>1, FS_Subset
<1> QED  BY <1>1, <1>2, CountedSets DEF Counted

(* The thread's new state is the one that its step assigns.                *)
LEMMA Given ==
  ASSUME ThreadsOK, NEW t \in Conn, NEW q, Become(t, q) \/ \E p : Disturb(t, q, p)
  PROVE  th'[t] = q
BY DEF ThreadsOK, Become, Disturb

\* Where a thread's step may lead, as far as the count is concerned.
Before   == {"none", "start", "name", "drop", "slot", "fill", "count+", "count+'"}
Removing == (RemovalLabel \ {"close"}) \cup {"exit"}
Flows(r, q) ==
  /\ r.at \notin Before => q.at \notin Before
  /\ r.at \in Removing => q.at \in Removing /\ r.i =< q.i
  /\ q.at \in {"count+'", "count-'"} => q.reg = currentClientCount

(* Every step of a thread is one of these.                                 *)
LEMMA ThreadFlows ==
  ASSUME Types, NEW t \in Conn, clientThreadSplitFunction(t)
  PROVE  th' = th \/ Flows(th[t], th'[t])
<1> DEFINE r == th[t]
           q == th'[t]
<1>0. ThreadsOK /\ r \in Thread /\ r.i \in Nat /\ r.i + 1 \in Nat /\ r.i =< r.i + 1 /\ r.i =< r.i
  BY DEF Types, ThreadsOK, ThreadOK, Thread
<1>1. ASSUME NEW l, Goto(t, l)
      PROVE  q = [r EXCEPT !.at = l] /\ q.at = l /\ q.i = r.i
  BY <1>0, <1>1, Given DEF Goto, Thread
<1> USE DEF Flows, Before, Removing, RemovalLabel
<1>2. CASE Start(t)
  <2>1. r.at = "start" /\ q = [r EXCEPT !.at = "name", !.fd = client_socket]
    BY <1>0, <1>2, Given DEF Start
  <2>2. q.at = "name"
    BY <1>0, <2>1 DEF Thread
  <2> HIDE DEF q, r
  <2> QED  BY <2>1, <2>2 DEF q, r
<1>3. CASE RecvName(t) \/ RecvText(t)
  <2>1. r.at \in {"name", "recv"}
    BY <1>3 DEF RecvName, RecvText
  <2>2. q.at \in {"slot", "drop", "ask", "close"} /\ (r.at = "recv" => q.at \in {"ask", "close"})
    <3>1. CASE RecvName(t)
      <4>1. \/ Goto(t, "drop")
            \/ \E x : Become(t, [r EXCEPT !.at = "slot", !["name"] = x])
        BY <3>1 DEF RecvName, Hears
      <4>2. ASSUME NEW x, Become(t, [r EXCEPT !.at = "slot", !["name"] = x])
            PROVE  q.at = "slot"
        <5>1. q = [r EXCEPT !.at = "slot", !["name"] = x]
          BY <1>0, <4>2, Given
        <5> QED  BY <1>0, <5>1 DEF Thread
      <4> QED  BY <1>1, <3>1, <4>1, <4>2 DEF RecvName
    <3>2. CASE RecvText(t)
      <4>1. \/ Goto(t, "close")
            \/ \E x : Become(t, [r EXCEPT !.at = "ask", !["text"] = x])
        BY <3>2 DEF RecvText, Hears
      <4>2. ASSUME NEW x, Become(t, [r EXCEPT !.at = "ask", !["text"] = x])
            PROVE  q.at = "ask"
        <5>1. q = [r EXCEPT !.at = "ask", !["text"] = x]
          BY <1>0, <4>2, Given
        <5> QED  BY <1>0, <5>1 DEF Thread
      <4> QED  BY <1>1, <3>2, <4>1, <4>2 DEF RecvText
    <3> QED  BY <1>3, <3>1, <3>2
  <2> HIDE DEF q, r
  <2> QED  BY <2>1, <2>2 DEF q, r
<1>4. CASE Drop(t) \/ AskHelper(t) \/ ShiftOrNot(t)
  <2>1. \/ r.at = "drop" /\ Goto(t, "exit")
        \/ r.at = "ask" /\ Goto(t, "answer")
        \/ r.at = "shift?" /\ (Goto(t, "shift") \/ Goto(t, "count-"))
    <3>1. Drop(t) => r.at = "drop" /\ Goto(t, "exit")
      BY DEF Drop
    <3>2. AskHelper(t) => r.at = "ask" /\ Goto(t, "answer")
      BY DEF AskHelper
    <3>3. ShiftOrNot(t) => r.at = "shift?" /\ (Goto(t, "shift") \/ Goto(t, "count-"))
      BY DEF ShiftOrNot
    <3> QED  BY <1>4, <3>1, <3>2, <3>3
  <2>2. \/ r.at = "drop" /\ q.at = "exit"
        \/ r.at = "ask" /\ q.at = "answer"
        \/ r.at = "shift?" /\ q.at \in {"shift", "count-"} /\ q.i = r.i
    BY <1>1, <2>1
  <2> HIDE DEF q, r
  <2> QED  BY <1>0, <2>2 DEF q, r
<1>5. CASE LoadSlot(t)
  <2>1. r.at = "slot" /\ q = [r EXCEPT !.at = "fill", !.reg = currentClientCount]
    BY <1>0, <1>5, Given DEF LoadSlot
  <2>2. q.at = "fill"
    BY <1>0, <2>1 DEF Thread
  <2> HIDE DEF q, r
  <2> QED  BY <2>1, <2>2 DEF q, r
<1>6. CASE FillSlot(t)
  <2>1. CASE th' = th
    BY <2>1
  <2>2. CASE th' # th
    <3>1. r.at = "fill" /\ q = [r EXCEPT !.at = "count+"]
      BY <1>0, <1>6, <2>2, Given DEF FillSlot
    <3>2. q.at = "count+"
      BY <1>0, <3>1 DEF Thread
    <3> HIDE DEF q, r
    <3> QED  BY <3>1, <3>2 DEF q, r
  <2> QED  BY <2>1, <2>2
<1>7. CASE LoadCount(t)
  <2>1. /\ r.at \in {"count+", "count-"}
        /\ q = [r EXCEPT !.at = IF @ = "count+" THEN "count+'" ELSE "count-'", !.reg = currentClientCount]
    BY <1>0, <1>7, Given DEF LoadCount
  <2>2. /\ q.at = (IF r.at = "count+" THEN "count+'" ELSE "count-'")
        /\ q.reg = currentClientCount /\ q.i = r.i
    BY <1>0, <2>1 DEF Thread
  <2> HIDE DEF q, r
  <2> QED  BY <1>0, <2>1, <2>2 DEF q, r
<1>8. CASE StoreCountUp(t) \/ SendList(t) \/ HearHelper(t)
  <2>1. /\ r.at \in {"count+'", "list!", "answer"}
        /\ \/ q = Loop(r, "list?") \/ q = Loop(r, "push?")
           \/ \E x : q = [Loop(r, "cast?") EXCEPT !.text = x]
    BY <1>0, <1>8, Given DEF StoreCountUp, SendList, HearHelper
  <2>2. q.at \in {"list?", "push?", "cast?"}
    BY <1>0, <2>1 DEF Thread, Loop
  <2> HIDE DEF q, r
  <2> QED  BY <2>1, <2>2 DEF q, r
<1>9. CASE CopyName(t) \/ SkipOwn(t) \/ SendToEntry(t, "push", "push?") \/ SendToEntry(t, "cast", "cast?")
  <2>1. r.at \in {"list", "own?", "push", "cast"}
    BY <1>9 DEF CopyName, SkipOwn, SendToEntry
  <2>2. q.at \in {"list?", "cast?", "cast", "push?"}
    <3>1. CASE SkipOwn(t)
      <4>1. Goto(t, "cast") \/ q = [r EXCEPT !.at = "cast?", !.i = @ + 1]
        BY <1>0, <3>1, Given DEF SkipOwn
      <4> QED  BY <1>0, <1>1, <4>1 DEF Thread
    <3>2. CASE CopyName(t)
      <4>1. \E x : q = [r EXCEPT !.at = "list?", !.i = @ + 1, !.reached = x]
        BY <1>0, <3>2, Given DEF CopyName
      <4> QED  BY <1>0, <4>1 DEF Thread
    <3>3. ASSUME NEW from, NEW next \in {"push?", "cast?"}, SendToEntry(t, from, next)
          PROVE  q.at = next
      <4>1. q = [r EXCEPT !.at = next, !.i = @ + 1, !.reached = Append(@, clients[r.i].socket)]
        BY <1>0, <3>3, Given DEF SendToEntry
      <4> QED  BY <1>0, <4>1 DEF Thread
    <3> QED  BY <1>9, <3>1, <3>2, <3>3
  <2> HIDE DEF q, r
  <2> QED  BY <2>1, <2>2 DEF q, r
<1>10. ASSUME NEW from, NEW body, NEW after, While(t, from, body, after),
              \/ from = "list?" /\ body = "list" /\ after = "list!"
              \/ from = "push?" /\ body = "push" /\ after = "recv"
              \/ from = "cast?" /\ body = "own?" /\ after = "recv"
              \/ from = "find?" /\ body = "find" /\ after = "exit"
       PROVE  th' = th \/ Flows(th[t], th'[t])
  <2>1. r.at = from /\ (th' = th \/ Goto(t, body) \/ Goto(t, after))
    BY <1>10 DEF While
  <2> HIDE DEF q, r
  <2> QED  BY <1>0, <1>1, <1>10, <2>1 DEF q, r
<1>11. CASE Close(t) \/ Find(t) \/ Shift(t) \/ StoreCountDown(t)
  <2> SUFFICES ASSUME th' # th PROVE Flows(r, q)
    OBVIOUS
  <2>1. /\ r.at \in {"close", "find", "shift", "count-'"}
        /\ \/ r.at = "close" /\ q = [r EXCEPT !.at = "find?", !.i = 0]
           \/ q = [r EXCEPT !.at = "shift?", !.j = r.i]
           \/ q = [r EXCEPT !.at = "shift?", !.j = @ + 1]
           \/ q = [r EXCEPT !.at = "find?", !.i = @ + 1]
    BY <1>0, <1>11, Given DEF Close, Find, Shift, StoreCountDown
  <2>2. q.at \in {"find?", "shift?"} /\ (r.at = "close" \/ r.i =< q.i)
    BY <1>0, <2>1 DEF Thread
  <2> HIDE DEF q, r
  <2> QED  BY <2>1, <2>2
<1> QED  BY <1>2, <1>3, <1>4, <1>5, <1>6, <1>7, <1>8, <1>9, <1>10, <1>11
         DEF clientThreadSplitFunction, outputConnectedClients, newClientJoinedPush,
             sendPublicMessage, RemoveClient

(* Such a step takes nobody out of the sets.                               *)
LEMMA FlowsGrow ==
  ASSUME Types, NEW t \in Conn, Gives(t, th'[t]), Flows(th[t], th'[t])
  PROVE  /\ Past \subseteq Past' /\ Taken \subseteq Taken'
         /\ \A u \in Conn \ {t} : th'[u].at = th[u].at /\ th'[u].reg = th[u].reg /\ th'[u].i = th[u].i
<1>1. \A u \in Conn \ {t} : /\ th'[u].at = th[u].at /\ th'[u].reg = th[u].reg /\ th'[u].i = th[u].i
  <2> SUFFICES ASSUME NEW u \in Conn \ {t}
               PROVE  th'[u].at = th[u].at /\ th'[u].reg = th[u].reg /\ th'[u].i = th[u].i
    OBVIOUS
  <2>1. th'[u] = [th[u] EXCEPT !.kept = th'[u].kept] /\ th[u] \in Thread
    BY DEF Gives, Types, ThreadsOK
  <2> QED  BY <2>1 DEF Thread
<1>2. \A u \in Conn : th[u].i \in Nat /\ th'[u].i \in Nat
  BY DEF Gives, Types, ThreadsOK, Thread
<1>3. Past \subseteq Past'
  BY <1>1 DEF Flows, Past, Before
<1>4. Taken \subseteq Taken'
  <2> SUFFICES ASSUME NEW x \in Taken PROVE x \in Taken'
    OBVIOUS
  <2>1. /\ x \in Conn \X Entry /\ x[1] \in Conn /\ x[2] \in Entry /\ x[2] \in Int
        /\ th[x[1]].at \in Removing /\ x[2] < th[x[1]].i
    BY CapacityAssumption DEF Taken, Removing, Entry
  <2>2. th'[x[1]].at \in Removing /\ x[2] < th'[x[1]].i
    <3>1. CASE x[1] = t
      BY <1>2, <2>1, <3>1 DEF Flows
    <3>2. CASE x[1] # t
      BY <1>1, <2>1, <3>2
    <3> QED  BY <3>1, <3>2
  <2> QED  BY <2>1, <2>2 DEF Taken, Removing
<1> QED  BY <1>1, <1>3, <1>4

(* One more in a set of counted things, one more in its number.            *)
LEMMA OneMoreMember ==
  ASSUME NEW A, NEW B, NEW x, IsFiniteSet(A), IsFiniteSet(B), A \cup {x} \subseteq B, x \notin A
  PROVE  Cardinality(A) \in Nat /\ Cardinality(B) \in Nat /\ Cardinality(A) + 1 =< Cardinality(B)
<1>1. Cardinality(A \cup {x}) = Cardinality(A) + 1 /\ IsFiniteSet(A \cup {x})
  BY FS_AddElement
<1>2. Cardinality(A \cup {x}) =< Cardinality(B)
  BY FS_Subset
<1> QED  BY <1>1, <1>2, FS_CardinalityType

(* Each load, addition, subtraction and store keeps the values counted.    *)
LEMMA CountsThread ==
  ASSUME Types, AskInv, Counts, NEW t \in Conn, clientThreadSplitFunction(t)
  PROVE  Counts'
<1> DEFINE r == th[t]
           q == th'[t]
<1>1. Stepped(t) /\ (th' = th \/ Flows(r, q))
  BY ThreadStep, ThreadFlows
<1>2. IsFiniteSet(Past') /\ IsFiniteSet(Taken') /\ IsFiniteSet(Past) /\ IsFiniteSet(Taken)
  <2>1. Past' \subseteq Conn /\ Taken' \subseteq Conn \X Entry
    BY DEF Past, Taken
  <2> QED  BY <2>1, CountedSets, FS_Subset
<1>3. CASE th' = th
  <2>1. currentClientCount' = currentClientCount
    <3>1. ~StoreCountUp(t) /\ ~StoreCountDown(t)
      <4>1. StoreCountUp(t) => r.at = "count+'" /\ q = Loop(r, "list?")
        BY Given DEF StoreCountUp, Types
      <4>2. StoreCountDown(t) => r.at = "count-'" /\ q = [r EXCEPT !.at = "find?", !.i = @ + 1]
        BY Given DEF StoreCountDown, Types
      <4>3. r \in Thread /\ q = r
        BY <1>3 DEF Types, ThreadsOK
      <4> QED  BY <4>1, <4>2, <4>3 DEF Loop, Thread
    <3> QED  BY <3>1 DEF clientThreadSplitFunction, outputConnectedClients, newClientJoinedPush,
               sendPublicMessage, RemoveClient, Start, RecvName, RecvText, Hears, Drop, LoadSlot, FillSlot,
               LoadCount, CopyName, SendList, While, SendToEntry, AskHelper, HearHelper, SkipOwn,
               Close, Find, ShiftOrNot, Shift, roster
  <2>2. Past' = Past /\ Taken' = Taken
    BY <1>3 DEF Past, Taken
  <2> QED  BY <1>3, <2>1, <2>2 DEF Counts, Counted
<1>4. CASE Gives(t, q) /\ Flows(r, q)
  <2>1. /\ Past \subseteq Past' /\ Taken \subseteq Taken'
        /\ \A u \in Conn \ {t} : th'[u].at = th[u].at /\ th'[u].reg = th[u].reg
    BY <1>4, FlowsGrow
  <2>2. ASSUME NEW u \in Conn, th'[u].at \in {"count+'", "count-'"}
        PROVE  Counted(th[u].reg)'
    <3> DEFINE n == th'[u].reg
    <3>1. n = currentClientCount \/ (th[u].at \in {"count+'", "count-'"} /\ n = th[u].reg)
      BY <1>4, <2>1, <2>2 DEF Flows
    <3> HIDE DEF r, q
    <3>2. n \in Int /\ -Cardinality(Taken) =< n /\ n =< Cardinality(Past)
      <4> HIDE DEF n
      <4> QED  BY <3>1 DEF Counts, Counted
    <3>3. Cardinality(Taken) =< Cardinality(Taken') /\ Cardinality(Past) =< Cardinality(Past')
      BY <1>2, <2>1, FS_Subset
    <3>4. /\ Cardinality(Taken) \in Nat /\ Cardinality(Past) \in Nat
          /\ Cardinality(Taken') \in Nat /\ Cardinality(Past') \in Nat
      BY <1>2, FS_CardinalityType
    <3> HIDE DEF n
    <3>5. n \in Int /\ -Cardinality(Taken') =< n /\ n =< Cardinality(Past')
      BY <3>2, <3>3, <3>4
    <3>6. n = th[u].reg'
      BY DEF n
    <3> QED  BY <3>5, <3>6 DEF Counted
  <2>3. Counted(currentClientCount)'
    <3>0. ASSUME NEW n, Counted(n) PROVE n \in Int /\ -Cardinality(Taken) =< n /\ n =< Cardinality(Past)
      BY <3>0 DEF Counted
    <3>1. CASE currentClientCount' = currentClientCount
      <4>1. Counted(currentClientCount)
        BY DEF Counts
      <4> QED  BY <2>1, <3>1, <4>1, CountedGrows DEF Counted
    <3>2. CASE StoreCountUp(t)
      <4>1. /\ r.at = "count+'" /\ currentClientCount' = r.reg + 1 /\ Counted(r.reg)
        BY <3>2 DEF StoreCountUp, Counts
      <4>2. q.at = "list?"
        BY <3>2, Given DEF StoreCountUp, Types, ThreadsOK, Thread, Loop
      <4>3. t \notin Past /\ t \in Past'
        BY <4>1, <4>2 DEF Past
      <4>4. /\ Cardinality(Past) + 1 =< Cardinality(Past') /\ Cardinality(Past) \in Nat
            /\ Cardinality(Past') \in Nat
        BY <1>2, <2>1, <4>3, OneMoreMember
      <4>5. Cardinality(Taken) =< Cardinality(Taken') /\ Cardinality(Taken) \in Nat /\ Cardinality(Taken') \in Nat
        BY <1>2, <2>1, FS_Subset, FS_CardinalityType
      <4>6. r.reg \in Int /\ -Cardinality(Taken) =< r.reg /\ r.reg =< Cardinality(Past)
        BY <3>0, <4>1
      <4> HIDE DEF r, q
      <4>7. /\ currentClientCount' \in Int /\ -Cardinality(Taken') =< currentClientCount'
            /\ currentClientCount' =< Cardinality(Past')
        BY <4>1, <4>4, <4>5, <4>6
      <4> QED  BY <4>7 DEF Counted
    <3>3. CASE StoreCountDown(t)
      <4>1. /\ r.at = "count-'" /\ currentClientCount' = r.reg - 1 /\ Counted(r.reg)
        BY <3>3 DEF StoreCountDown, Counts, OneFewer
      <4>2. r \in Thread /\ r.i \in Entry /\ r.i \in Nat /\ q = [r EXCEPT !.at = "find?", !.i = @ + 1]
        BY <3>3, <4>1, Given DEF StoreCountDown, Types, ThreadsOK, ThreadOK, Thread, Indexing
      <4>3. q.at = "find?" /\ q.i = r.i + 1
        BY <4>2 DEF Thread
      <4>4. <<t, r.i>> \notin Taken /\ <<t, r.i>> \in Taken'
        <5>1. r.i < q.i /\ ~(r.i < r.i)
          BY <4>2, <4>3
        <5>2. <<t, r.i>> \in Conn \X Entry /\ <<t, r.i>>[1] = t /\ <<t, r.i>>[2] = r.i
          BY <4>2
        <5> HIDE DEF r, q
        <5>3. <<t, r.i>> \in Taken => r.i < th[t].i
          BY <5>2 DEF Taken
        <5>4. <<t, r.i>> \in Taken'
          BY <4>3, <5>1, <5>2 DEF Taken, RemovalLabel, q
        <5> QED  BY <5>1, <5>3, <5>4 DEF r
      <4>5. /\ Cardinality(Taken) + 1 =< Cardinality(Taken') /\ Cardinality(Taken) \in Nat
            /\ Cardinality(Taken') \in Nat
        BY <1>2, <2>1, <4>4, OneMoreMember
      <4>6. Cardinality(Past) =< Cardinality(Past') /\ Cardinality(Past) \in Nat /\ Cardinality(Past') \in Nat
        BY <1>2, <2>1, FS_Subset, FS_CardinalityType
      <4>7. r.reg \in Int /\ -Cardinality(Taken) =< r.reg /\ r.reg =< Cardinality(Past)
        BY <3>0, <4>1
      <4> HIDE DEF r, q
      <4>8. /\ currentClientCount' \in Int /\ -Cardinality(Taken') =< currentClientCount'
            /\ currentClientCount' =< Cardinality(Past')
        BY <4>1, <4>5, <4>6, <4>7
      <4> QED  BY <4>8 DEF Counted
    <3> QED  BY <3>1, <3>2, <3>3 DEF clientThreadSplitFunction, outputConnectedClients, newClientJoinedPush,
               sendPublicMessage, RemoveClient, Start, RecvName, RecvText, Hears, Drop, LoadSlot, FillSlot,
               LoadCount, CopyName, SendList, While, SendToEntry, AskHelper, HearHelper, SkipOwn,
               Close, Find, ShiftOrNot, Shift, roster
  <2> QED  BY <2>2, <2>3 DEF Counts
<1> QED  BY <1>1, <1>3, <1>4 DEF Stepped

(* Counts is inductive, given the types and AskInv.                        *)
LEMMA CountsStep ==
  ASSUME Types, AskInv, Counts, [Next]_vars
  PROVE  Counts'
<1>1. CASE currentClientCount' = currentClientCount /\ th' = th
  <2>1. Past' = Past /\ Taken' = Taken
    BY <1>1 DEF Past, Taken
  <2> QED  BY <1>1, <2>1 DEF Counts, Counted
<1>2. CASE Admit
  <2> SUFFICES ASSUME th' # th PROVE Counts'
    BY <1>1, <1>2 DEF Admit, roster
  <2> DEFINE q == [th[main] EXCEPT !.at = "start"]
  <2>1. main \in Conn /\ th[main].at = "none" /\ Gives(main, q)
    BY <1>2, AdmitTypes
  <2>2. th[main] \in Thread /\ q.at = "start" /\ th'[main] = q
    BY <2>1 DEF Types, ThreadsOK, Thread, Gives
  <2>3. Flows(th[main], th'[main])
    BY <2>1, <2>2 DEF Flows, Before, Removing, RemovalLabel
  <2>4. /\ Past \subseteq Past' /\ Taken \subseteq Taken'
        /\ \A u \in Conn \ {main} : th'[u].at = th[u].at /\ th'[u].reg = th[u].reg
    BY <2>1, <2>2, <2>3, FlowsGrow
  <2>5. Past' = Past /\ Taken' = Taken
    <3>1. \A u \in Conn : /\ u \in Past' => u \in Past
                          /\ th'[u].at \in Removing => th[u].at = th'[u].at /\ th'[u].i = th[u].i
      BY <2>1, <2>2, FlowsGrow, <2>3 DEF Past, Removing, RemovalLabel
    <3>2. Taken' \subseteq Taken
      BY <3>1 DEF Taken, Removing
    <3> QED  BY <2>4, <3>1, <3>2 DEF Past
  <2>6. currentClientCount' = currentClientCount
    BY <1>2 DEF Admit, roster
  <2>7. \A u \in Conn : th'[u].at \in {"count+'", "count-'"} => th[u].at = th'[u].at /\ th'[u].reg = th[u].reg
    BY <2>2, <2>4
  <2> QED  BY <2>5, <2>6, <2>7 DEF Counts, Counted
<1>3. ASSUME NEW t \in Conn, clientThreadSplitFunction(t)
      PROVE  Counts'
  BY <1>3, CountsThread
<1> QED  BY <1>1, <1>2, <1>3 DEF Next, Connect, Say, Leave, HelperAnswers, HelperDies, Accept, roster, vars

(* It holds at the start.                                                  *)
LEMMA CountsInit ==
  ASSUME Init
  PROVE  Counts
<1>1. currentClientCount = 0 /\ \A t \in Conn : th[t].at = "none"
  BY DEF Init, Idle
<1>2. Cardinality(Taken) \in Nat /\ Cardinality(Past) \in Nat
  BY CountedSets
<1> QED  BY <1>1, <1>2 DEF Counts, Counted

(* The bounds in TypeOK follow from the sizes of the sets.                 *)
LEMMA TypesAreOK ==
  ASSUME Types, AskInv, Counts
  PROVE  TypeOK
<1>1. currentClientCount \in -Cardinality(Conn) * MAXIMUM_CONNECTED_CLIENTS .. Cardinality(Conn)
  <2> DEFINE n == Cardinality(Conn)
             m == MAXIMUM_CONNECTED_CLIENTS
             a == Cardinality(Taken)
             b == Cardinality(Past)
  <2>1. /\ currentClientCount \in Int /\ -a =< currentClientCount /\ currentClientCount =< b
    BY DEF Counts, Counted
  <2>2. a \in Nat /\ b \in Nat /\ n \in Nat /\ a =< n * m /\ b =< n /\ m \in Nat
    BY CountedSets, CapacityAssumption
  <2> HIDE DEF n, m, a, b
  <2>3. n * m \in Nat /\ -n * m = -(n * m)
    BY <2>2
  <2>4. currentClientCount \in -n * m .. n
    BY <2>1, <2>2, <2>3
  <2> QED  BY <2>4 DEF n, m
<1>2. \A t \in Conn : /\ th[t].at \in Label
                      /\ th[t].fd \in Fd \cup {0}
                      /\ th[t].name \in Seq(Line) /\ th[t].text \in Seq(Line)
                      /\ th[t].i \in Nat /\ th[t].j \in Entry
                      /\ th[t].reg \in Int /\ th[t].kept \subseteq Entry
                      /\ th[t].reached \in Seq(IF th[t].at \in {"list?", "list", "list!"}
                                               THEN Seq(Line) ELSE Fd \cup {0})
  <2> SUFFICES ASSUME NEW t \in Conn
               PROVE  /\ th[t].at \in Label
                      /\ th[t].fd \in Fd \cup {0}
                      /\ th[t].name \in Seq(Line) /\ th[t].text \in Seq(Line)
                      /\ th[t].i \in Nat /\ th[t].j \in Entry
                      /\ th[t].reg \in Int /\ th[t].kept \subseteq Entry
                      /\ th[t].reached \in Seq(IF th[t].at \in {"list?", "list", "list!"}
                                               THEN Seq(Line) ELSE Fd \cup {0})
    OBVIOUS
  <2>1. ThreadOK(th[t]) /\ th[t] \in Thread
    BY DEF Types, ThreadsOK
  <2>2. th[t].reached \in Seq(IF th[t].at \in {"list?", "list", "list!"}
                              THEN Seq(Line) ELSE Fd \cup {0})
    BY <2>1, Zenon DEF ThreadOK, Listing
  <2>3. /\ th[t].at \in Label /\ th[t].fd \in Fd \cup {0}
        /\ th[t].name \in Seq(Line) /\ th[t].text \in Seq(Line)
        /\ th[t].i \in Nat /\ th[t].j \in Entry /\ th[t].reg \in Int /\ th[t].kept \subseteq Entry
    BY <2>1 DEF Thread
  <2> QED  BY <2>2, <2>3
<1>3. /\ backlog \in Seq(Conn) /\ file \in [Fd -> Conn \cup {None}]
      /\ client_socket \in Fd \cup {0} /\ main \in Conn \cup {None}
  BY DEF AskInv, Typed
<1>4. SharedOK
  BY DEF Types
<1> QED  BY <1>1, <1>2, <1>3, <1>4, Zenon DEF TypeOK, SharedOK

(* Every variable of the server always has a value of its type; the count  *)
(* of clients stays within one more for each thread, and one less for each *)
(* thread and place of the array, however the threads that change it race. *)
THEOREM ServerTypeOK == Spec => []TypeOK
<1> DEFINE IInv == Types /\ AskInv /\ Counts
<1>1. Init => IInv
  BY TypesInit, InitKeeps, CountsInit
<1>2. IInv /\ [Next]_vars => IInv'
  BY TypesStep, AskInvStep, CountsStep
<1>3. IInv => TypeOK
  BY TypesAreOK
<1> QED  BY <1>1, <1>2, <1>3, PTL DEF Spec

-----------------------------------------------------------------------------
(* listOfClients.                                                          *)

(* The step that runs over the end of listOfClients has copied a long name.*)
LEMMA SmashStep ==
  ASSUME Types, AskInv, Next, process' = "smashed"
  PROVE  ListFitsShortNames'
<1>0. process = "up" /\ ThreadsOK /\ SharedOK
  BY DEF Next, Types
<1>1. PICK t \in Conn : CopyName(t)
  <2>1. \A f : ~Sends(f) \/ process' # "smashed"
    BY <1>0 DEF Sends
  <2>2. PICK t \in Conn : clientThreadSplitFunction(t)
    BY <1>0 DEF Next, Connect, Say, Leave, HelperAnswers, HelperDies, Accept, Admit
  <2>3. ~(Start(t) \/ RecvName(t) \/ Drop(t) \/ RecvText(t) \/ AskHelper(t) \/ HearHelper(t))
    BY <1>0 DEF Start, RecvName, RecvText, Hears, Drop, AskHelper, HearHelper
  <2>4. ~(LoadSlot(t) \/ FillSlot(t) \/ LoadCount(t) \/ StoreCountUp(t))
    BY <1>0 DEF LoadSlot, FillSlot, LoadCount, StoreCountUp
  <2>5. ~(newClientJoinedPush(t) \/ sendPublicMessage(t))
    BY <1>0, <2>1 DEF newClientJoinedPush, sendPublicMessage, While, SendToEntry, SkipOwn
  <2>6. ~RemoveClient(t)
    BY <1>0 DEF RemoveClient, While, Close, Find, ShiftOrNot, Shift, StoreCountDown
  <2>7. outputConnectedClients(t) => CopyName(t)
    BY <1>0, <2>1 DEF outputConnectedClients, While, SendList
  <2> QED  BY <2>2, <2>3, <2>4, <2>5, <2>6, <2>7 DEF clientThreadSplitFunction
<1> DEFINE r == th[t]
           x == clients[r.i].name
           names == Append(r.reached, x)
           q == [r EXCEPT !.at = "list?", !.i = @ + 1, !.reached = names]
<1>2. /\ r.at = "list" /\ r \in Thread /\ r.i \in Entry /\ r.reached \in Seq(Seq(Line)) /\ Len(r.reached) = r.i
      /\ x \in Seq(Line)
  <2>1. r.at = "list" /\ ThreadOK(r)
    BY <1>0, <1>1 DEF CopyName, ThreadsOK
  <2>2. r \in Thread /\ r.i \in Entry /\ r.reached \in Seq(Seq(Line)) /\ Len(r.reached) = r.i
    BY <2>1 DEF ThreadOK, Indexing, Listing
  <2> QED  BY <1>0, <2>1, <2>2 DEF SharedOK, RosterType
<1>3. /\ Become(t, q)
      /\ process' = IF Total(names) < BUFFER_SIZE THEN process ELSE "smashed"
  BY <1>1, Zenon DEF CopyName, Total
<1>4. ~(Total(names) < BUFFER_SIZE)
  BY <1>0, <1>3
<1>5. names \in Seq(Seq(Line)) /\ Len(names) \in 1 .. MAXIMUM_CONNECTED_CLIENTS
  BY <1>2, AppendProperties, CapacityAssumption DEF Entry
<1>6. PICK k \in 1 .. Len(names) : ~(WithNewline(names[k]) =< Share)
  <2> HIDE DEF names
  <2> QED  BY <1>4, <1>5, ShortNamesFit
<1>7. th'[t] = q /\ q.at = "list?" /\ q.reached = names
  <2>1. th'[t] = q
    BY <1>0, <1>3, Given
  <2> HIDE DEF names
  <2> QED  BY <1>2, <2>1 DEF Thread
<1>8. TextSize(names[k]) + 1 > Share
  <2>1. TextSize(names[k]) \in Nat
    <3> HIDE DEF names
    <3> QED  BY <1>5, TextSizeType
  <2>2. Share \in Int
    BY SizeAssumption, CapacityAssumption DEF Share
  <2> HIDE DEF names
  <2> QED  BY <1>6, <2>1, <2>2 DEF WithNewline
<1>9. k \in DOMAIN names
  <2> HIDE DEF names
  <2> QED  BY <1>5
<1> HIDE DEF names, q
<1> QED  BY <1>7, <1>8, <1>9 DEF ListFitsShortNames, Share

(* Whatever the order in which threads enter, leave and copy names, the    *)
(* array listOfClients is overrun only when a name in it takes more than   *)
(* one place's share of it.                                                *)
THEOREM ServerListFits == Spec => []ListFitsShortNames
<1> DEFINE IInv == Types /\ AskInv /\ ListFitsShortNames
<1>1. Init => IInv
  BY TypesInit, InitKeeps DEF Init, ListFitsShortNames
<1>2. IInv /\ [Next]_vars => IInv'
  <2> SUFFICES ASSUME IInv, [Next]_vars PROVE ListFitsShortNames'
    BY TypesStep, AskInvStep
  <2>1. CASE Next
    BY <2>1, SmashStep DEF ListFitsShortNames
  <2>2. CASE UNCHANGED vars
    BY <2>2 DEF ListFitsShortNames, vars
  <2> QED  BY <2>1, <2>2
<1>3. IInv => ListFitsShortNames
  OBVIOUS
<1> QED  BY <1>1, <1>2, <1>3, PTL DEF Spec
-----------------------------------------------------------------------------
(* clients[] holds the entries S at the places D, each once, and no two of *)
(* them with one socket.                                                   *)
Lists(cl, D, S) ==
  /\ {cl[i] : i \in D} = S
  /\ \A i, k \in D : cl[i].socket = cl[k].socket => i = k

\* The entries of the clients of the threads P.
Entries(P) == {[socket |-> th[t].fd, name |-> th[t].name] : t \in P}

(* One more place and its entry.                                           *)
LEMMA ListsAdd ==
  ASSUME NEW cl, NEW D, NEW S, Lists(cl, D, S), NEW n, n \notin D,
         \A e \in S : e.socket # cl[n].socket
  PROVE  Lists(cl, D \cup {n}, S \cup {cl[n]})
<1>1. \A i \in D : cl[i] \in S
  BY DEF Lists
<1>2. {cl[i] : i \in D \cup {n}} = S \cup {cl[n]}
  BY DEF Lists
<1>3. \A i, k \in D \cup {n} : cl[i].socket = cl[k].socket => i = k
  BY <1>1 DEF Lists
<1> QED  BY <1>2, <1>3 DEF Lists

(* One place less, with its entry.                                         *)
LEMMA ListsDrop ==
  ASSUME NEW cl, NEW D, NEW S, NEW x, Lists(cl, D, S \cup {x}), NEW j \in D,
         cl[j].socket = x.socket, \A e \in S : e.socket # x.socket
  PROVE  Lists(cl, D \ {j}, S)
<1>1. \A i \in D : cl[i] \in S \cup {x}
  BY DEF Lists
<1>2. \A i \in D \ {j} : cl[i].socket # x.socket
  BY DEF Lists
<1>3. \A i \in D \ {j} : cl[i] \in S
  BY <1>1, <1>2
<1>4. \A e \in S : \E i \in D \ {j} : cl[i] = e
  <2> SUFFICES ASSUME NEW e \in S PROVE \E i \in D \ {j} : cl[i] = e
    OBVIOUS
  <2>1. PICK i \in D : cl[i] = e
    BY DEF Lists
  <2> QED  BY <2>1
<1>5. {cl[i] : i \in D \ {j}} = S
  BY <1>3, <1>4
<1> QED  BY <1>5 DEF Lists

(* An entry copied from one place to another, whose own is given up.       *)
LEMMA ListsShift ==
  ASSUME NEW cl, NEW D, NEW S, NEW j \in D, NEW m \in D, j # m, D \subseteq DOMAIN cl,
         Lists(cl, D \ {j}, S)
  PROVE  Lists([cl EXCEPT ![j] = cl[m]], D \ {m}, S)
<1> DEFINE new == [cl EXCEPT ![j] = cl[m]]
<1>1. new[j] = cl[m] /\ \A i \in D \ {j} : new[i] = cl[i]
  OBVIOUS
<1> HIDE DEF new
<1>2. {new[i] : i \in D \ {m}} = {cl[i] : i \in D \ {j}}
  <2>1. \A i \in D \ {m} : \E k \in D \ {j} : new[i] = cl[k]
    BY <1>1
  <2>2. \A k \in D \ {j} : \E i \in D \ {m} : new[i] = cl[k]
    BY <1>1
  <2> QED  BY <2>1, <2>2
<1>3. \A i, k \in D \ {m} : new[i].socket = new[k].socket => i = k
  BY <1>1 DEF Lists
<1>4. Lists(new, D \ {m}, S)
  BY <1>2, <1>3 DEF Lists
<1> QED  BY <1>4 DEF new

(* Entries that others change, and places where nothing is listed, do not  *)
(* matter.                                                                 *)
LEMMA ListsSame ==
  ASSUME NEW cl, NEW new, NEW D, NEW S, Lists(cl, D, S), \A i \in D : new[i] = cl[i]
  PROVE  Lists(new, D, S)
BY DEF Lists

-----------------------------------------------------------------------------
(* clients[] as long as registrations and removals follow one another: it  *)
(* lists the registered clients, but for what the one thread that edits it *)
(* has done so far.                                                        *)
RegisteredLabel == {"list?", "list", "list!", "push?", "push", "recv", "ask", "answer",
                    "cast?", "own?", "cast"}

\* A registration: the slot is filled, then counted.
Entering(t) ==
  /\ th[t].at \in {"fill", "count+'"} => th[t].reg = currentClientCount
  /\ th[t].at \in {"count+", "count+'"} =>
       /\ currentClientCount \in Entry
       /\ clients[currentClientCount] = [socket |-> th[t].fd, name |-> th[t].name]

\* The entry to be removed is still ahead, or it has been removed already.
Searching(t) ==
  \/ th[t].at # "close" /\ Lists(clients, Places, Entries(Registered))
  \/ /\ Lists(clients, Places, Entries(Registered \cup {t}))
     /\ th[t].at # "close" => \A k \in Places : k < th[t].i => clients[k].socket # th[t].fd

\* A removal: place j is the one to be shifted over, until it is the last.
Leaving(t) ==
  /\ \A u \in Registered : th[u].fd # th[t].fd
  /\ th[t].at \in {"close", "find?", "find"} => Searching(t)
  /\ th[t].at = "find" => th[t].i \in Places
  /\ th[t].at \in {"shift?", "shift", "count-", "count-'"} =>
       th[t].j \in Places /\ Lists(clients, Places \ {th[t].j}, Entries(Registered))
  /\ th[t].at = "shift" => th[t].j < currentClientCount - 1
  /\ th[t].at \in {"count-", "count-'"} => th[t].j = currentClientCount - 1
  /\ th[t].at = "count-'" => th[t].reg = currentClientCount

InOrder ==
  /\ currentClientCount \in 0 .. MAXIMUM_CONNECTED_CLIENTS
  /\ \A t, u \in Conn : Editing(t) /\ Editing(u) => t = u
  /\ (\A t \in Conn : th[t].at \notin RemovalLabel) => Lists(clients, Places, Entries(Registered))
  /\ \A t \in Conn : Entering(t) /\ (th[t].at \in RemovalLabel => Leaving(t))

RosterInv == own /\ serial => InOrder

\* What the roster's invariant sees of a thread.
Same(u) == /\ th'[u].at = th[u].at /\ th'[u].fd = th[u].fd /\ th'[u].name = th[u].name
           /\ th'[u].i = th[u].i /\ th'[u].j = th[u].j /\ th'[u].reg = th[u].reg

(* A thread's step leaves the others where they are.                       *)
LEMMA OthersSame ==
  ASSUME Types, NEW t \in Conn, Gives(t, th'[t])
  PROVE  \A u \in Conn \ {t} : Same(u)
<1> SUFFICES ASSUME NEW u \in Conn \ {t} PROVE Same(u)
  OBVIOUS
<1>1. th'[u] = [th[u] EXCEPT !.kept = th'[u].kept] /\ th[u] \in Thread
  BY DEF Gives, Types, ThreadsOK
<1> QED  BY <1>1 DEF Thread, Same

(* Registered threads, by their labels.                                    *)
LEMMA RegisteredIs == Registered = {t \in Conn : th[t].at \in RegisteredLabel}
BY DEF Registered, RegisteredLabel

(* The same after a step.                                                  *)
LEMMA RegisteredIsNext == Registered' = {t \in Conn : th'[t].at \in RegisteredLabel}
BY DEF Registered, RegisteredLabel

(* A step that leaves the roster alone, and every thread where it is, as   *)
(* far as the roster is concerned.                                         *)
LEMMA AsideKeeps ==
  ASSUME RosterInv, UNCHANGED roster, own' /\ serial' => own /\ serial,
         \A u \in Conn : \/ Same(u)
                         \/ /\ th[u].at \notin EditLabel /\ th'[u].at \notin EditLabel
                            /\ th'[u].at \in RegisteredLabel <=> th[u].at \in RegisteredLabel
                            /\ th[u].at \in RegisteredLabel => th'[u].fd = th[u].fd /\ th'[u].name = th[u].name
  PROVE  RosterInv'
<1> SUFFICES ASSUME own', serial' PROVE InOrder'
  BY DEF RosterInv
<1>1. InOrder /\ clients' = clients /\ currentClientCount' = currentClientCount /\ Places' = Places
  BY DEF RosterInv, roster, Places
<1>2. \A u \in Conn : /\ th[u].at \in EditLabel => Same(u)
                      /\ th'[u].at \in EditLabel => Same(u)
                      /\ u \in Registered' <=> u \in Registered
                      /\ u \in Registered => th'[u].fd = th[u].fd /\ th'[u].name = th[u].name
  <2> SUFFICES ASSUME NEW u \in Conn
               PROVE  /\ th[u].at \in EditLabel => Same(u)
                      /\ th'[u].at \in EditLabel => Same(u)
                      /\ th'[u].at \in RegisteredLabel <=> th[u].at \in RegisteredLabel
                      /\ th[u].at \in RegisteredLabel => th'[u].fd = th[u].fd /\ th'[u].name = th[u].name
    BY RegisteredIs, RegisteredIsNext
  <2> QED  BY DEF Same
<1>3. Registered' = Registered /\ Registered \subseteq Conn
  BY <1>2 DEF Registered
<1>4. Entries(Registered)' = Entries(Registered)
  BY <1>2, <1>3 DEF Entries
<1>5. \A u \in Conn : th'[u].at \in EditLabel => Entries(Registered \cup {u})' = Entries(Registered \cup {u})
  BY <1>2, <1>3 DEF Entries, Same
<1>6. RemovalLabel \subseteq EditLabel /\ {"fill", "count+", "count+'"} \subseteq EditLabel
  BY DEF EditLabel
<1>7. \A t, u \in Conn : Editing(t)' /\ Editing(u)' => t = u
  BY <1>1, <1>2 DEF InOrder, Editing, Same
<1>8. (\A t \in Conn : th'[t].at \notin RemovalLabel) => Lists(clients, Places, Entries(Registered))'
  <2>1. \A t \in Conn : th'[t].at \notin RemovalLabel => th[t].at \notin RemovalLabel
    BY <1>2, <1>6 DEF Same
  <2> QED  BY <1>1, <1>4, <2>1 DEF InOrder, Lists
<1>9. \A t \in Conn : Entering(t)'
  BY <1>1, <1>2, <1>6 DEF InOrder, Entering, Same
<1>10. ASSUME NEW t \in Conn, th'[t].at \in RemovalLabel
       PROVE  Leaving(t)'
  <2>1. Same(t) /\ Leaving(t) /\ th[t].at \in RemovalLabel
    BY <1>1, <1>2, <1>6, <1>10 DEF InOrder, Same
  <2>2. \A u \in Registered' : th'[u].fd # th'[t].fd
    BY <1>2, <1>3, <2>1 DEF Leaving, Same
  <2>3. Searching(t)' <=> Searching(t)
    <3>1. Entries(Registered \cup {t})' = Entries(Registered \cup {t})
      BY <1>5, <1>6, <1>10
    <3> QED  BY <1>1, <1>4, <2>1, <3>1 DEF Searching, Same, Lists
  <2>4. Lists(clients, Places \ {th[t].j}, Entries(Registered))'
          <=> Lists(clients, Places \ {th[t].j}, Entries(Registered))
    BY <1>1, <1>4, <2>1 DEF Same, Lists
  <2> QED  BY <1>1, <2>1, <2>2, <2>3, <2>4 DEF Leaving, Same
<1> QED  BY <1>1, <1>7, <1>8, <1>9, <1>10 DEF InOrder
(* A step of the one thread that edits the roster: what it finds, and what *)
(* is to be shown of what it leaves.                                       *)
LEMMA EditorFinds ==
  ASSUME Types, InOrder, NEW t \in Conn, Editing(t), Gives(t, th'[t]),
         th'[t].at \in EditLabel, th'[t].fd = th[t].fd, th'[t].name = th[t].name
  PROVE  /\ \A u \in Conn \ {t} : th[u].at \notin EditLabel /\ th'[u].at \notin EditLabel
         /\ Registered' = Registered /\ t \notin Registered
         /\ \A u \in Registered : th'[u].fd = th[u].fd
         /\ Entries(Registered)' = Entries(Registered)
         /\ Entries(Registered \cup {t})' = Entries(Registered \cup {t})
<1>1. \A u \in Conn \ {t} : Same(u)
  BY OthersSame
<1>2. \A u \in Conn \ {t} : th[u].at \notin EditLabel
  BY DEF InOrder, Editing
<1>3. th[t].at \notin RegisteredLabel /\ th'[t].at \notin RegisteredLabel
  BY DEF Editing, EditLabel, RemovalLabel, RegisteredLabel
<1>4. Registered' = Registered /\ t \notin Registered
  BY <1>1, <1>3, RegisteredIs, RegisteredIsNext DEF Same
<1>5. Registered \subseteq Conn /\ \A u \in Conn : th'[u].fd = th[u].fd /\ th'[u].name = th[u].name
  BY <1>1 DEF Same, Registered
<1>6. Entries(Registered)' = Entries(Registered)
  BY <1>4, <1>5 DEF Entries
<1>7. Entries(Registered \cup {t})' = Entries(Registered \cup {t})
  BY <1>4, <1>5 DEF Entries
<1> QED  BY <1>1, <1>2, <1>4, <1>5, <1>6, <1>7 DEF Same

(* What the editor's step has to show for InOrder to hold again.           *)
LEMMA EditorKeeps ==
  ASSUME NEW t \in Conn, \A u \in Conn \ {t} : th'[u].at \notin EditLabel,
         currentClientCount' \in 0 .. MAXIMUM_CONNECTED_CLIENTS,
         th'[t].at \notin RemovalLabel => Lists(clients, Places, Entries(Registered))',
         Entering(t)', th'[t].at \in RemovalLabel => Leaving(t)'
  PROVE  InOrder'
<1>1. RemovalLabel \subseteq EditLabel /\ {"fill", "count+", "count+'"} \subseteq EditLabel
  BY DEF EditLabel
<1>2. \A u \in Conn \ {t} : Entering(u)'
  BY <1>1 DEF Entering
<1> QED  BY <1>1, <1>2 DEF InOrder, Editing

\* Distinct threads that have their own sockets have distinct ones.
LEMMA DistinctSockets ==
  ASSUME AskInv, own, NEW t \in Conn, NEW u \in Conn, t # u,
         th[t].at \in Connected, th[u].at \in Connected
  PROVE  th[t].fd # th[u].fd
BY DEF AskInv, OwnSockets

(* The places up to the count, as long as that is in its range.            *)
LEMMA PlacesAre ==
  ASSUME currentClientCount \in 0 .. MAXIMUM_CONNECTED_CLIENTS
  PROVE  Places = 0 .. currentClientCount - 1 /\ Places \subseteq Entry
BY CapacityAssumption DEF Places, Entry

(* The same after a step.                                                  *)
LEMMA PlacesAreNext ==
  ASSUME currentClientCount' \in 0 .. MAXIMUM_CONNECTED_CLIENTS
  PROVE  Places' = 0 .. currentClientCount' - 1
BY CapacityAssumption DEF Places, Entry

(* Registration.                                                           *)
LEMMA SlotRoster ==
  ASSUME Types, AskInv, InOrder, NEW t \in Conn, RecvName(t), th'[t].at = "slot", ~OtherEdits(t)
  PROVE  InOrder'
<1> DEFINE r == th[t]
           c == file[r.fd]
<1>1. r.at = "name" /\ r \in Thread /\ ThreadsOK /\ UNCHANGED roster
  BY DEF RecvName, Hears, Types, ThreadsOK
<1>2. Stepped(t)
  BY HearsStep
<1>3. Gives(t, th'[t]) /\ \A u \in Conn \ {t} : Same(u) /\ th[u].at \notin EditLabel
  <2>1. th'[t].at # th[t].at
    BY <1>1
  <2>2. Gives(t, th'[t])
    BY <1>2, <2>1 DEF Stepped
  <2> QED  BY <2>2, OthersSame DEF OtherEdits, Editing
<1>4. \A u \in Conn \ {t} : th'[u].at \notin EditLabel
  BY <1>3 DEF Same
<1>5. Registered' = Registered /\ t \notin Registered
  BY <1>1, <1>3, RegisteredIs, RegisteredIsNext DEF Same, RegisteredLabel
<1>6. Entries(Registered)' = Entries(Registered)
  <2>1. Registered \subseteq Conn \ {t}
    BY <1>5 DEF Registered
  <2> QED  BY <1>3, <1>5, <2>1 DEF Entries, Same
<1>7. \A u \in Conn : th[u].at \notin RemovalLabel
  BY <1>1, <1>3 DEF EditLabel, RemovalLabel
<1>8. Lists(clients, Places, Entries(Registered))'
  BY <1>1, <1>6, <1>7 DEF InOrder, Lists, Places, roster
<1>9. Entering(t)' /\ th'[t].at \notin RemovalLabel
  BY DEF Entering, RemovalLabel
<1>10. currentClientCount' \in 0 .. MAXIMUM_CONNECTED_CLIENTS
  BY <1>1 DEF InOrder, roster
<1> QED  BY <1>4, <1>8, <1>9, <1>10, EditorKeeps

(* currentClientCount is loaded to index the new entry.                    *)
LEMMA LoadSlotRoster ==
  ASSUME Types, InOrder, NEW t \in Conn, LoadSlot(t)
  PROVE  InOrder'
<1> DEFINE q == [th[t] EXCEPT !.at = "fill", !.reg = currentClientCount]
<1>1. /\ ThreadsOK /\ th[t] \in Thread /\ th[t].at = "slot" /\ th'[t] = q /\ UNCHANGED roster
      /\ currentClientCount \in Int
  BY Given DEF LoadSlot, Types, ThreadsOK, SharedOK
<1>2. /\ th'[t].at = "fill" /\ th'[t].reg = currentClientCount
      /\ th'[t].fd = th[t].fd /\ th'[t].name = th[t].name
  BY <1>1 DEF Thread
<1>3. Gives(t, th'[t])
  <2>1. Stepped(t)
    BY RegistrationStep
  <2> QED  BY <1>1, <1>2, <2>1 DEF Stepped
<1>4. Editing(t) /\ th'[t].at \in EditLabel /\ th'[t].at \notin RemovalLabel /\ th[t].at \notin RemovalLabel
  BY <1>1, <1>2 DEF Editing, EditLabel, RemovalLabel
<1>5. /\ \A u \in Conn \ {t} : th[u].at \notin EditLabel /\ th'[u].at \notin EditLabel
      /\ Entries(Registered)' = Entries(Registered)
  BY <1>2, <1>3, <1>4, EditorFinds
<1>6. Lists(clients, Places, Entries(Registered))'
  BY <1>1, <1>4, <1>5 DEF InOrder, Lists, Places, roster, EditLabel
<1>7. Entering(t)'
  BY <1>1, <1>2 DEF Entering, roster
<1> QED  BY <1>1, <1>4, <1>5, <1>6, <1>7, EditorKeeps DEF InOrder, roster

(* The new entry is stored behind the listed ones.                         *)
LEMMA FillSlotRoster ==
  ASSUME Types, InOrder, NEW t \in Conn, FillSlot(t), th' # th
  PROVE  InOrder'
<1> DEFINE r == th[t]
           n == currentClientCount
<1>1. /\ ThreadsOK /\ r \in Thread /\ r.at = "fill" /\ r.reg \in Entry
      /\ clients' = [clients EXCEPT ![r.reg] = [socket |-> r.fd, name |-> r.name]]
      /\ th'[t] = [r EXCEPT !.at = "count+"] /\ currentClientCount' = n
  BY Given DEF FillSlot, Types, ThreadsOK
<1>2. /\ th'[t].at = "count+" /\ th'[t].fd = r.fd /\ th'[t].name = r.name
  BY <1>1 DEF Thread
<1>3. Gives(t, th'[t])
  <2>1. Stepped(t)
    BY RegistrationStep
  <2> QED  BY <2>1 DEF Stepped
<1>4. Editing(t) /\ th'[t].at \in EditLabel /\ th'[t].at \notin RemovalLabel /\ r.at \notin RemovalLabel
  BY <1>1, <1>2 DEF Editing, EditLabel, RemovalLabel
<1>5. /\ \A u \in Conn \ {t} : th[u].at \notin EditLabel /\ th'[u].at \notin EditLabel
      /\ Entries(Registered)' = Entries(Registered)
  BY <1>2, <1>3, <1>4, EditorFinds
<1>6. r.reg = n /\ Lists(clients, Places, Entries(Registered)) /\ clients \in RosterType
  BY <1>1, <1>4, <1>5 DEF InOrder, Entering, EditLabel, Types, SharedOK
<1>7. n \in Entry /\ clients'[n] = [socket |-> r.fd, name |-> r.name] /\ \A i \in Places : clients'[i] = clients[i]
  <2>1. n \notin Places /\ Places \subseteq Entry
    BY <1>1, <1>6 DEF Places, InOrder
  <2> QED  BY <1>1, <1>6, <2>1 DEF RosterType
<1>8. Lists(clients, Places, Entries(Registered))'
  <2>1. Lists(clients', Places, Entries(Registered))
    BY <1>6, <1>7, ListsSame
  <2>2. Places' = Places
    BY <1>1 DEF Places
  <2> QED  BY <1>5, <2>1, <2>2 DEF Lists
<1>9. Entering(t)'
  BY <1>1, <1>2, <1>7 DEF Entering
<1> QED  BY <1>1, <1>4, <1>5, <1>8, <1>9, EditorKeeps DEF InOrder

(* The count takes the new entry in: the client is registered.             *)
LEMMA StoreCountUpRoster ==
  ASSUME Types, AskInv, own, InOrder, NEW t \in Conn, StoreCountUp(t)
  PROVE  InOrder'
<1> DEFINE r == th[t]
           n == currentClientCount
           e == [socket |-> r.fd, name |-> r.name]
<1>1. /\ ThreadsOK /\ r \in Thread /\ r.at = "count+'" /\ clients' = clients
      /\ th'[t] = Loop(r, "list?") /\ currentClientCount' = r.reg + 1
  BY Given DEF StoreCountUp, Types, ThreadsOK
<1>2. /\ th'[t].at = "list?" /\ th'[t].fd = r.fd /\ th'[t].name = r.name
  BY <1>1 DEF Thread, Loop
<1>3. \A u \in Conn \ {t} : Same(u)
  <2>1. Stepped(t)
    BY RegistrationStep
  <2>2. Gives(t, th'[t])
    BY <1>1, <1>2, <2>1 DEF Stepped
  <2> QED  BY <2>2, OthersSame
<1>4. Editing(t) /\ th'[t].at \notin EditLabel
  BY <1>1, <1>2 DEF Editing, EditLabel, RemovalLabel
<1>5. \A u \in Conn \ {t} : th[u].at \notin EditLabel /\ th'[u].at \notin EditLabel
  BY <1>3, <1>4 DEF InOrder, Editing, Same
<1>6. Registered' = Registered \cup {t} /\ t \notin Registered /\ Registered \subseteq Conn
  BY <1>1, <1>2, <1>3, RegisteredIs, RegisteredIsNext DEF Same, RegisteredLabel
<1>7. Entries(Registered)' = Entries(Registered) \cup {e}
  <2>1. \A u \in Registered : th'[u].fd = th[u].fd /\ th'[u].name = th[u].name
    BY <1>3, <1>6 DEF Same
  <2> QED  BY <1>2, <1>6, <2>1 DEF Entries
<1>8. n \in Entry /\ r.reg = n /\ clients[n] = e /\ Lists(clients, Places, Entries(Registered))
  <2>1. \A u \in Conn : th[u].at \notin RemovalLabel
    BY <1>1, <1>5 DEF EditLabel, RemovalLabel
  <2> QED  BY <1>1, <2>1 DEF InOrder, Entering
<1>9. \A x \in Entries(Registered) : x.socket # e.socket
  <2>1. \A u \in Registered : th[u].fd # r.fd
    <3>1. RegisteredLabel \subseteq Connected /\ r.at \in Connected
      BY <1>1 DEF RegisteredLabel, Connected
    <3> QED  BY <1>6, <3>1, DistinctSockets, RegisteredIs
  <2> QED  BY <2>1 DEF Entries
<1>10. n \notin Places /\ n \in 0 .. MAXIMUM_CONNECTED_CLIENTS - 1 /\ n + 1 \in 0 .. MAXIMUM_CONNECTED_CLIENTS
  BY <1>8, CapacityAssumption DEF Places, Entry
<1>11. Places' = Places \cup {n}
  BY <1>1, <1>8, <1>10, PlacesAre, PlacesAreNext DEF InOrder
<1>12. Lists(clients, Places \cup {n}, Entries(Registered) \cup {e})
  <2> HIDE DEF n, e
  <2> QED  BY <1>8, <1>9, <1>10, ListsAdd
<1>13. Lists(clients, Places, Entries(Registered))'
  BY <1>1, <1>7, <1>11, <1>12 DEF Lists
<1>14. Entering(t)' /\ th'[t].at \notin RemovalLabel
  BY <1>2 DEF Entering, RemovalLabel
<1> QED  BY <1>1, <1>5, <1>8, <1>10, <1>13, <1>14, EditorKeeps

(* The count is loaded to be stored again.                                 *)
LEMMA LoadCountRoster ==
  ASSUME Types, InOrder, NEW t \in Conn, LoadCount(t)
  PROVE  InOrder'
<1> DEFINE r == th[t]
           l == IF r.at = "count+" THEN "count+'" ELSE "count-'"
           n == currentClientCount
<1>1. /\ ThreadsOK /\ r \in Thread /\ r.at \in {"count+", "count-"} /\ UNCHANGED roster /\ n \in Int
      /\ th'[t] = [r EXCEPT !.at = IF @ = "count+" THEN "count+'" ELSE "count-'", !.reg = n]
  BY Given DEF LoadCount, Types, ThreadsOK, SharedOK
<1>2. /\ th'[t].at = l /\ th'[t].reg = n /\ th'[t].fd = r.fd /\ th'[t].name = r.name
      /\ th'[t].i = r.i /\ th'[t].j = r.j
  BY <1>1 DEF Thread
<1>3. Gives(t, th'[t])
  <2>1. Stepped(t)
    BY RegistrationStep
  <2> QED  BY <1>1, <1>2, <2>1 DEF Stepped
<1>4. /\ Editing(t) /\ th'[t].at \in EditLabel
      /\ th'[t].at \in RemovalLabel <=> r.at = "count-"
      /\ r.at \in RemovalLabel <=> r.at = "count-"
  BY <1>1, <1>2 DEF Editing, EditLabel, RemovalLabel
<1>5. /\ \A u \in Conn \ {t} : th[u].at \notin EditLabel /\ th'[u].at \notin EditLabel
      /\ Entries(Registered)' = Entries(Registered) /\ Registered' = Registered
      /\ \A u \in Registered : th'[u].fd = th[u].fd
  BY <1>2, <1>3, <1>4, EditorFinds
<1>6. clients' = clients /\ currentClientCount' = n /\ Places' = Places
  BY <1>1 DEF roster, Places
<1>7. CASE r.at = "count+"
  <2>1. Lists(clients, Places, Entries(Registered))'
    BY <1>4, <1>5, <1>6, <1>7 DEF InOrder, Lists, EditLabel
  <2>2. Entering(t)'
    BY <1>2, <1>6, <1>7 DEF InOrder, Entering
  <2> QED  BY <1>4, <1>5, <1>6, <1>7, <2>1, <2>2, EditorKeeps DEF InOrder
<1>8. CASE r.at = "count-"
  <2>1. Leaving(t)
    BY <1>4, <1>8 DEF InOrder
  <2>2. th'[t].at = "count-'"
    BY <1>2, <1>8
  <2>3. Leaving(t)'
    <3>1. /\ r.j \in Places /\ Lists(clients, Places \ {r.j}, Entries(Registered)) /\ r.j = n - 1
          /\ \A u \in Registered : th[u].fd # r.fd
      BY <1>8, <2>1 DEF Leaving
    <3>2. Lists(clients, Places \ {th[t].j}, Entries(Registered))'
      BY <1>2, <1>5, <1>6, <3>1 DEF Lists
    <3>3. \A u \in Registered' : th'[u].fd # th'[t].fd
      BY <1>2, <1>5, <3>1
    <3> HIDE DEF r, n
    <3>4. th'[t].j \in Places' /\ th'[t].j = currentClientCount' - 1 /\ th'[t].reg = currentClientCount'
      BY <1>2, <1>6, <3>1
    <3> QED  BY <2>2, <3>2, <3>3, <3>4 DEF Leaving
  <2>4. Entering(t)'
    BY <2>2 DEF Entering
  <2> QED  BY <1>4, <1>5, <1>6, <1>8, <2>3, <2>4, EditorKeeps DEF InOrder
<1> QED  BY <1>1, <1>7, <1>8

(* Removal.                                                                *)
LEMMA CloseRoster ==
  ASSUME Types, AskInv, own, InOrder, NEW t \in Conn, RecvText(t), th'[t].at = "close", ~OtherEdits(t)
  PROVE  InOrder'
<1> DEFINE r == th[t]
<1>1. r.at = "recv" /\ r \in Thread /\ ThreadsOK /\ UNCHANGED roster
  BY DEF RecvText, Hears, Types, ThreadsOK
<1>2. Goto(t, "close")
  <2>1. ASSUME NEW x, Become(t, [r EXCEPT !.at = "ask", !["text"] = x])
        PROVE  FALSE
    <3>1. th'[t] = [r EXCEPT !.at = "ask", !["text"] = x]
      BY <1>1, <2>1, Given
    <3> QED  BY <1>1, <3>1 DEF Thread
  <2> QED  BY <2>1 DEF RecvText, Hears
<1>3. th'[t].fd = r.fd /\ th'[t].name = r.name
  <2>1. th'[t] = [r EXCEPT !.at = "close"]
    BY <1>1, <1>2, Given DEF Goto
  <2> QED  BY <1>1, <2>1 DEF Thread
<1>4. \A u \in Conn \ {t} : Same(u) /\ th[u].at \notin EditLabel /\ th'[u].at \notin EditLabel
  <2>1. Gives(t, th'[t])
    <3>1. Stepped(t)
      BY HearsStep
    <3> QED  BY <1>1, <3>1 DEF Stepped
  <2> QED  BY <2>1, OthersSame DEF OtherEdits, Editing, Same
<1>5. Registered' = Registered \ {t} /\ t \in Registered /\ Registered \subseteq Conn
  BY <1>1, <1>4, RegisteredIs, RegisteredIsNext DEF Same, RegisteredLabel
<1>6. Entries(Registered \cup {t})' = Entries(Registered)
  <2>1. \A u \in Registered : th'[u].fd = th[u].fd /\ th'[u].name = th[u].name
    BY <1>3, <1>4, <1>5 DEF Same
  <2>2. Registered' \cup {t} = Registered
    BY <1>5
  <2> QED  BY <2>1, <2>2 DEF Entries
<1>7. Lists(clients, Places, Entries(Registered \cup {t}))'
  <2>1. \A u \in Conn : th[u].at \notin RemovalLabel
    BY <1>1, <1>4 DEF EditLabel, RemovalLabel
  <2> QED  BY <1>1, <1>6, <2>1 DEF InOrder, Lists, Places, roster
<1>8. \A u \in Registered' : th'[u].fd # th'[t].fd
  <2>1. RegisteredLabel \subseteq Connected
    BY DEF RegisteredLabel, Connected
  <2>2. \A u \in Registered \ {t} : th[u].fd # r.fd
    BY <1>5, <2>1, DistinctSockets, RegisteredIs
  <2> QED  BY <1>3, <1>4, <1>5, <2>2 DEF Same
<1>9. Leaving(t)' /\ Entering(t)' /\ th'[t].at \in RemovalLabel
  BY <1>7, <1>8 DEF Leaving, Searching, Entering, RemovalLabel
<1>10. currentClientCount' \in 0 .. MAXIMUM_CONNECTED_CLIENTS
  BY <1>1 DEF InOrder, roster
<1> QED  BY <1>4, <1>9, <1>10, EditorKeeps

\* A step of a removal that goes on: what does not change.
LEMMA RemovalFinds ==
  ASSUME Types, InOrder, NEW t \in Conn, RemoveClient(t), th[t].at \in RemovalLabel,
         th'[t].at \in RemovalLabel, th'[t].at # th[t].at, th'[t].fd = th[t].fd, th'[t].name = th[t].name
  PROVE  /\ \A u \in Conn \ {t} : th[u].at \notin EditLabel /\ th'[u].at \notin EditLabel
         /\ Entries(Registered)' = Entries(Registered)
         /\ Entries(Registered \cup {t})' = Entries(Registered \cup {t})
         /\ \A u \in Registered' : th'[u].fd # th'[t].fd
         /\ Leaving(t) /\ Entering(t)'
<1>1. Gives(t, th'[t])
  <2>1. Stepped(t)
    BY RemovalStep
  <2> QED  BY <2>1 DEF Stepped
<1>2. Editing(t) /\ th'[t].at \in EditLabel
  BY DEF Editing, EditLabel
<1>3. Leaving(t)
  BY DEF InOrder
<1>4. Entering(t)'
  BY DEF Entering, RemovalLabel
<1> QED  BY <1>1, <1>2, <1>3, <1>4, EditorFinds DEF Leaving

(* The leaver's socket is closed, its entry still listed.                  *)
LEMMA CloseSocketRoster ==
  ASSUME Types, InOrder, NEW t \in Conn, Close(t)
  PROVE  InOrder'
<1> DEFINE r == th[t]
<1>1. /\ ThreadsOK /\ r \in Thread /\ r.at = "close" /\ UNCHANGED roster
      /\ th'[t] = [r EXCEPT !.at = "find?", !.i = 0]
  BY Given DEF Close, Types, ThreadsOK
<1>2. th'[t].at = "find?" /\ th'[t].fd = r.fd /\ th'[t].name = r.name /\ th'[t].i = 0
  BY <1>1 DEF Thread
<1>3. r.at \in RemovalLabel /\ th'[t].at \in RemovalLabel /\ r.at # th'[t].at
  BY <1>1, <1>2 DEF RemovalLabel
<1>4. /\ \A u \in Conn \ {t} : th'[u].at \notin EditLabel
      /\ Entries(Registered \cup {t})' = Entries(Registered \cup {t})
      /\ \A u \in Registered' : th'[u].fd # th'[t].fd
      /\ Leaving(t) /\ Entering(t)'
  BY <1>2, <1>3, RemovalFinds DEF RemoveClient
<1>5. clients' = clients /\ currentClientCount' = currentClientCount /\ Places' = Places
  BY <1>1 DEF roster, Places
<1>6. Lists(clients, Places, Entries(Registered \cup {t}))'
  BY <1>1, <1>4, <1>5 DEF Leaving, Searching, Lists
<1>7. \A k \in Places : ~(k < 0)
  BY DEF InOrder, Places, Entry
<1>8. Leaving(t)'
  BY <1>2, <1>4, <1>5, <1>6, <1>7 DEF Leaving, Searching
<1> QED  BY <1>3, <1>4, <1>5, <1>8, EditorKeeps DEF InOrder

\* As long as t's entry is listed, it is behind what t has looked at.
LEMMA NotYetFound ==
  ASSUME InOrder, NEW t \in Conn, Leaving(t), th[t].at \in {"find?", "find"}
  PROVE  /\ th[t].i >= currentClientCount /\ th[t].i \in Nat => Lists(clients, Places, Entries(Registered))
         /\ \A k \in Places : clients[k].socket = th[t].fd =>
              ~(k < th[t].i) /\ Lists(clients, Places, Entries(Registered \cup {t}))
<1> DEFINE e == [socket |-> th[t].fd, name |-> th[t].name]
<1>1. e \in Entries(Registered \cup {t})
  BY DEF Entries
<1>2. Searching(t)
  BY DEF Leaving
<1>3. ASSUME Lists(clients, Places, Entries(Registered \cup {t}))
      PROVE  \E k \in Places : clients[k].socket = th[t].fd
  BY <1>1, <1>3 DEF Lists
<1>4. ASSUME Lists(clients, Places, Entries(Registered))
      PROVE  \A k \in Places : clients[k].socket # th[t].fd
  <2>1. \A k \in Places : \E u \in Registered : clients[k].socket = th[u].fd
    BY <1>4 DEF Lists, Entries
  <2> QED  BY <2>1 DEF Leaving
<1>5. ASSUME th[t].i >= currentClientCount, th[t].i \in Nat
      PROVE  Lists(clients, Places, Entries(Registered))
  <2>1. \A k \in Places : k < th[t].i
    BY <1>5, PlacesAre DEF InOrder
  <2> QED  BY <1>2, <1>3, <2>1 DEF Searching
<1>6. \A k \in Places : clients[k].socket = th[t].fd =>
              ~(k < th[t].i) /\ Lists(clients, Places, Entries(Registered \cup {t}))
  BY <1>2, <1>4 DEF Searching
<1> QED  BY <1>5, <1>6

\* The search goes on as long as there are entries; one of them is the leaver's.
LEMMA SearchRoster ==
  ASSUME Types, InOrder, NEW t \in Conn, While(t, "find?", "find", "exit"), th' # th
  PROVE  InOrder'
<1> DEFINE r == th[t]
           n == currentClientCount
           l == th'[t].at
<1>1. /\ ThreadsOK /\ r \in Thread /\ r.at = "find?" /\ UNCHANGED roster
      /\ \/ l = "find" /\ r.i \in Places /\ Goto(t, "find")
         \/ l = "exit" /\ r.i >= n /\ Goto(t, "exit")
  <2>1. /\ ThreadsOK /\ r \in Thread /\ r.at = "find?" /\ UNCHANGED roster /\ r.i \in Int /\ n \in Int
    BY DEF While, Types, ThreadsOK, Thread, InOrder
  <2>2. \/ r.i \in Places /\ Goto(t, "find")
        \/ r.i >= n /\ Goto(t, "exit")
    BY <2>1 DEF While, Places
  <2>3. ASSUME NEW k, Goto(t, k)
        PROVE  l = k
    <3>1. th'[t] = [r EXCEPT !.at = k]
      BY <2>1, <2>3, Given DEF Goto
    <3> QED  BY <2>1, <3>1 DEF Thread
  <2> QED  BY <2>1, <2>2, <2>3
<1>3. th'[t].fd = r.fd /\ th'[t].name = r.name /\ th'[t].i = r.i
  <2>1. ASSUME NEW k, Goto(t, k)
        PROVE  th'[t].fd = r.fd /\ th'[t].name = r.name /\ th'[t].i = r.i
    <3>1. th'[t] = [r EXCEPT !.at = k]
      BY <1>1, <2>1, Given DEF Goto
    <3> QED  BY <1>1, <3>1 DEF Thread
  <2> QED  BY <1>1, <2>1
<1>4. r.at \in RemovalLabel /\ RemoveClient(t) /\ Leaving(t)
  BY <1>1 DEF RemovalLabel, RemoveClient, InOrder
<1>5. clients' = clients /\ currentClientCount' = n /\ Places' = Places
  BY <1>1 DEF roster, Places
<1>6. CASE l = "find"
  <2>1. l \in RemovalLabel /\ r.at # l
    BY <1>1, <1>6 DEF RemovalLabel
  <2>2. /\ \A u \in Conn \ {t} : th'[u].at \notin EditLabel
        /\ Entries(Registered)' = Entries(Registered)
        /\ Entries(Registered \cup {t})' = Entries(Registered \cup {t})
        /\ \A u \in Registered' : th'[u].fd # th'[t].fd
        /\ Entering(t)'
    BY <1>3, <1>4, <2>1, RemovalFinds
  <2>3. Searching(t)'
    BY <1>1, <1>3, <1>4, <1>5, <1>6, <2>2 DEF Leaving, Searching, Lists
  <2>4. Leaving(t)'
    BY <1>1, <1>3, <1>5, <1>6, <2>2, <2>3 DEF Leaving
  <2> QED  BY <1>5, <2>1, <2>2, <2>4, EditorKeeps DEF InOrder
<1>7. CASE l = "exit"
  <2>1. \A u \in Conn \ {t} : Same(u) /\ th[u].at \notin EditLabel /\ th'[u].at \notin EditLabel
    <3>1. Gives(t, th'[t])
      <4>1. Stepped(t)
        BY <1>4, RemovalStep
      <4> QED  BY <4>1 DEF Stepped
    <3>2. Editing(t)
      BY <1>1 DEF Editing, EditLabel, RemovalLabel
    <3> QED  BY <3>1, <3>2, OthersSame DEF InOrder, Editing, Same
  <2>2. Registered' = Registered /\ Registered \subseteq Conn /\ t \notin Registered
    BY <1>1, <1>7, <2>1, RegisteredIs, RegisteredIsNext DEF Same, RegisteredLabel
  <2>3. Entries(Registered)' = Entries(Registered)
    BY <2>1, <2>2 DEF Entries, Same
  <2>4. Lists(clients, Places, Entries(Registered))
    <3>1. r.i \in Nat /\ r.i >= n
      BY <1>1, <1>7 DEF Thread
    <3> QED  BY <1>1, <1>4, <3>1, NotYetFound
  <2>5. Lists(clients, Places, Entries(Registered))'
    BY <1>5, <2>3, <2>4 DEF Lists
  <2>6. Entering(t)' /\ l \notin RemovalLabel
    BY <1>7 DEF Entering, RemovalLabel
  <2> QED  BY <1>5, <2>1, <2>5, <2>6, EditorKeeps DEF InOrder
<1> QED  BY <1>1, <1>6, <1>7

(* An entry is compared with the leaver's socket.                          *)
LEMMA FindRoster ==
  ASSUME Types, InOrder, NEW t \in Conn, Find(t)
  PROVE  InOrder'
<1> DEFINE r == th[t]
           e == [socket |-> r.fd, name |-> r.name]
<1>1. /\ ThreadsOK /\ r \in Thread /\ r.at = "find" /\ UNCHANGED roster /\ r.i \in Entry /\ r.i \in Nat
      /\ \/ clients[r.i].socket = r.fd /\ th'[t] = [r EXCEPT !.at = "shift?", !.j = r.i]
         \/ clients[r.i].socket # r.fd /\ th'[t] = [r EXCEPT !.at = "find?", !.i = @ + 1]
  <2>1. ThreadsOK /\ ThreadOK(r) /\ r.at = "find" /\ UNCHANGED roster
    BY DEF Find, Types, ThreadsOK
  <2>2. r \in Thread /\ r.i \in Entry /\ r.i \in Nat
    BY <2>1 DEF ThreadOK, Indexing, Thread
  <2>3. \/ clients[r.i].socket = r.fd /\ Become(t, [r EXCEPT !.at = "shift?", !.j = r.i])
        \/ clients[r.i].socket # r.fd /\ Become(t, [r EXCEPT !.at = "find?", !.i = @ + 1])
    BY DEF Find
  <2> QED  BY <2>1, <2>2, <2>3, Given
<1>2. r.at \in RemovalLabel /\ RemoveClient(t) /\ Leaving(t) /\ r.i \in Places
  BY <1>1 DEF RemovalLabel, RemoveClient, InOrder, Leaving
<1>3. clients' = clients /\ currentClientCount' = currentClientCount /\ Places' = Places
  BY <1>1 DEF roster, Places
<1>4. CASE clients[r.i].socket = r.fd
  <2>1. th'[t].at = "shift?" /\ th'[t].fd = r.fd /\ th'[t].name = r.name /\ th'[t].j = r.i
    BY <1>1, <1>4 DEF Thread
  <2>2. th'[t].at \in RemovalLabel /\ th'[t].at # r.at
    BY <1>1, <2>1 DEF RemovalLabel
  <2>3. /\ \A u \in Conn \ {t} : th'[u].at \notin EditLabel
        /\ Entries(Registered)' = Entries(Registered)
        /\ \A u \in Registered' : th'[u].fd # th'[t].fd
        /\ Entering(t)'
    BY <1>2, <2>1, <2>2, RemovalFinds
  <2>4. Lists(clients, Places \ {r.i}, Entries(Registered))
    <3>1. Lists(clients, Places, Entries(Registered \cup {t}))
      BY <1>1, <1>2, <1>4, NotYetFound
    <3>2. Entries(Registered \cup {t}) = Entries(Registered) \cup {e}
      BY DEF Entries
    <3>3. \A x \in Entries(Registered) : x.socket # e.socket
      BY <1>2 DEF Leaving, Entries
    <3>4. clients[r.i].socket = e.socket
      BY <1>4
    <3> HIDE DEF e
    <3> QED  BY <1>2, <3>1, <3>2, <3>3, <3>4, ListsDrop
  <2>5. Lists(clients, Places \ {th[t].j}, Entries(Registered))'
    BY <1>3, <2>1, <2>3, <2>4 DEF Lists
  <2>6. Leaving(t)'
    BY <1>2, <1>3, <2>1, <2>3, <2>5 DEF Leaving
  <2> QED  BY <1>3, <2>2, <2>3, <2>6, EditorKeeps DEF InOrder
<1>5. CASE clients[r.i].socket # r.fd
  <2>1. th'[t].at = "find?" /\ th'[t].fd = r.fd /\ th'[t].name = r.name /\ th'[t].i = r.i + 1
    BY <1>1, <1>5 DEF Thread
  <2>2. th'[t].at \in RemovalLabel /\ th'[t].at # r.at
    BY <1>1, <2>1 DEF RemovalLabel
  <2>3. /\ \A u \in Conn \ {t} : th'[u].at \notin EditLabel
        /\ Entries(Registered)' = Entries(Registered)
        /\ Entries(Registered \cup {t})' = Entries(Registered \cup {t})
        /\ \A u \in Registered' : th'[u].fd # th'[t].fd
        /\ Entering(t)'
    BY <1>2, <2>1, <2>2, RemovalFinds
  <2>4. Searching(t)
    BY <1>1, <1>2 DEF Leaving
  <2>5. \A k \in Places : k < r.i + 1 => k < r.i \/ k = r.i
    BY <1>1, PlacesAre DEF InOrder
  <2>6. Searching(t)'
    <3>1. CASE Lists(clients, Places, Entries(Registered))
      BY <1>3, <2>1, <2>3, <3>1 DEF Searching, Lists
    <3>2. CASE /\ Lists(clients, Places, Entries(Registered \cup {t}))
               /\ \A k \in Places : k < r.i => clients[k].socket # r.fd
      <4>1. \A k \in Places' : k < th'[t].i => clients'[k].socket # th'[t].fd
        BY <1>3, <1>5, <2>1, <2>5, <3>2
      <4>2. Lists(clients, Places, Entries(Registered \cup {t}))'
        BY <1>3, <2>3, <3>2 DEF Lists
      <4> QED  BY <4>1, <4>2 DEF Searching
    <3> QED  BY <1>1, <2>4, <3>1, <3>2 DEF Searching
  <2>7. Leaving(t)'
    BY <2>1, <2>3, <2>6 DEF Leaving
  <2> QED  BY <1>3, <2>2, <2>3, <2>7, EditorKeeps DEF InOrder
<1> QED  BY <1>4, <1>5

(* The copying goes on, or is done.                                        *)
LEMMA ShiftOrNotRoster ==
  ASSUME Types, InOrder, NEW t \in Conn, ShiftOrNot(t)
  PROVE  InOrder'
<1> DEFINE r == th[t]
           l == IF ToShift(r.j) THEN "shift" ELSE "count-"
<1>1. /\ ThreadsOK /\ r \in Thread /\ r.at = "shift?" /\ UNCHANGED roster
      /\ th'[t] = [r EXCEPT !.at = l]
  <2>1. ThreadsOK /\ r \in Thread /\ r.at = "shift?" /\ UNCHANGED roster
    BY DEF ShiftOrNot, Types, ThreadsOK
  <2>2. Become(t, [r EXCEPT !.at = l])
    BY DEF ShiftOrNot, Goto
  <2> QED  BY <2>1, <2>2, Given
<1>2. th'[t].at = l /\ th'[t].fd = r.fd /\ th'[t].name = r.name /\ th'[t].j = r.j
  BY <1>1 DEF Thread
<1>3. r.at \in RemovalLabel /\ l \in RemovalLabel /\ r.at # l
  BY <1>1 DEF RemovalLabel
<1>4. /\ \A u \in Conn \ {t} : th'[u].at \notin EditLabel
      /\ Entries(Registered)' = Entries(Registered)
      /\ \A u \in Registered' : th'[u].fd # th'[t].fd
      /\ Leaving(t) /\ Entering(t)'
  BY <1>2, <1>3, RemovalFinds DEF RemoveClient
<1>5. clients' = clients /\ currentClientCount' = currentClientCount /\ Places' = Places
  BY <1>1 DEF roster, Places
<1>6. r.j \in Places /\ Lists(clients, Places \ {r.j}, Entries(Registered))
  BY <1>1, <1>4 DEF Leaving
<1>7. Lists(clients, Places \ {th[t].j}, Entries(Registered))'
  BY <1>2, <1>4, <1>5, <1>6 DEF Lists
<1>8. CASE ToShift(r.j)
  <2>1. th'[t].at = "shift" /\ th'[t].j < currentClientCount' - 1
    BY <1>2, <1>5, <1>8 DEF ToShift
  <2>2. Leaving(t)'
    BY <1>2, <1>4, <1>5, <1>6, <1>7, <2>1 DEF Leaving
  <2> QED  BY <1>2, <1>3, <1>4, <1>5, <2>2, EditorKeeps DEF InOrder
<1>9. CASE ~ToShift(r.j)
  <2>1. th'[t].at = "count-" /\ th'[t].j = currentClientCount' - 1
    <3>1. r.j = currentClientCount - 1
      BY <1>6, <1>9, PlacesAre DEF ToShift, InOrder
    <3> QED  BY <1>2, <1>5, <1>9, <3>1
  <2>2. Leaving(t)'
    BY <1>2, <1>4, <1>5, <1>6, <1>7, <2>1 DEF Leaving
  <2> QED  BY <1>2, <1>3, <1>4, <1>5, <2>2, EditorKeeps DEF InOrder
<1> QED  BY <1>8, <1>9

(* An entry is copied one place down.                                      *)
LEMMA ShiftRoster ==
  ASSUME Types, InOrder, NEW t \in Conn, Shift(t), th' # th
  PROVE  InOrder'
<1> DEFINE r == th[t]
           m == r.j + 1
<1>1. /\ ThreadsOK /\ r \in Thread /\ r.at = "shift" /\ clients \in RosterType
      /\ clients' = [clients EXCEPT ![r.j] = clients[m]] /\ currentClientCount' = currentClientCount
      /\ th'[t] = [r EXCEPT !.at = "shift?", !.j = m] /\ m \in Entry
  <2>1. ThreadsOK /\ r \in Thread /\ r.at = "shift" /\ clients \in RosterType
    BY DEF Shift, Types, ThreadsOK, SharedOK
  <2>2. /\ m \in Entry /\ clients' = [clients EXCEPT ![r.j] = clients[m]]
        /\ currentClientCount' = currentClientCount
        /\ Disturb(t, [r EXCEPT !.at = "shift?", !.j = m], r.j)
    BY DEF Shift
  <2> QED  BY <2>1, <2>2, Given
<1>2. th'[t].at = "shift?" /\ th'[t].fd = r.fd /\ th'[t].name = r.name /\ th'[t].j = m
  BY <1>1 DEF Thread
<1>3. r.at \in RemovalLabel /\ th'[t].at \in RemovalLabel /\ r.at # th'[t].at
  BY <1>1, <1>2 DEF RemovalLabel
<1>4. /\ \A u \in Conn \ {t} : th'[u].at \notin EditLabel
      /\ Entries(Registered)' = Entries(Registered)
      /\ \A u \in Registered' : th'[u].fd # th'[t].fd
      /\ Leaving(t) /\ Entering(t)'
  BY <1>2, <1>3, RemovalFinds DEF RemoveClient
<1>5. /\ r.j \in Places /\ Lists(clients, Places \ {r.j}, Entries(Registered))
      /\ r.j < currentClientCount - 1
  BY <1>1, <1>4 DEF Leaving
<1>6. m \in Places /\ r.j # m /\ Places \subseteq DOMAIN clients /\ Places' = Places
  <2>1. Places = 0 .. currentClientCount - 1 /\ Places \subseteq Entry /\ currentClientCount \in Nat
    BY PlacesAre DEF InOrder
  <2>2. Places' = Places
    BY <1>1 DEF Places
  <2> QED  BY <1>1, <1>5, <2>1, <2>2 DEF RosterType
<1>7. Lists(clients', Places \ {m}, Entries(Registered))
  <2>1. Lists([clients EXCEPT ![r.j] = clients[m]], Places \ {m}, Entries(Registered))
    <3> HIDE DEF m
    <3> QED  BY <1>5, <1>6, ListsShift
  <2> QED  BY <1>1, <2>1
<1>8. Lists(clients, Places \ {th[t].j}, Entries(Registered))'
  BY <1>2, <1>4, <1>6, <1>7
<1>9. Leaving(t)'
  BY <1>2, <1>4, <1>6, <1>8 DEF Leaving
<1> QED  BY <1>1, <1>3, <1>4, <1>9, EditorKeeps DEF InOrder

(* The count gives up the last place.                                      *)
LEMMA StoreCountDownRoster ==
  ASSUME Types, InOrder, NEW t \in Conn, StoreCountDown(t)
  PROVE  InOrder'
<1> DEFINE r == th[t]
           n == currentClientCount
<1>1. /\ ThreadsOK /\ r \in Thread /\ r.at = "count-'" /\ clients' = clients
      /\ currentClientCount' = r.reg - 1 /\ th'[t] = [r EXCEPT !.at = "find?", !.i = @ + 1]
  BY Given DEF StoreCountDown, OneFewer, Types, ThreadsOK
<1>2. th'[t].at = "find?" /\ th'[t].fd = r.fd /\ th'[t].name = r.name
  BY <1>1 DEF Thread
<1>3. r.at \in RemovalLabel /\ th'[t].at \in RemovalLabel /\ r.at # th'[t].at
  BY <1>1, <1>2 DEF RemovalLabel
<1>4. /\ \A u \in Conn \ {t} : th'[u].at \notin EditLabel
      /\ Entries(Registered)' = Entries(Registered)
      /\ \A u \in Registered' : th'[u].fd # th'[t].fd
      /\ Leaving(t) /\ Entering(t)'
  BY <1>2, <1>3, RemovalFinds DEF RemoveClient
<1>5. /\ r.j \in Places /\ Lists(clients, Places \ {r.j}, Entries(Registered))
      /\ r.j = n - 1 /\ r.reg = n
  BY <1>1, <1>4 DEF Leaving
<1>6. n - 1 \in 0 .. MAXIMUM_CONNECTED_CLIENTS /\ Places' = Places \ {r.j}
  <2>1. Places = 0 .. n - 1 /\ n \in 0 .. MAXIMUM_CONNECTED_CLIENTS /\ MAXIMUM_CONNECTED_CLIENTS \in Nat
    BY PlacesAre, CapacityAssumption DEF InOrder
  <2>2. n - 1 \in 0 .. MAXIMUM_CONNECTED_CLIENTS /\ currentClientCount' = n - 1
    BY <1>1, <1>5, <2>1
  <2>3. Places' = 0 .. n - 2
    <3>1. Places' = 0 .. currentClientCount' - 1
      BY <2>2, PlacesAreNext
    <3>2. (n - 1) - 1 = n - 2
      BY <2>1
    <3> QED  BY <2>2, <3>1, <3>2
  <2> QED  BY <1>5, <2>1, <2>2, <2>3
<1>7. Lists(clients, Places, Entries(Registered))'
  BY <1>1, <1>4, <1>5, <1>6
<1>8. Leaving(t)'
  BY <1>2, <1>4, <1>7 DEF Leaving, Searching
<1> QED  BY <1>1, <1>3, <1>4, <1>5, <1>6, <1>8, EditorKeeps
\* A step of a thread that is not about the roster.
Elsewhere(r, q) ==
  /\ r.at \notin EditLabel /\ q.at \notin EditLabel
  /\ q.at \in RegisteredLabel <=> r.at \in RegisteredLabel
  /\ r.at \in RegisteredLabel => q.fd = r.fd /\ q.name = r.name

(* A step of a thread that is not editing, and does not touch the roster.  *)
LEMMA ElsewhereKeeps ==
  ASSUME Types, RosterInv, NEW t \in Conn, Stepped(t), UNCHANGED roster,
         own' /\ serial' => own /\ serial, th' = th \/ Elsewhere(th[t], th'[t])
  PROVE  RosterInv'
<1>1. CASE th' = th
  BY <1>1, AsideKeeps DEF Same
<1>2. CASE Gives(t, th'[t]) /\ Elsewhere(th[t], th'[t])
  BY <1>2, OthersSame, AsideKeeps DEF Elsewhere
<1> QED  BY <1>1, <1>2 DEF Stepped

(* The loops' steps and those with the helper are of this kind.            *)
LEMMA LoopsElsewhere ==
  ASSUME Types, NEW t \in Conn,
         \/ While(t, "list?", "list", "list!") \/ While(t, "push?", "push", "recv")
         \/ While(t, "cast?", "own?", "recv") \/ CopyName(t) \/ SendList(t) \/ SkipOwn(t)
         \/ SendToEntry(t, "push", "push?") \/ SendToEntry(t, "cast", "cast?")
         \/ AskHelper(t) \/ HearHelper(t)
  PROVE  th' = th \/ Elsewhere(th[t], th'[t])
<1> DEFINE r == th[t]
           q == th'[t]
<1> USE DEF EditLabel, RemovalLabel, RegisteredLabel, Elsewhere
<1>0. ThreadsOK /\ r \in Thread
  BY DEF Types, ThreadsOK
<1>1. ASSUME NEW l, Goto(t, l)
      PROVE  q.at = l /\ q.fd = r.fd /\ q.name = r.name
  <2>1. q = [r EXCEPT !.at = l]
    BY <1>0, <1>1, Given DEF Goto
  <2> QED  BY <1>0, <2>1 DEF Thread
<1>2. ASSUME NEW from \in RegisteredLabel, NEW body \in RegisteredLabel, NEW after \in RegisteredLabel,
             While(t, from, body, after)
      PROVE  th' = th \/ Elsewhere(r, q)
  <2>1. r.at = from /\ (th' = th \/ Goto(t, body) \/ Goto(t, after))
    BY <1>2 DEF While
  <2>2. ASSUME NEW l \in RegisteredLabel, Goto(t, l)
        PROVE  Elsewhere(r, q)
    <3>1. q.at = l /\ q.fd = r.fd /\ q.name = r.name
      BY <1>1, <2>2
    <3> HIDE DEF q, r
    <3> QED  BY <2>1, <3>1 DEF r
  <2> QED  BY <2>1, <2>2
<1>3. ASSUME NEW l \in RegisteredLabel, r.at \in RegisteredLabel,
             \/ \E x : q = [r EXCEPT !.at = l, !.i = @ + 1, !.reached = x]
             \/ q = [r EXCEPT !.at = l, !.i = @ + 1]
             \/ q = Loop(r, l)
             \/ \E x : q = [Loop(r, l) EXCEPT !.text = x]
      PROVE  Elsewhere(r, q)
  <2>1. q.at = l /\ q.fd = r.fd /\ q.name = r.name
    BY <1>0, <1>3 DEF Thread, Loop
  <2> HIDE DEF q, r
  <2> QED  BY <1>3, <2>1
<1>4. CASE CopyName(t)
  <2>1. r.at = "list" /\ \E x : q = [r EXCEPT !.at = "list?", !.i = @ + 1, !.reached = x]
    BY <1>0, <1>4, Given DEF CopyName
  <2> QED  BY <1>3, <2>1
<1>5. CASE SendList(t)
  <2>1. r.at = "list!" /\ q = Loop(r, "push?")
    BY <1>0, <1>5, Given DEF SendList
  <2> QED  BY <1>3, <2>1
<1>6. CASE HearHelper(t)
  <2>1. r.at = "answer" /\ \E x : q = [Loop(r, "cast?") EXCEPT !.text = x]
    BY <1>0, <1>6, Given DEF HearHelper
  <2> QED  BY <1>3, <2>1
<1>7. CASE AskHelper(t)
  <2>1. r.at = "ask" /\ q.at = "answer" /\ q.fd = r.fd /\ q.name = r.name
    BY <1>1, <1>7 DEF AskHelper
  <2> HIDE DEF q, r
  <2> QED  BY <2>1 DEF q, r
<1>8. CASE SkipOwn(t)
  <2>1. r.at = "own?" /\ (Goto(t, "cast") \/ q = [r EXCEPT !.at = "cast?", !.i = @ + 1])
    BY <1>0, <1>8, Given DEF SkipOwn
  <2>2. CASE Goto(t, "cast")
    <3>1. q.at = "cast" /\ q.fd = r.fd /\ q.name = r.name
      BY <1>1, <2>2
    <3> HIDE DEF q, r
    <3> QED  BY <2>1, <3>1 DEF q, r
  <2> QED  BY <1>3, <2>1, <2>2
<1>9. ASSUME NEW from \in RegisteredLabel, NEW next \in RegisteredLabel, SendToEntry(t, from, next)
      PROVE  Elsewhere(r, q)
  <2>1. /\ r.at = from
        /\ q = [r EXCEPT !.at = next, !.i = @ + 1, !.reached = Append(@, clients[r.i].socket)]
    BY <1>0, <1>9, Given DEF SendToEntry
  <2>2. \E x : q = [r EXCEPT !.at = next, !.i = @ + 1, !.reached = x]
    BY <2>1
  <2> QED  BY <1>3, <2>1, <2>2
<1> QED  BY <1>2, <1>4, <1>5, <1>6, <1>7, <1>8, <1>9

(* Every step of a thread keeps the roster in order.                       *)
LEMMA RosterThread ==
  ASSUME Types, AskInv, RosterInv, NEW t \in Conn, clientThreadSplitFunction(t)
  PROVE  RosterInv'
<1> DEFINE r == th[t]
           q == th'[t]
<1>0. ThreadsOK /\ r \in Thread /\ Stepped(t)
  BY ThreadStep DEF Types, ThreadsOK
<1>1. CASE Start(t)
  <2>1. r.at = "start" /\ q.at = "name"
    <3>1. q = [r EXCEPT !.at = "name", !.fd = client_socket]
      BY <1>0, <1>1, Given DEF Start
    <3> QED  BY <1>0, <1>1, <3>1 DEF Start, Thread
  <2>2. Elsewhere(r, q)
    BY <2>1 DEF Elsewhere, EditLabel, RemovalLabel, RegisteredLabel
  <2> QED  BY <1>0, <1>1, <2>2, ElsewhereKeeps DEF Start
<1>2. CASE RecvName(t)
  <2>1. UNCHANGED <<roster, own>> /\ (serial' => serial)
    BY <1>2 DEF RecvName, Hears
  <2>2. r.at = "name" /\ q.at \in {"slot", "drop"}
    <3>1. ASSUME NEW l, Goto(t, l) PROVE q.at = l
      <4>1. q = [r EXCEPT !.at = l]
        BY <1>0, <3>1, Given DEF Goto
      <4> QED  BY <1>0, <4>1 DEF Thread
    <3>2. ASSUME NEW x, Become(t, [r EXCEPT !.at = "slot", !["name"] = x]) PROVE q.at = "slot"
      <4>1. q = [r EXCEPT !.at = "slot", !["name"] = x]
        BY <1>0, <3>2, Given
      <4> QED  BY <1>0, <4>1 DEF Thread
    <3> QED  BY <1>2, <3>1, <3>2 DEF RecvName, Hears
  <2>3. CASE q.at = "drop"
    <3>1. Elsewhere(r, q)
      BY <2>2, <2>3 DEF Elsewhere, EditLabel, RemovalLabel, RegisteredLabel
    <3> QED  BY <1>0, <2>1, <3>1, ElsewhereKeeps
  <2>4. CASE q.at = "slot"
    <3>1. serial' => ~OtherEdits(t)
      BY <1>2, <2>4 DEF RecvName
    <3> QED  BY <1>2, <2>1, <2>4, <3>1, SlotRoster DEF RosterInv
  <2> QED  BY <2>2, <2>3, <2>4
<1>3. CASE RecvText(t)
  <2>1. UNCHANGED <<roster, own>> /\ (serial' => serial)
    BY <1>3 DEF RecvText, Hears
  <2>2. r.at = "recv" /\ q.at \in {"ask", "close"} /\ q.fd = r.fd /\ q.name = r.name
    <3>1. ASSUME NEW l, Goto(t, l) PROVE q.at = l /\ q.fd = r.fd /\ q.name = r.name
      <4>1. q = [r EXCEPT !.at = l]
        BY <1>0, <3>1, Given DEF Goto
      <4> QED  BY <1>0, <4>1 DEF Thread
    <3>2. ASSUME NEW x, Become(t, [r EXCEPT !.at = "ask", !["text"] = x])
          PROVE q.at = "ask" /\ q.fd = r.fd /\ q.name = r.name
      <4>1. q = [r EXCEPT !.at = "ask", !["text"] = x]
        BY <1>0, <3>2, Given
      <4> QED  BY <1>0, <4>1 DEF Thread
    <3> QED  BY <1>3, <3>1, <3>2 DEF RecvText, Hears
  <2>3. CASE q.at = "ask"
    <3>1. Elsewhere(r, q)
      BY <2>2, <2>3 DEF Elsewhere, EditLabel, RemovalLabel, RegisteredLabel
    <3> QED  BY <1>0, <2>1, <3>1, ElsewhereKeeps
  <2>4. CASE q.at = "close"
    <3>1. serial' => ~OtherEdits(t)
      BY <1>3, <2>4 DEF RecvText
    <3> QED  BY <1>3, <2>1, <2>4, <3>1, CloseRoster DEF RosterInv
  <2> QED  BY <2>2, <2>3, <2>4
<1>4. CASE Drop(t)
  <2>1. r.at = "drop" /\ q.at = "exit"
    <3>1. q = [r EXCEPT !.at = "exit"]
      BY <1>0, <1>4, Given DEF Drop, Goto
    <3> QED  BY <1>0, <1>4, <3>1 DEF Drop, Thread
  <2>2. Elsewhere(r, q)
    BY <2>1 DEF Elsewhere, EditLabel, RemovalLabel, RegisteredLabel
  <2> QED  BY <1>0, <1>4, <2>2, ElsewhereKeeps DEF Drop, history
<1>5. CASE \/ While(t, "list?", "list", "list!") \/ While(t, "push?", "push", "recv")
           \/ While(t, "cast?", "own?", "recv") \/ CopyName(t) \/ SendList(t) \/ SkipOwn(t)
           \/ SendToEntry(t, "push", "push?") \/ SendToEntry(t, "cast", "cast?")
           \/ AskHelper(t) \/ HearHelper(t)
  <2>1. th' = th \/ Elsewhere(r, q)
    BY <1>5, LoopsElsewhere
  <2>2. UNCHANGED <<roster, own, serial>>
    BY <1>5 DEF While, CopyName, SendList, SkipOwn, SendToEntry, AskHelper, HearHelper, history
  <2> QED  BY <1>0, <2>1, <2>2, ElsewhereKeeps
<1>6. CASE \/ LoadSlot(t) \/ FillSlot(t) \/ LoadCount(t) \/ StoreCountUp(t) \/ Close(t) \/ Find(t)
           \/ While(t, "find?", "find", "exit") \/ ShiftOrNot(t) \/ Shift(t) \/ StoreCountDown(t)
  <2>1. UNCHANGED <<own, serial>>
    BY <1>6 DEF LoadSlot, FillSlot, LoadCount, StoreCountUp, Close, Find, While, ShiftOrNot, Shift,
                StoreCountDown, history
  <2>2. CASE th' = th /\ UNCHANGED roster
    BY <1>0, <2>1, <2>2, ElsewhereKeeps
  <2>3. CASE th' # th \/ ~UNCHANGED roster
    <3>1. FillSlot(t) \/ Shift(t) \/ While(t, "find?", "find", "exit") => th' # th
      <4>1. CASE While(t, "find?", "find", "exit")
        BY <2>3, <4>1 DEF While
      <4>2. CASE FillSlot(t)
        <5>1. \/ th' = th /\ UNCHANGED roster
              \/ r.at = "fill" /\ q = [r EXCEPT !.at = "count+"]
          BY <1>0, <4>2, Given DEF FillSlot, roster
        <5> QED  BY <1>0, <2>3, <5>1 DEF Thread
      <4>3. CASE Shift(t)
        <5>1. \/ th' = th /\ UNCHANGED roster
              \/ r.at = "shift" /\ q = [r EXCEPT !.at = "shift?", !.j = @ + 1]
          BY <1>0, <4>3, Given DEF Shift, roster
        <5> QED  BY <1>0, <2>3, <5>1 DEF Thread
      <4> QED  BY <4>1, <4>2, <4>3
    <3> QED  BY <1>6, <2>1, <3>1, LoadSlotRoster, FillSlotRoster, LoadCountRoster, StoreCountUpRoster,
                CloseSocketRoster, FindRoster, SearchRoster, ShiftOrNotRoster, ShiftRoster,
                StoreCountDownRoster DEF RosterInv
  <2> QED  BY <2>2, <2>3
<1> QED  BY <1>1, <1>2, <1>3, <1>4, <1>5, <1>6
         DEF clientThreadSplitFunction, outputConnectedClients, newClientJoinedPush,
             sendPublicMessage, RemoveClient

(* RosterInv is inductive, given the types and AskInv.                     *)
LEMMA RosterStep ==
  ASSUME Types, AskInv, RosterInv, [Next]_vars
  PROVE  RosterInv'
<1>1. CASE th' = th /\ UNCHANGED roster /\ own' = own /\ serial' = serial
  BY <1>1, AsideKeeps DEF Same
<1>2. CASE Admit /\ th' # th
  <2> DEFINE q == [th[main] EXCEPT !.at = "start"]
  <2>1. main \in Conn /\ th[main].at = "none" /\ Gives(main, q)
    BY <1>2, AdmitTypes
  <2>2. th'[main] = q /\ q.at = "start" /\ ThreadsOK'
    <3>1. th[main] \in Thread /\ ThreadsOK'
      BY <1>2, <2>1, AdmitTypes DEF Types, ThreadsOK
    <3> QED  BY <2>1, <3>1 DEF Thread, Gives
  <2>3. Elsewhere(th[main], th'[main])
    BY <2>1, <2>2 DEF Elsewhere, EditLabel, RemovalLabel, RegisteredLabel
  <2>4. Stepped(main) /\ UNCHANGED <<roster, own, serial>>
    BY <1>2, <2>1, <2>2 DEF Stepped, Admit, history
  <2> QED  BY <2>1, <2>3, <2>4, ElsewhereKeeps
<1>3. ASSUME NEW t \in Conn, clientThreadSplitFunction(t)
      PROVE  RosterInv'
  BY <1>3, RosterThread
<1> QED  BY <1>1, <1>2, <1>3 DEF Next, Connect, Say, Leave, HelperAnswers, HelperDies, Accept, Admit,
                                  roster, history, vars

(* It holds at the start.                                                  *)
LEMMA RosterInit ==
  ASSUME Init
  PROVE  RosterInv
<1>1. /\ currentClientCount = 0 /\ \A t \in Conn : th[t] = Idle
      /\ Idle.at = "none"
  BY DEF Init, Idle
<1>2. Registered = {} /\ Places = {}
  BY <1>1, CapacityAssumption DEF Registered, Places, Entry
<1>3. Lists(clients, Places, Entries(Registered))
  BY <1>2 DEF Lists, Entries
<1>4. \A t \in Conn : th[t].at \notin EditLabel
  BY <1>1 DEF EditLabel, RemovalLabel
<1> QED  BY <1>1, <1>3, <1>4, CapacityAssumption DEF RosterInv, InOrder, Entering, Editing, EditLabel
(* When nobody edits it, clients[] has as many entries as there are        *)
(* clients registered, each at one place.                                  *)
LEMMA SettledRoster ==
  ASSUME RosterInv, AskInv, Settled
  PROVE  /\ currentClientCount = Cardinality(Registered) /\ currentClientCount \in 0 .. MAXIMUM_CONNECTED_CLIENTS
         /\ Places = 0 .. currentClientCount - 1
         /\ IsFiniteSet(Registered) /\ Registered \subseteq Conn
         /\ \A t \in Registered : file[th[t].fd] = t
         /\ Lists(clients, Places, Entries(Registered))
<1> DEFINE n == currentClientCount
<1>1. own /\ InOrder /\ \A t \in Conn : th[t].at \notin RemovalLabel
  BY DEF Settled, RosterInv, Editing, EditLabel
<1>2. /\ Lists(clients, Places, Entries(Registered)) /\ n \in 0 .. MAXIMUM_CONNECTED_CLIENTS
      /\ Places = 0 .. n - 1
  BY <1>1, PlacesAre DEF InOrder
<1>3. Registered \subseteq Conn /\ \A t \in Registered : file[th[t].fd] = t
  <2>1. RegisteredLabel \subseteq Connected
    BY DEF RegisteredLabel, Connected
  <2> QED  BY <1>1, <2>1, RegisteredIs DEF AskInv, OwnSockets
<1>4. IsFiniteSet(Registered)
  BY <1>3, ConnAssumption, FS_Subset
<1>5. n = Cardinality(Registered)
  <2> DEFINE f == [i \in Places |-> file[clients[i].socket]]
  <2>1. \A i \in Places : \E t \in Registered : clients[i].socket = th[t].fd /\ f[i] = t
    BY <1>2, <1>3 DEF Lists, Entries
  <2>2. \A t \in Registered : \E i \in Places : f[i] = t
    <3> SUFFICES ASSUME NEW t \in Registered PROVE \E i \in Places : f[i] = t
      OBVIOUS
    <3>1. [socket |-> th[t].fd, name |-> th[t].name] \in Entries(Registered)
      BY DEF Entries
    <3>2. PICK i \in Places : clients[i] = [socket |-> th[t].fd, name |-> th[t].name]
      BY <1>2, <3>1 DEF Lists
    <3>3. f[i] = t
      BY <1>3, <3>2
    <3> QED  BY <3>3
  <2>3. \A i, k \in Places : f[i] = f[k] => i = k
    <3> SUFFICES ASSUME NEW i \in Places, NEW k \in Places, f[i] = f[k] PROVE i = k
      OBVIOUS
    <3>1. PICK t \in Registered : clients[i].socket = th[t].fd /\ f[i] = t
      BY <2>1
    <3>2. PICK u \in Registered : clients[k].socket = th[u].fd /\ f[k] = u
      BY <2>1
    <3> QED  BY <1>2, <3>1, <3>2 DEF Lists
  <2>4. f \in Bijection(Places, Registered)
    <3>1. f \in [Places -> Registered]
      BY <2>1
    <3> HIDE DEF f
    <3> QED  BY <2>2, <2>3, <3>1, Fun_IsBij
  <2>5. IsFiniteSet(Places) /\ Cardinality(Places) = n
    <3>1. n \in Int /\ 0 \in Int /\ n - 1 \in Int /\ n \in Nat
      BY <1>2, CapacityAssumption
    <3>2. Cardinality(0 .. n - 1) = IF 0 > n - 1 THEN 0 ELSE n - 1 - 0 + 1
      BY <3>1, FS_Interval
    <3>3. Cardinality(0 .. n - 1) = n
      BY <3>1, <3>2
    <3>4. IsFiniteSet(0 .. n - 1)
      BY <3>1, FS_Interval
    <3> QED  BY <1>2, <3>3, <3>4
  <2> HIDE DEF f
  <2>6. Cardinality(Places) = Cardinality(Registered)
    BY <2>4, <2>5, FS_Bijection, Zenon DEF ExistsBijection
  <2> QED  BY <2>5, <2>6
<1> QED  BY <1>2, <1>3, <1>4, <1>5

(* As long as registrations and removals follow one another and no thread  *)
(* loses its socket, clients[] lists exactly the clients that have entered *)
(* and not left, once each: for any number of clients, any capacity, and   *)
(* whatever the other threads do to the sockets and the helper meanwhile.  *)
THEOREM ServerRoster == Spec => []RosterIsExact
<1> DEFINE IInv == Types /\ AskInv /\ RosterInv
<1>1. Init => IInv
  BY TypesInit, InitKeeps, RosterInit
<1>2. IInv /\ [Next]_vars => IInv'
  BY TypesStep, AskInvStep, RosterStep
<1>3. IInv => RosterIsExact
  <2> SUFFICES ASSUME IInv, Settled, NEW t \in Registered
               PROVE  /\ currentClientCount = Cardinality(Registered) /\ file[th[t].fd] = t
                      /\ \E i \in Entry : /\ i < currentClientCount
                                          /\ clients[i] = [socket |-> th[t].fd, name |-> th[t].name]
    BY SettledRoster DEF RosterIsExact
  <2>1. /\ currentClientCount = Cardinality(Registered) /\ file[th[t].fd] = t
        /\ Lists(clients, Places, Entries(Registered))
    BY SettledRoster
  <2>2. [socket |-> th[t].fd, name |-> th[t].name] \in Entries(Registered)
    BY DEF Entries
  <2> QED  BY <2>1, <2>2 DEF Lists, Places
<1> QED  BY <1>1, <1>2, <1>3, PTL DEF Spec
-----------------------------------------------------------------------------
(* The loops over the roster.  A thread r in the middle of one has dealt   *)
(* with the places of cl below r.i that have kept their entries, and if    *)
(* all have, with nothing else: it has copied their names, or sent to      *)
(* their sockets.                                                          *)
Ahead(r, cl) == {m \in 0 .. r.i - 1 : cl[m].socket # r.fd}

Progress(r, cl) ==
  /\ r.at \in {"list?", "list"} =>
       Len(r.reached) = r.i /\ \A k \in r.kept : k < r.i => r.reached[k + 1] = cl[k].name
  /\ r.at \in {"push?", "push"} =>
       Len(r.reached) = r.i /\ \A k \in r.kept : k < r.i => r.reached[k + 1] = cl[k].socket
  /\ r.at \in {"cast?", "own?", "cast"} =>
       /\ \A k \in r.kept : k < r.i => cl[k].socket \in ToSet(r.reached) \cup {r.fd}
       /\ 0 .. r.i - 1 \subseteq r.kept =>
            /\ Len(r.reached) = Cardinality(Ahead(r, cl))
            /\ ToSet(r.reached) = {cl[m].socket : m \in Ahead(r, cl)}
  /\ r.at = "cast" /\ r.i \in r.kept => cl[r.i].socket # r.fd

LoopInv == \A t \in Conn : Progress(th[t], clients)

LoopLabel == {"list?", "list", "push?", "push", "cast?", "own?", "cast"}

(* A thread outside the loops owes nothing.                                *)
LEMMA NoLoop ==
  ASSUME NEW r, r.at \notin LoopLabel, NEW cl
  PROVE  Progress(r, cl)
BY DEF Progress, LoopLabel

(* One that begins a loop has nothing behind it.                           *)
LEMMA LoopBegins ==
  ASSUME NEW r, r.at \in LoopLabel \ {"list", "push", "own?", "cast"}, r.i = 0, r.reached = <<>>,
         r.kept \subseteq Entry, NEW cl
  PROVE  Progress(r, cl)
<1>1. Ahead(r, cl) = {}
  BY DEF Ahead
<1>2. Len(r.reached) = 0 /\ ToSet(r.reached) = {} /\ Cardinality(Ahead(r, cl)) = 0
  BY <1>1, FS_EmptySet DEF ToSet
<1>3. \A k \in r.kept : ~(k < r.i)
  BY CapacityAssumption DEF Entry
<1> QED  BY <1>1, <1>2, <1>3 DEF Progress, LoopLabel

(* A turn of a loop.                                                       *)
LEMMA LoopTurns ==
  ASSUME NEW r, NEW cl, Progress(r, cl),
         NEW q, q.fd = r.fd, q.i = r.i, q.reached = r.reached, q.kept = r.kept,
         \/ r.at = "list?" /\ q.at = "list"
         \/ r.at = "push?" /\ q.at = "push"
         \/ r.at = "cast?" /\ q.at = "own?"
         \/ r.at = "own?" /\ q.at = "cast" /\ cl[r.i].socket # r.fd
  PROVE  Progress(q, cl)
<1>1. Ahead(q, cl) = Ahead(r, cl)
  BY DEF Ahead
<1> QED  BY <1>1 DEF Progress

(* One more entry dealt with.                                              *)
LEMMA LoopTakes ==
  ASSUME NEW r, r.i \in Nat, r.kept \subseteq Entry, NEW T, r.reached \in Seq(T), NEW cl, Progress(r, cl),
         NEW x \in T, NEW q, q.fd = r.fd, q.i = r.i + 1, q.reached = Append(r.reached, x), q.kept = r.kept,
         \/ r.at = "list" /\ q.at = "list?" /\ x = cl[r.i].name
         \/ r.at = "push" /\ q.at = "push?" /\ x = cl[r.i].socket
         \/ r.at = "cast" /\ q.at = "cast?" /\ x = cl[r.i].socket
  PROVE  Progress(q, cl)
<1>1. /\ Len(q.reached) = Len(r.reached) + 1 /\ Len(r.reached) \in Nat
      /\ \A k \in 1 .. Len(r.reached) : q.reached[k] = r.reached[k]
      /\ q.reached[Len(r.reached) + 1] = x
      /\ DOMAIN r.reached = 1 .. Len(r.reached) /\ DOMAIN q.reached = 1 .. Len(r.reached) + 1
  <2>1. q.reached \in Seq(T) /\ Len(q.reached) = Len(r.reached) + 1
    BY AppendProperties
  <2> QED  BY <2>1, AppendProperties, LenProperties
<1>2. \A k \in q.kept : /\ k \in Nat
                        /\ k < q.i => k = r.i \/ (k < r.i /\ k + 1 \in 1 .. r.i)
  BY CapacityAssumption DEF Entry
<1>3. CASE r.at \in {"list", "push"}
  <2>1. Len(r.reached) = r.i
    BY <1>3 DEF Progress
  <2>2. \A k \in q.kept : k < q.i => q.reached[k + 1] = IF k = r.i THEN x ELSE r.reached[k + 1]
    BY <1>1, <1>2, <2>1
  <2>3. CASE r.at = "list"
    <3>1. \A k \in q.kept : k < q.i => q.reached[k + 1] = cl[k].name
      BY <1>2, <2>2, <2>3 DEF Progress
    <3> QED  BY <1>1, <2>1, <2>3, <3>1 DEF Progress
  <2>4. CASE r.at = "push"
    <3>1. \A k \in q.kept : k < q.i => q.reached[k + 1] = cl[k].socket
      BY <1>2, <2>2, <2>4 DEF Progress
    <3> QED  BY <1>1, <2>1, <2>4, <3>1 DEF Progress
  <2> QED  BY <1>3, <2>3, <2>4
<1>4. CASE r.at = "cast"
  <2>1. ToSet(q.reached) = ToSet(r.reached) \cup {x}
    <3>1. \A k \in 1 .. Len(r.reached) + 1 : k \in 1 .. Len(r.reached) \/ k = Len(r.reached) + 1
      BY <1>1
    <3> QED  BY <1>1, <3>1 DEF ToSet
  <2>2. \A k \in q.kept : k < q.i => cl[k].socket \in ToSet(q.reached) \cup {q.fd}
    BY <1>2, <1>4, <2>1 DEF Progress
  <2>3. ASSUME 0 .. q.i - 1 \subseteq q.kept
        PROVE  /\ Len(q.reached) = Cardinality(Ahead(q, cl))
               /\ ToSet(q.reached) = {cl[m].socket : m \in Ahead(q, cl)}
    <3>1. 0 .. r.i - 1 \subseteq r.kept /\ r.i \in r.kept
      BY <2>3
    <3>2. /\ Len(r.reached) = Cardinality(Ahead(r, cl))
          /\ ToSet(r.reached) = {cl[m].socket : m \in Ahead(r, cl)}
          /\ cl[r.i].socket # r.fd /\ x = cl[r.i].socket
      BY <1>4, <3>1 DEF Progress
    <3>3. Ahead(q, cl) = Ahead(r, cl) \cup {r.i} /\ r.i \notin Ahead(r, cl)
      BY <3>2 DEF Ahead
    <3>4. Cardinality(Ahead(q, cl)) = Cardinality(Ahead(r, cl)) + 1
      <4>1. IsFiniteSet(0 .. r.i - 1)
        BY FS_Interval
      <4>2. IsFiniteSet(Ahead(r, cl))
        BY <4>1, FS_Subset DEF Ahead
      <4> QED  BY <3>3, <4>2, FS_AddElement
    <3> QED  BY <1>1, <2>1, <3>2, <3>3, <3>4
  <2>4. q.at = "cast?"
    BY <1>4
  <2> QED  BY <2>2, <2>3, <2>4 DEF Progress
<1> QED  BY <1>3, <1>4

(* The sender's own entry is passed over.                                  *)
LEMMA LoopSkips ==
  ASSUME NEW r, r.i \in Nat, r.kept \subseteq Entry, NEW cl, Progress(r, cl),
         NEW q, q.fd = r.fd, q.i = r.i + 1, q.reached = r.reached, q.kept = r.kept,
         r.at = "own?", q.at = "cast?", cl[r.i].socket = r.fd
  PROVE  Progress(q, cl)
<1>1. Ahead(q, cl) = Ahead(r, cl)
  BY DEF Ahead
<1>2. \A k \in q.kept : k < q.i => k = r.i \/ k < r.i
  BY CapacityAssumption DEF Entry
<1>3. 0 .. q.i - 1 \subseteq q.kept => 0 .. r.i - 1 \subseteq r.kept
  OBVIOUS
<1> QED  BY <1>1, <1>2, <1>3 DEF Progress

(* A store at p, of what stands there no longer, leaves a loop the rest.   *)
LEMMA LoopLoses ==
  ASSUME NEW r \in Thread, NEW cl, NEW new, NEW p, Progress(r, cl),
         \A k \in Entry \ {p} : new[k] = cl[k]
  PROVE  Progress([r EXCEPT !.kept = @ \ {p}], new)
<1> DEFINE q == [r EXCEPT !.kept = @ \ {p}]
<1>1. /\ q.at = r.at /\ q.fd = r.fd /\ q.i = r.i /\ q.reached = r.reached
      /\ q.kept = r.kept \ {p} /\ r.kept \subseteq Entry
  BY DEF Thread
<1> HIDE DEF q
<1>2. \A k \in q.kept : k \in r.kept /\ new[k] = cl[k]
  BY <1>1
<1>3. 0 .. q.i - 1 \subseteq q.kept => 0 .. r.i - 1 \subseteq r.kept /\ Ahead(q, new) = Ahead(r, cl)
                                      /\ \A m \in Ahead(r, cl) : new[m] = cl[m]
  BY <1>1, <1>2 DEF Ahead
<1>4. 0 .. q.i - 1 \subseteq q.kept =>
        {new[m].socket : m \in Ahead(q, new)} = {cl[m].socket : m \in Ahead(r, cl)}
  BY <1>3
<1>5. Progress(q, new)
  BY <1>1, <1>2, <1>3, <1>4 DEF Progress
<1> QED  BY <1>5 DEF q

\* What a step of t may do to the threads and to clients[].
Yields(t, q) ==
  \/ Become(t, q) /\ clients' = clients
  \/ \E p : Disturb(t, q, p) /\ \A k \in Entry \ {p} : clients'[k] = clients[k]

\* A step of t keeps the other loops sound: they see the same entries, or one
\* of them less among those that are kept.
LEMMA OtherLoops ==
  ASSUME Types, LoopInv, NEW t \in Conn, NEW q, Yields(t, q), Progress(q, clients')
  PROVE  LoopInv'
<1> SUFFICES ASSUME NEW u \in Conn
             PROVE  Progress(th'[u], clients')
  BY DEF LoopInv
<1>1. ThreadsOK /\ th[u] \in Thread /\ th'[t] = q /\ Progress(th[u], clients)
  BY Given DEF Types, ThreadsOK, LoopInv, Yields
<1>2. CASE u = t
  BY <1>1, <1>2
<1>3. CASE u # t /\ Become(t, q) /\ clients' = clients
  <2>1. th'[u] = th[u]
    BY <1>1, <1>3 DEF Become, ThreadsOK
  <2> QED  BY <1>1, <1>3, <2>1
<1>4. ASSUME NEW p, u # t, Disturb(t, q, p), \A k \in Entry \ {p} : clients'[k] = clients[k]
      PROVE  Progress(th'[u], clients')
  <2>1. th'[u] = [th[u] EXCEPT !.kept = @ \ {p}]
    BY <1>4 DEF Disturb
  <2>2. \A k \in Entry \ {p} : clients'[k] = clients[k]
    BY <1>4
  <2>3. Progress([th[u] EXCEPT !.kept = @ \ {p}], clients')
    BY <1>1, <2>2, LoopLoses
  <2> QED  BY <2>1, <2>3
<1> QED  BY <1>2, <1>3, <1>4 DEF Yields

(* A step of nobody's thread that leaves clients[] alone.                  *)
LEMMA LoopsStay ==
  ASSUME LoopInv, th' = th, clients' = clients
  PROVE  LoopInv'
BY DEF LoopInv

(* The condition of a loop goes on to the body, or ends the loop.          *)
LEMMA WhileLoop ==
  ASSUME Types, LoopInv, NEW t \in Conn, NEW from, NEW body, NEW after, While(t, from, body, after),
         \/ from = "list?" /\ body = "list" /\ after = "list!"
         \/ from = "push?" /\ body = "push" /\ after = "recv"
         \/ from = "cast?" /\ body = "own?" /\ after = "recv"
         \/ from = "find?" /\ body = "find" /\ after = "exit"
  PROVE  LoopInv'
<1> DEFINE r == th[t]
<1>1. /\ r \in Thread /\ r.i \in Nat /\ currentClientCount \in Int /\ r.at = from /\ clients' = clients
      /\ Progress(r, clients)
  BY DEF Types, ThreadsOK, SharedOK, Thread, While, LoopInv, roster
<1>2. ASSUME NEW l, Goto(t, l), l = after \/ (l = body /\ r.i < currentClientCount)
      PROVE  LoopInv'
  <2> DEFINE q == [r EXCEPT !.at = l]
  <2>1. q.at = l /\ q.fd = r.fd /\ q.i = r.i /\ q.reached = r.reached /\ q.kept = r.kept
    BY <1>1 DEF Thread
  <2>2. Become(t, q)
    BY <1>2 DEF Goto
  <2> HIDE DEF q, r
  <2>3. Progress(q, clients)
    <3>1. CASE l \notin LoopLabel
      BY <2>1, <3>1, NoLoop
    <3>2. CASE l \in LoopLabel
      <4>1. /\ r.i < currentClientCount
            /\ \/ r.at = "list?" /\ l = "list"
               \/ r.at = "push?" /\ l = "push"
               \/ r.at = "cast?" /\ l = "own?"
        BY <1>1, <1>2, <3>2 DEF LoopLabel
      <4> QED  BY <1>1, <2>1, <4>1, LoopTurns
    <3> QED  BY <3>1, <3>2
  <2> QED  BY <1>1, <2>1, <2>2, <2>3, OtherLoops DEF Yields
<1>3. CASE th' = th
  BY <1>1, <1>3, LoopsStay
<1> QED  BY <1>2, <1>3 DEF While

(* A loop's body deals with one entry.                                     *)
LEMMA TakeLoop ==
  ASSUME Types, LoopInv, NEW t \in Conn, clients' = clients, NEW l, NEW x,
         Become(t, [th[t] EXCEPT !.at = l, !.i = @ + 1, !.reached = Append(@, x)]),
         \/ th[t].at = "list" /\ l = "list?" /\ x = clients[th[t].i].name
         \/ th[t].at = "push" /\ l = "push?" /\ x = clients[th[t].i].socket
         \/ th[t].at = "cast" /\ l = "cast?" /\ x = clients[th[t].i].socket
  PROVE  LoopInv'
<1> DEFINE r == th[t]
           q == [r EXCEPT !.at = l, !.i = @ + 1, !.reached = Append(@, x)]
<1>1. /\ r \in Thread /\ ThreadOK(r) /\ currentClientCount \in Int /\ clients \in RosterType
      /\ Progress(r, clients)
  BY DEF Types, ThreadsOK, SharedOK, LoopInv
<1>2. /\ r.i \in Nat /\ r.i \in Entry /\ r.reached \in Seq(Item) /\ x \in Item /\ r.kept \subseteq Entry
  BY <1>1 DEF ThreadOK, Thread, Indexing, RosterType, Item
<1>3. q.at = l /\ q.fd = r.fd /\ q.i = r.i + 1 /\ q.reached = Append(r.reached, x) /\ q.kept = r.kept
  BY <1>1 DEF Thread
<1> HIDE DEF q
<1>4. Progress(q, clients)
  <2> HIDE DEF r
  <2> QED  BY <1>1, <1>2, <1>3, LoopTakes DEF r
<1>5. Become(t, q)
  BY DEF q
<1> QED  BY <1>3, <1>4, <1>5, OtherLoops DEF Yields

(* Every step of a thread keeps the loops' progress, or disturbs them.     *)
LEMMA LoopThread ==
  ASSUME Types, AskInv, LoopInv, NEW t \in Conn, clientThreadSplitFunction(t)
  PROVE  LoopInv'
<1> DEFINE r == th[t]
<1>1. /\ r \in Thread /\ ThreadsOK /\ currentClientCount \in Int /\ r.i \in Nat
      /\ Progress(r, clients)
  BY DEF Types, ThreadsOK, SharedOK, LoopInv, Thread
<1>0. clients \in RosterType /\ DOMAIN clients = Entry
  BY DEF Types, SharedOK, RosterType
<1>2. ASSUME NEW q, Yields(t, q), q.at \notin LoopLabel
      PROVE  LoopInv'
  BY <1>2, NoLoop, OtherLoops
<1>3. ASSUME NEW q, Yields(t, q), q.kept = Entry,
             q.at \in {"list?", "push?", "cast?"}, q.i = 0, q.reached = <<>>
      PROVE  LoopInv'
  <2>1. q.at \in LoopLabel \ {"list", "push", "own?", "cast"}
    BY <1>3 DEF LoopLabel
  <2> QED  BY <1>3, <2>1, LoopBegins, OtherLoops
<1>4. ASSUME NEW l \in {"drop", "close", "exit", "answer", "shift", "count-"}, Goto(t, l), clients' = clients
      PROVE  LoopInv'
  <2>1. [r EXCEPT !.at = l].at \notin LoopLabel
    BY <1>1 DEF Thread, LoopLabel
  <2> QED  BY <1>2, <1>4, <2>1 DEF Goto, Yields
<1>5. CASE Start(t)
  <2>1. [r EXCEPT !.at = "name", !.fd = client_socket].at \notin LoopLabel
    BY <1>1 DEF Thread, LoopLabel
  <2> QED  BY <1>2, <1>5, <2>1 DEF Start, Yields, roster
<1>6. CASE RecvName(t) \/ RecvText(t)
  <2>1. ASSUME NEW x PROVE /\ [r EXCEPT !.at = "slot", !["name"] = x].at \notin LoopLabel
                           /\ [r EXCEPT !.at = "ask", !["text"] = x].at \notin LoopLabel
    BY <1>1 DEF Thread, LoopLabel
  <2>2. \/ Goto(t, "drop") \/ Goto(t, "close")
        \/ \E x : Become(t, [r EXCEPT !.at = "slot", !["name"] = x])
        \/ \E x : Become(t, [r EXCEPT !.at = "ask", !["text"] = x])
    BY <1>6 DEF RecvName, RecvText, Hears
  <2>3. clients' = clients
    BY <1>6 DEF RecvName, RecvText, Hears, roster
  <2> QED  BY <1>2, <1>4, <2>1, <2>2, <2>3 DEF Yields
<1>7. CASE Drop(t) \/ AskHelper(t) \/ ShiftOrNot(t)
  <2>1. (Goto(t, "exit") \/ Goto(t, "answer") \/ Goto(t, "shift") \/ Goto(t, "count-")) /\ clients' = clients
    BY <1>7 DEF Drop, AskHelper, ShiftOrNot, roster
  <2> QED  BY <1>4, <2>1
<1>8. CASE LoadSlot(t) \/ FillSlot(t) \/ LoadCount(t)
  <2>1. \/ UNCHANGED <<th, clients>>
        \/ \E q : /\ Yields(t, q)
                  /\ \/ q = [r EXCEPT !.at = "fill", !.reg = currentClientCount]
                     \/ q = [r EXCEPT !.at = "count+"]
                     \/ q = [r EXCEPT !.at = IF @ = "count+" THEN "count+'" ELSE "count-'",
                                      !.reg = currentClientCount]
    BY <1>0, <1>8 DEF LoadSlot, FillSlot, LoadCount, roster, Yields
  <2>2. ASSUME NEW q, \/ q = [r EXCEPT !.at = "fill", !.reg = currentClientCount]
                      \/ q = [r EXCEPT !.at = "count+"]
                      \/ q = [r EXCEPT !.at = IF @ = "count+" THEN "count+'" ELSE "count-'",
                                       !.reg = currentClientCount]
        PROVE  q.at \notin LoopLabel
    BY <1>1, <2>2 DEF Thread, LoopLabel
  <2> QED  BY <1>2, <2>1, <2>2, LoopsStay
<1>9. CASE StoreCountUp(t) \/ SendList(t) \/ HearHelper(t)
  <2>1. \E q : /\ Yields(t, q)
               /\ \/ q = Loop(r, "list?") \/ q = Loop(r, "push?")
                  \/ \E x : q = [Loop(r, "cast?") EXCEPT !.text = x]
    BY <1>9 DEF StoreCountUp, SendList, HearHelper, roster, Yields
  <2>2. ASSUME NEW q, \/ q = Loop(r, "list?") \/ q = Loop(r, "push?")
                      \/ \E x : q = [Loop(r, "cast?") EXCEPT !.text = x]
        PROVE  q.at \in {"list?", "push?", "cast?"} /\ q.i = 0 /\ q.reached = <<>>
               /\ q.kept = Entry
    BY <1>1, <2>2 DEF Thread, Loop
  <2> QED  BY <1>3, <2>1, <2>2
<1>10. CASE CopyName(t)
  <2>1. /\ r.at = "list" /\ clients' = clients
        /\ Become(t, [r EXCEPT !.at = "list?", !.i = @ + 1, !.reached = Append(@, clients[r.i].name)])
    BY <1>10 DEF CopyName, roster
  <2> QED  BY <2>1, TakeLoop
<1>11. CASE SendToEntry(t, "push", "push?") \/ SendToEntry(t, "cast", "cast?")
  <2>1. clients' = clients
    BY <1>11 DEF SendToEntry, roster
  <2>2. \/ /\ r.at = "push"
           /\ Become(t, [r EXCEPT !.at = "push?", !.i = @ + 1, !.reached = Append(@, clients[r.i].socket)])
        \/ /\ r.at = "cast"
           /\ Become(t, [r EXCEPT !.at = "cast?", !.i = @ + 1, !.reached = Append(@, clients[r.i].socket)])
    BY <1>11 DEF SendToEntry
  <2> QED  BY <2>1, <2>2, TakeLoop
<1>12. CASE SkipOwn(t)
  <2> DEFINE q1 == [r EXCEPT !.at = "cast"]
             q2 == [r EXCEPT !.at = "cast?", !.i = @ + 1]
  <2>1. /\ r.at = "own?" /\ clients' = clients
        /\ \/ clients[r.i].socket # r.fd /\ Become(t, q1)
           \/ clients[r.i].socket = r.fd /\ Become(t, q2)
    BY <1>12 DEF SkipOwn, Goto, IsOther, roster
  <2>2. /\ q1.at = "cast" /\ q1.fd = r.fd /\ q1.i = r.i /\ q1.reached = r.reached /\ q1.kept = r.kept
        /\ q2.at = "cast?" /\ q2.fd = r.fd /\ q2.i = r.i + 1 /\ q2.reached = r.reached /\ q2.kept = r.kept
    BY <1>1 DEF Thread
  <2>3. r.kept \subseteq Entry
    BY <1>1 DEF Thread
  <2> HIDE DEF q1, q2, r
  <2>4. clients[r.i].socket # r.fd => Progress(q1, clients)
    BY <1>1, <2>1, <2>2, LoopTurns
  <2>5. clients[r.i].socket = r.fd => Progress(q2, clients)
    BY <1>1, <2>1, <2>2, <2>3, LoopSkips
  <2> QED  BY <2>1, <2>2, <2>4, <2>5, OtherLoops DEF Yields
<1>13. CASE Close(t) \/ Find(t) \/ Shift(t) \/ StoreCountDown(t)
  <2>1. \/ UNCHANGED <<th, clients>>
        \/ \E q : /\ Yields(t, q)
                  /\ \/ q = [r EXCEPT !.at = "find?", !.i = 0]
                     \/ q = [r EXCEPT !.at = "shift?", !.j = r.i]
                     \/ q = [r EXCEPT !.at = "shift?", !.j = @ + 1]
                     \/ q = [r EXCEPT !.at = "find?", !.i = @ + 1]
    BY <1>0, <1>13 DEF Close, Find, Shift, StoreCountDown, roster, Yields
  <2>2. ASSUME NEW q, \/ q = [r EXCEPT !.at = "find?", !.i = 0]
                      \/ q = [r EXCEPT !.at = "shift?", !.j = r.i]
                      \/ q = [r EXCEPT !.at = "shift?", !.j = @ + 1]
                      \/ q = [r EXCEPT !.at = "find?", !.i = @ + 1]
        PROVE  q.at \notin LoopLabel
    BY <1>1, <2>2 DEF Thread, LoopLabel
  <2> QED  BY <1>2, <2>1, <2>2, LoopsStay
<1>14. CASE \/ While(t, "list?", "list", "list!") \/ While(t, "push?", "push", "recv")
            \/ While(t, "cast?", "own?", "recv") \/ While(t, "find?", "find", "exit")
  BY <1>14, WhileLoop
<1> QED  BY <1>5, <1>6, <1>7, <1>8, <1>9, <1>10, <1>11, <1>12, <1>13, <1>14
         DEF clientThreadSplitFunction, outputConnectedClients, newClientJoinedPush,
             sendPublicMessage, RemoveClient

(* LoopInv is inductive, given the types and AskInv.                       *)
LEMMA LoopStep ==
  ASSUME Types, AskInv, LoopInv, [Next]_vars
  PROVE  LoopInv'
<1>1. CASE th' = th /\ clients' = clients
  BY <1>1, LoopsStay
<1>2. CASE Admit /\ th' # th
  <2> DEFINE q == [th[main] EXCEPT !.at = "start"]
  <2>1. main \in Conn /\ Become(main, q) /\ clients' = clients
    BY <1>2 DEF Admit, Become, AskInv, Typed, roster
  <2>2. q.at \notin LoopLabel
    <3>1. th[main] \in Thread
      BY <2>1 DEF Types, ThreadsOK
    <3> QED  BY <3>1 DEF Thread, LoopLabel
  <2> HIDE DEF q
  <2> QED  BY <2>1, <2>2, NoLoop, OtherLoops DEF Yields
<1>3. ASSUME NEW t \in Conn, clientThreadSplitFunction(t)
      PROVE  LoopInv'
  BY <1>3, LoopThread
<1> QED  BY <1>1, <1>2, <1>3 DEF Next, Connect, Say, Leave, HelperAnswers, HelperDies, Accept, Admit,
                                  roster, vars

(* It holds at the start.                                                  *)
LEMMA LoopInit ==
  ASSUME Init
  PROVE  LoopInv
<1>1. \A t \in Conn : th[t].at \notin LoopLabel
  BY DEF Init, Idle, LoopLabel
<1> QED  BY <1>1, NoLoop DEF LoopInv

(* A loop at its end has dealt with every place that has kept its entry.   *)
LEMMA LoopCovers ==
  ASSUME Types, LoopInv, NEW t \in Conn, th[t].i >= currentClientCount,
         NEW k \in th[t].kept, k < currentClientCount
  PROVE  /\ th[t].at = "list?" => th[t].reached[k + 1] = clients[k].name
         /\ th[t].at = "push?" => th[t].reached[k + 1] = clients[k].socket
         /\ th[t].at = "cast?" => clients[k].socket \in ToSet(th[t].reached) \cup {th[t].fd}
<1>1. /\ th[t] \in Thread /\ currentClientCount \in Int /\ Progress(th[t], clients)
  BY DEF Types, ThreadsOK, SharedOK, LoopInv
<1>2. k < th[t].i
  BY <1>1, CapacityAssumption DEF Thread, Entry
<1> QED  BY <1>1, <1>2 DEF Progress

(* If all have kept theirs, and the roster is exact, it has reached all.   *)
LEMMA LoopEnds ==
  ASSUME Types, AskInv, RosterInv, LoopInv, Settled, NEW t \in Conn,
         th[t].i = currentClientCount, 0 .. th[t].i - 1 \subseteq th[t].kept,
         th[t].at \in {"list?", "push?", "cast?"}
  PROVE  /\ th[t].at = "list?" =>
              /\ Len(th[t].reached) = Cardinality(Registered)
              /\ ToSet(th[t].reached) = {th[u].name : u \in Registered}
         /\ th[t].at = "push?" => Reached(t, Registered)
         /\ th[t].at = "cast?" => Reached(t, Registered \ {t})
<1> DEFINE r == th[t]
           n == currentClientCount
           S == Entries(Registered)
<1>1. /\ n = Cardinality(Registered) /\ n \in Nat /\ Places = 0 .. n - 1
      /\ IsFiniteSet(Registered) /\ Registered \subseteq Conn
      /\ \A u \in Registered : file[th[u].fd] = u
      /\ {clients[k] : k \in Places} = S
      /\ \A i, k \in Places : clients[i].socket = clients[k].socket => i = k
  BY SettledRoster, CapacityAssumption DEF Lists
<1>2. /\ r \in Thread /\ r.reached \in Seq(Item) /\ r.i \in Nat /\ Progress(r, clients)
  BY DEF Types, ThreadsOK, ThreadOK, Thread, LoopInv
<1>3. r.i = n /\ \A k \in 1 .. n : k - 1 \in r.kept /\ k - 1 < r.i /\ (k - 1) + 1 = k
  BY <1>1, <1>2
<1>4. /\ DOMAIN r.reached = 1 .. Len(r.reached)
      /\ ToSet(r.reached) = {r.reached[k] : k \in 1 .. Len(r.reached)}
  BY <1>2 DEF ToSet
<1>5. \A u \in Registered : \E k \in Places : clients[k].socket = th[u].fd /\ clients[k].name = th[u].name
  <2> SUFFICES ASSUME NEW u \in Registered
               PROVE  \E k \in Places : clients[k].socket = th[u].fd /\ clients[k].name = th[u].name
    OBVIOUS
  <2> DEFINE e == [socket |-> th[u].fd, name |-> th[u].name]
  <2>1. e \in S
    BY DEF Entries
  <2>2. e.socket = th[u].fd /\ e.name = th[u].name
    OBVIOUS
  <2> HIDE DEF e
  <2>3. PICK k \in Places : clients[k] = e
    BY <1>1, <2>1
  <2> QED  BY <2>2, <2>3
<1>6. \A k \in Places : \E u \in Registered : clients[k].socket = th[u].fd /\ clients[k].name = th[u].name
  BY <1>1 DEF Entries
<1> HIDE DEF n, S
<1>places. n \in Nat /\ Places = 0 .. n - 1
  BY <1>1
<1>7. \A k \in 1 .. n : k - 1 \in Places
  BY <1>places
<1>8. \A k \in Places : k + 1 \in 1 .. n /\ (k + 1) - 1 = k
  BY <1>places
<1> USE DEF n, S
<1>9. CASE r.at = "list?"
  <2>1. Len(r.reached) = n /\ \A k \in 1 .. n : r.reached[k] = clients[k - 1].name
    BY <1>2, <1>3, <1>9 DEF Progress
  <2>2. \A k \in 1 .. n : \E u \in Registered : r.reached[k] = th[u].name
    BY <1>6, <1>7, <2>1
  <2>3. ASSUME NEW u \in Registered
        PROVE  \E k \in 1 .. n : r.reached[k] = th[u].name
    <3>1. PICK k \in Places : clients[k].name = th[u].name
      BY <1>5
    <3>2. r.reached[k + 1] = th[u].name
      BY <1>8, <2>1, <3>1
    <3> QED  BY <1>8, <3>2
  <2>4. ToSet(r.reached) = {th[u].name : u \in Registered}
    <3> DEFINE x == r.reached
               names == {th[u].name : u \in Registered}
    <3>1. \A k \in 1 .. n : x[k] \in names
      BY <2>2
    <3>2. \A y \in names : \E k \in 1 .. n : x[k] = y
      BY <2>3
    <3>3. ToSet(x) = {x[k] : k \in 1 .. n}
      BY <1>4, <2>1
    <3> HIDE DEF x, names
    <3>4. ToSet(x) = names
      BY <3>1, <3>2, <3>3
    <3> QED  BY <3>4 DEF x, names
  <2> QED  BY <1>1, <1>9, <2>1, <2>4
<1>10. CASE r.at = "push?"
  <2>1. Len(r.reached) = n /\ \A k \in 1 .. n : r.reached[k] = clients[k - 1].socket
    BY <1>2, <1>3, <1>10 DEF Progress
  <2>2. \A k \in 1 .. n : file[r.reached[k]] \in Registered
    BY <1>1, <1>6, <1>7, <2>1
  <2>3. ASSUME NEW u \in Registered
        PROVE  \E k \in 1 .. n : file[r.reached[k]] = u
    <3>1. PICK k \in Places : clients[k].socket = th[u].fd
      BY <1>5
    <3>2. file[r.reached[k + 1]] = u
      BY <1>1, <1>8, <2>1, <3>1
    <3> QED  BY <1>8, <3>2
  <2>4. {file[r.reached[k]] : k \in DOMAIN r.reached} = Registered
    <3>1. DOMAIN r.reached = 1 .. n
      BY <1>4, <2>1
    <3> HIDE DEF r, n
    <3>2. {file[r.reached[k]] : k \in 1 .. n} = Registered
      BY <2>2, <2>3
    <3> QED  BY <3>1, <3>2
  <2> QED  BY <1>1, <1>10, <2>1, <2>4 DEF Reached
<1>11. CASE r.at = "cast?"
  <2>1. /\ Len(r.reached) = Cardinality(Ahead(r, clients))
        /\ ToSet(r.reached) = {clients[m].socket : m \in Ahead(r, clients)}
    BY <1>2, <1>11 DEF Progress
  <2>2. t \in Registered
    BY <1>11 DEF Registered
  <2>3. PICK mine \in Places : clients[mine].socket = r.fd
    BY <1>5, <2>2
  <2>4. Ahead(r, clients) = Places \ {mine}
    BY <1>1, <1>3, <2>3 DEF Ahead
  <2>5. Cardinality(Ahead(r, clients)) = n - 1
    <3>1. IsFiniteSet(Places) /\ Cardinality(Places) = n
      <4>1. 0 \in Int /\ n - 1 \in Int
        BY <1>1
      <4>2. Cardinality(0 .. n - 1) = IF 0 > n - 1 THEN 0 ELSE n - 1 - 0 + 1
        BY <4>1, FS_Interval
      <4>3. IsFiniteSet(0 .. n - 1)
        BY <4>1, FS_Interval
      <4> QED  BY <1>1, <4>2, <4>3
    <3> QED  BY <2>3, <2>4, <3>1, FS_RemoveElement
  <2>6. Cardinality(Registered \ {t}) = n - 1
    BY <1>1, <2>2, FS_RemoveElement
  <2>7. \A m \in Ahead(r, clients) : \E u \in Registered \ {t} : clients[m].socket = th[u].fd
    <3> SUFFICES ASSUME NEW m \in Ahead(r, clients)
                 PROVE  \E u \in Registered \ {t} : clients[m].socket = th[u].fd
      OBVIOUS
    <3>1. m \in Places /\ clients[m].socket # r.fd
      BY <2>4 DEF Ahead
    <3>2. PICK u \in Registered : clients[m].socket = th[u].fd
      BY <1>6, <3>1
    <3> QED  BY <3>1, <3>2
  <2>8. \A u \in Registered \ {t} : \E m \in Ahead(r, clients) : clients[m].socket = th[u].fd
    <3> SUFFICES ASSUME NEW u \in Registered \ {t}
                 PROVE  \E m \in Ahead(r, clients) : clients[m].socket = th[u].fd
      OBVIOUS
    <3>1. PICK m \in Places : clients[m].socket = th[u].fd
      BY <1>5
    <3>2. th[u].fd # r.fd
      BY <1>1, <2>2
    <3> QED  BY <2>3, <2>4, <3>1, <3>2
  <2>9. \A k \in DOMAIN r.reached : file[r.reached[k]] \in Registered \ {t}
    <3> SUFFICES ASSUME NEW k \in DOMAIN r.reached PROVE file[r.reached[k]] \in Registered \ {t}
      OBVIOUS
    <3>1. r.reached[k] \in ToSet(r.reached)
      BY DEF ToSet
    <3>2. PICK u \in Registered \ {t} : r.reached[k] = th[u].fd
      BY <2>1, <2>7, <3>1
    <3> QED  BY <1>1, <3>2
  <2>10. \A u \in Registered \ {t} : \E k \in DOMAIN r.reached : file[r.reached[k]] = u
    <3> SUFFICES ASSUME NEW u \in Registered \ {t} PROVE \E k \in DOMAIN r.reached : file[r.reached[k]] = u
      OBVIOUS
    <3>1. th[u].fd \in ToSet(r.reached)
      BY <2>1, <2>8
    <3>2. PICK k \in DOMAIN r.reached : r.reached[k] = th[u].fd
      BY <3>1 DEF ToSet
    <3> QED  BY <1>1, <3>2
  <2>11. {file[r.reached[k]] : k \in DOMAIN r.reached} = Registered \ {t}
    BY <2>9, <2>10
  <2> QED  BY <1>11, <2>1, <2>5, <2>6, <2>11 DEF Reached
<1> QED  BY <1>9, <1>10, <1>11

(* A loop over the roster has, at its end, dealt with every place that has *)
(* kept its entry since it began: it has copied the name into the list,    *)
(* sent the newcomer's name to the socket, or the line unless it is the    *)
(* sender's own.  If all have kept theirs and no thread edits the roster,  *)
(* these are the registered clients, each exactly once.                    *)
THEOREM ServerLoops == Spec => []LoopsReachAll
<1> DEFINE IInv == Types /\ AskInv /\ RosterInv /\ LoopInv
<1>1. Init => IInv
  BY TypesInit, InitKeeps, RosterInit, LoopInit
<1>2. IInv /\ [Next]_vars => IInv'
  BY TypesStep, AskInvStep, RosterStep, LoopStep
<1>3. IInv => LoopsReachAll
  BY LoopCovers, LoopEnds DEF LoopsReachAll
<1> QED  BY <1>1, <1>2, <1>3, PTL DEF Spec
-----------------------------------------------------------------------------
(* The room.                                                               *)

(* A finite set of numbers that is not empty has a greatest element.       *)
LEMMA MaxIsMember ==
  ASSUME NEW F \in SUBSET Nat, IsFiniteSet(F), F # {}
  PROVE  Max(F) \in F /\ \A y \in F : y =< Max(F)
<1> DEFINE Topped(T) == \E x \in T : \A y \in T : x >= y
           S == {k \in Nat : \A T \in SUBSET Nat :
                               IsFiniteSet(T) /\ Cardinality(T) = k /\ T # {} => Topped(T)}
<1>1. 0 \in S
  BY FS_EmptySet
<1>2. ASSUME NEW k \in Nat, k \in S
      PROVE  k + 1 \in S
  <2> SUFFICES ASSUME NEW T \in SUBSET Nat, IsFiniteSet(T), Cardinality(T) = k + 1, T # {}
               PROVE  Topped(T)
    OBVIOUS
  <2>1. PICK x : x \in T /\ x \in Nat
    OBVIOUS
  <2>2. /\ T \ {x} \in SUBSET Nat /\ IsFiniteSet(T \ {x})
        /\ Cardinality(T \ {x}) = k
    <3> HIDE DEF S, Topped
    <3>1. IsFiniteSet(T \ {x}) /\ Cardinality(T \ {x}) = Cardinality(T) - 1
      BY <2>1, FS_RemoveElement
    <3>2. (k + 1) - 1 = k
      OBVIOUS
    <3> QED  BY <3>1, <3>2
  <2>3. CASE T \ {x} = {}
    BY <2>1, <2>3
  <2>4. CASE T \ {x} # {}
    <3>1. Topped(T \ {x})
      <4> HIDE DEF Topped
      <4> QED  BY <1>2, <2>2, <2>4
    <3>2. PICK z \in T \ {x} : \A y \in T \ {x} : z >= y
      BY <3>1
    <3>3. CASE x >= z
      <4>1. \A y \in T : x >= y
        BY <2>1, <3>2, <3>3
      <4> QED  BY <2>1, <4>1
    <3>4. CASE ~(x >= z)
      <4>1. \A y \in T : z >= y
        BY <2>1, <3>2, <3>4
      <4> QED  BY <3>2, <4>1
    <3> QED  BY <3>3, <3>4
  <2> QED  BY <2>3, <2>4
<1> HIDE DEF S
<1>3. Cardinality(F) \in S
  BY <1>1, <1>2, InductiveSet, FS_CardinalityType
<1>4. Topped(F)
  <2> HIDE DEF Topped
  <2> QED  BY <1>3 DEF S
<1>5. Max(F) \in F /\ \A y \in F : Max(F) >= y
  BY <1>4 DEF Max
<1> QED  BY <1>5

(* The names that clients may have.                                        *)
LEMMA NamesHave ==
  ASSUME NEW t \in Conn, NEW n \in 1 .. MaxLines[t]
  PROVE  [who |-> t, name |-> [k \in 1 .. n |-> <<t, k>>]] \in Names
<1> DEFINE L == {MaxLines[d] : d \in Conn}
<1>1. L \in SUBSET Nat /\ IsFiniteSet(L)
  <2>1. IsFiniteSet(L)
    <3>1. MaxLines \in Surjection(Conn, L)
      <4>1. MaxLines \in [Conn -> L] /\ \A l \in L : \E d \in Conn : MaxLines[d] = l
        BY LinesAssumption
      <4> HIDE DEF L
      <4> QED  BY <4>1, Fun_IsSurj
    <3> HIDE DEF L
    <3> QED  BY <3>1, ConnAssumption, FS_Surjection, Zenon
  <2> QED  BY <2>1, LinesAssumption
<1>2. {1} \cup L \in SUBSET Nat /\ IsFiniteSet({1} \cup L) /\ {1} \cup L # {} /\ MaxLines[t] \in {1} \cup L
  <2>1. IsFiniteSet({1})
    BY FS_Singleton
  <2> HIDE DEF L
  <2>2. IsFiniteSet({1} \cup L)
    BY <1>1, <2>1, FS_Union
  <2>3. MaxLines[t] \in L
    BY DEF L
  <2> QED  BY <1>1, <2>2, <2>3
<1> DEFINE m == Max({1} \cup L)
<1>3. m \in Nat /\ MaxLines[t] =< m
  <2> HIDE DEF L
  <2> QED  BY <1>2, MaxIsMember
<1>4. n \in 1 .. m
  <2> HIDE DEF m
  <2> QED  BY <1>3, LinesAssumption
<1> DEFINE named(c, i) == [who |-> c, name |-> [k \in 1 .. i |-> <<c, k>>]]
<1>5. Names = {named(c, i) : c \in Conn, i \in 1 .. m}
  BY DEF Names
<1>6. named(t, n) \in Names
  <2> HIDE DEF named, m
  <2> QED  BY <1>4, <1>5
<1> QED  BY <1>6

\* As long as threads have their own sockets, the name of a client is what its
\* thread has first heard from it.
NamedLabel == RegisteredLabel \cup {"slot", "fill", "count+", "count+'"}
NameOf(t, name) == \E n \in 1 .. MaxLines[t] : name = [k \in 1 .. n |-> <<t, k>>]

NamesInv ==
  own => \A t \in Conn : /\ th[t].at \in {"none", "start", "name"} => got[t] = 0
                         /\ th[t].at \in NamedLabel => NameOf(t, th[t].name)

(* A step that gives nobody a name.                                        *)
LEMMA NamesKept ==
  ASSUME NamesInv, own' => own, got' = got,
         \A u \in Conn : /\ th'[u].at \in {"none", "start", "name"} => th[u].at \in {"none", "start", "name"}
                         /\ th'[u].at \in NamedLabel => th[u].at \in NamedLabel /\ th'[u].name = th[u].name
  PROVE  NamesInv'
<1> USE DEF NamesInv
<1>1. \A t, name : NameOf(t, name)' <=> NameOf(t, name)
  BY DEF NameOf
<1> QED  BY <1>1 DEF NameOf

(* recv gives a thread the name that its own client has sent.              *)
LEMMA HearsNames ==
  ASSUME Types, AskInv, NamesInv, NEW t \in Conn, RecvName(t) \/ RecvText(t)
  PROVE  NamesInv'
<1> DEFINE r == th[t]
           c == file[r.fd]
<1> SUFFICES ASSUME own', NEW u \in Conn
             PROVE  /\ th'[u].at \in {"none", "start", "name"} => got'[u] = 0
                    /\ th'[u].at \in NamedLabel => NameOf(u, th'[u].name)
  BY DEF NamesInv, NameOf
<1>1. own /\ r \in Thread /\ ThreadsOK /\ r.at \in {"name", "recv"} /\ c = t
  <2>1. own /\ r \in Thread /\ ThreadsOK /\ r.at \in {"name", "recv"}
    BY DEF RecvName, RecvText, Hears, Types, ThreadsOK
  <2> QED  BY <2>1 DEF AskInv, OwnSockets, Connected
<1>2. \A v \in Conn : /\ th[v].at \in {"none", "start", "name"} => got[v] = 0
                      /\ th[v].at \in NamedLabel => NameOf(v, th[v].name)
  BY <1>1 DEF NamesInv
<1>3. \A v \in Conn \ {t} : th'[v].at = th[v].at /\ th'[v].name = th[v].name
  <2>1. Stepped(t)
    BY HearsStep
  <2>2. CASE th' = th
    BY <2>2
  <2>3. CASE th' # th
    BY <2>1, <2>3, OthersSame DEF Stepped, Same
  <2> QED  BY <2>2, <2>3
<1>4. ASSUME NEW l \in {"drop", "close"}, Goto(t, l), got' = got
      PROVE  /\ th'[u].at \in {"none", "start", "name"} => got'[u] = 0
             /\ th'[u].at \in NamedLabel => NameOf(u, th'[u].name)
  <2>1. th'[t] = [r EXCEPT !.at = l]
    BY <1>1, <1>4, Given DEF Goto
  <2>2. th'[t].at = l
    BY <1>1, <2>1 DEF Thread
  <2> QED  BY <1>2, <1>3, <1>4, <2>2 DEF NamedLabel, RegisteredLabel
<1>5. ASSUME NEW n \in 1 .. said[t] - got[t], got' = [got EXCEPT ![t] = @ + n],
             NEW x, x = [k \in 1 .. n |-> <<t, got[t] + k>>],
             \/ r.at = "name" /\ th'[t] = [r EXCEPT !.at = "slot", !["name"] = x]
             \/ r.at = "recv" /\ th'[t] = [r EXCEPT !.at = "ask", !["text"] = x]
      PROVE  /\ th'[u].at \in {"none", "start", "name"} => got'[u] = 0
             /\ th'[u].at \in NamedLabel => NameOf(u, th'[u].name)
  <2>1. \A v \in Conn \ {t} : got'[v] = got[v]
    BY <1>5 DEF AskInv, Typed
  <2>2. CASE u # t
    BY <1>2, <1>3, <2>1, <2>2
  <2>3. CASE u = t /\ r.at = "recv"
    <3>1. th'[t].at = "ask" /\ th'[t].name = r.name
      BY <1>1, <1>5, <2>3 DEF Thread
    <3> QED  BY <1>2, <2>3, <3>1 DEF NamedLabel, RegisteredLabel
  <2>4. CASE u = t /\ r.at = "name"
    <3>1. th'[t].at = "slot" /\ th'[t].name = x
      BY <1>1, <1>5, <2>4 DEF Thread
    <3>2. got[t] = 0 /\ n \in 1 .. MaxLines[t]
      <4>1. got[t] = 0
        BY <1>2, <2>4
      <4>2. said[t] \in 0 .. MaxLines[t] /\ MaxLines[t] \in Nat
        BY LinesAssumption DEF Types, SharedOK
      <4> QED  BY <4>1, <4>2
    <3>3. x = [k \in 1 .. n |-> <<t, k>>]
      BY <1>5, <3>2
    <3> QED  BY <2>4, <3>1, <3>2, <3>3 DEF NameOf
  <2> QED  BY <1>5, <2>2, <2>3, <2>4
<1>6. CASE RecvName(t)
  <2> SUFFICES ASSUME ~(Goto(t, "drop") /\ got' = got)
               PROVE  /\ th'[u].at \in {"none", "start", "name"} => got'[u] = 0
                      /\ th'[u].at \in NamedLabel => NameOf(u, th'[u].name)
    BY <1>4
  <2>1. PICK n \in 1 .. said[c] - got[c] :
          /\ got' = [got EXCEPT ![c] = @ + n]
          /\ Become(t, [r EXCEPT !.at = "slot", !["name"] = [k \in 1 .. n |-> <<c, got[c] + k>>]])
    BY <1>6 DEF RecvName, Hears
  <2>2. r.at = "name" /\ th'[t] = [r EXCEPT !.at = "slot", !["name"] = [k \in 1 .. n |-> <<t, got[t] + k>>]]
    BY <1>1, <1>6, <2>1, Given DEF RecvName
  <2> HIDE DEF r
  <2> QED  BY <1>1, <1>5, <2>1, <2>2
<1>7. CASE RecvText(t)
  <2> SUFFICES ASSUME ~(Goto(t, "close") /\ got' = got)
               PROVE  /\ th'[u].at \in {"none", "start", "name"} => got'[u] = 0
                      /\ th'[u].at \in NamedLabel => NameOf(u, th'[u].name)
    BY <1>4
  <2>1. PICK n \in 1 .. said[c] - got[c] :
          /\ got' = [got EXCEPT ![c] = @ + n]
          /\ Become(t, [r EXCEPT !.at = "ask", !["text"] = [k \in 1 .. n |-> <<c, got[c] + k>>]])
    BY <1>7 DEF RecvText, Hears
  <2>2. r.at = "recv" /\ th'[t] = [r EXCEPT !.at = "ask", !["text"] = [k \in 1 .. n |-> <<t, got[t] + k>>]]
    BY <1>1, <1>7, <2>1, Given DEF RecvText
  <2> HIDE DEF r
  <2> QED  BY <1>1, <1>5, <2>1, <2>2
<1> QED  BY <1>6, <1>7
(* The row of those who are listed at the first n places of cl, but for    *)
(* the place in G, if there is one.                                        *)
Seat(cl, fl, i) == [who |-> fl[cl[i].socket], name |-> cl[i].name]
Row(cl, fl, n, G) ==
  [k \in 1 .. n - Cardinality(G) |-> Seat(cl, fl, IF \E i \in G : i < k THEN k ELSE k - 1)]

(* The room that clients[] stands for is such a row.                       *)
LEMMA MembersAreRow == Members = Row(clients, file, currentClientCount, Gaps)
BY DEF Members, Row, Seat

\* The same, place by place.
Beyond(g, k)          == IF g < k THEN k ELSE k - 1
Whole(cl, fl, n)      == [k \in 1 .. n |-> Seat(cl, fl, k - 1)]
Gapped(cl, fl, n, g)  == [k \in 1 .. n - 1 |-> Seat(cl, fl, Beyond(g, k))]

(* A row with no gap.                                                      *)
LEMMA RowWhole ==
  ASSUME NEW cl, NEW fl, NEW n \in Nat
  PROVE  Row(cl, fl, n, {}) = Whole(cl, fl, n)
<1>1. Cardinality({}) = 0
  BY FS_EmptySet
<1>2. n - 0 = n
  OBVIOUS
<1> QED  BY <1>1, <1>2 DEF Row, Whole

(* A row with one gap.                                                     *)
LEMMA RowGap ==
  ASSUME NEW cl, NEW fl, NEW n \in Nat, NEW g \in Int
  PROVE  Row(cl, fl, n, {g}) = Gapped(cl, fl, n, g)
<1>1. Cardinality({g}) = 1
  BY FS_Singleton
<1>2. \A k : (\E i \in {g} : i < k) <=> g < k
  OBVIOUS
<1> QED  BY <1>1, <1>2 DEF Row, Gapped, Beyond

\* What one does not look at does not matter.
LEMMA RowSame ==
  ASSUME NEW n \in Nat, NEW G, G = {} \/ \E g \in 0 .. n - 1 : G = {g},
         NEW cl, NEW fl, NEW cm, NEW fm,
         \A i \in (0 .. n - 1) \ G : Seat(cm, fm, i) = Seat(cl, fl, i)
  PROVE  Row(cm, fm, n, G) = Row(cl, fl, n, G)
<1>1. CASE G = {}
  <2>1. \A k \in 1 .. n : k - 1 \in (0 .. n - 1) \ G
    BY <1>1
  <2>2. \A k \in 1 .. n : Seat(cm, fm, k - 1) = Seat(cl, fl, k - 1)
    BY <2>1
  <2>3. Whole(cm, fm, n) = Whole(cl, fl, n)
    BY <2>2 DEF Whole
  <2> QED  BY <1>1, <2>3, RowWhole
<1>2. ASSUME NEW g \in 0 .. n - 1, G = {g}
      PROVE  Row(cm, fm, n, G) = Row(cl, fl, n, G)
  <2>1. \A k \in 1 .. n - 1 : Beyond(g, k) \in (0 .. n - 1) \ G
    BY <1>2 DEF Beyond
  <2>2. \A k \in 1 .. n - 1 : Seat(cm, fm, Beyond(g, k)) = Seat(cl, fl, Beyond(g, k))
    BY <2>1
  <2>3. Gapped(cm, fm, n, g) = Gapped(cl, fl, n, g)
    BY <2>2 DEF Gapped
  <2> QED  BY <1>2, <2>3, RowGap
<1> QED  BY <1>1, <1>2

\* The entry behind the gap goes into it, and leaves a gap behind.
LEMMA RowShift ==
  ASSUME NEW n \in Nat, NEW cl, NEW fl, NEW j \in 0 .. n - 2, 0 .. n - 1 \subseteq DOMAIN cl
  PROVE  Row([cl EXCEPT ![j] = cl[j + 1]], fl, n, {j + 1}) = Row(cl, fl, n, {j})
<1> DEFINE new == [cl EXCEPT ![j] = cl[j + 1]]
           p(k) == Beyond(j, k)
           q(k) == Beyond(j + 1, k)
<1>1. new[j] = cl[j + 1] /\ \A i \in (0 .. n - 1) \ {j} : new[i] = cl[i]
  OBVIOUS
<1>2. ASSUME NEW k \in 1 .. n - 1
      PROVE  new[q(k)] = cl[p(k)]
  <2>1. CASE k < j + 1
    <3>1. q(k) = k - 1 /\ p(k) = k - 1 /\ k - 1 \in (0 .. n - 1) \ {j}
      BY <2>1 DEF Beyond
    <3> QED  BY <1>1, <3>1
  <2>2. CASE k = j + 1
    <3>1. q(k) = j /\ p(k) = j + 1
      BY <2>2 DEF Beyond
    <3> QED  BY <1>1, <3>1
  <2>3. CASE k > j + 1
    <3>1. q(k) = k /\ p(k) = k /\ k \in (0 .. n - 1) \ {j}
      BY <2>3 DEF Beyond
    <3> QED  BY <1>1, <3>1
  <2> QED  BY <2>1, <2>2, <2>3
<1>3. j \in Int /\ j + 1 \in Int
  OBVIOUS
<1>4. /\ Row(cl, fl, n, {j}) = Gapped(cl, fl, n, j)
      /\ Row(new, fl, n, {j + 1}) = Gapped(new, fl, n, j + 1)
  <2> HIDE DEF new
  <2> QED  BY <1>3, RowGap
<1>5. \A k \in 1 .. n - 1 : Seat(new, fl, q(k)) = Seat(cl, fl, p(k))
  <2> HIDE DEF new
  <2> QED  BY <1>2 DEF Seat
<1>6. Row(new, fl, n, {j + 1}) = Row(cl, fl, n, {j})
  <2> HIDE DEF new
  <2>1. Gapped(cl, fl, n, j) = Gapped(new, fl, n, j + 1)
    BY <1>5 DEF Gapped
  <2> QED  BY <1>4, <2>1
<1> QED  BY <1>6

\* A gap at the last place is no longer counted.
LEMMA RowEndsEarlier ==
  ASSUME NEW n \in Nat \ {0}, NEW cl, NEW fl
  PROVE  Row(cl, fl, n - 1, {}) = Row(cl, fl, n, {n - 1})
<1>1. n - 1 \in Nat /\ n - 1 \in Int
  OBVIOUS
<1>2. Row(cl, fl, n - 1, {}) = Whole(cl, fl, n - 1) /\ Row(cl, fl, n, {n - 1}) = Gapped(cl, fl, n, n - 1)
  BY <1>1, RowWhole, RowGap
<1>3. \A k \in 1 .. n - 1 : Beyond(n - 1, k) = k - 1
  BY DEF Beyond
<1>4. Whole(cl, fl, n - 1) = Gapped(cl, fl, n, n - 1)
  BY <1>3 DEF Whole, Gapped
<1> QED  BY <1>2, <1>4

\* One more is counted.
LEMMA RowGrows ==
  ASSUME NEW n \in Nat, NEW cl, NEW fl
  PROVE  /\ Row(cl, fl, n + 1, {}) = Append(Row(cl, fl, n, {}), Seat(cl, fl, n))
         /\ Len(Row(cl, fl, n, {})) = n
<1> DEFINE s == [k \in 1 .. n |-> Seat(cl, fl, k - 1)]
           x == Seat(cl, fl, n)
           S == {Seat(cl, fl, i) : i \in 0 .. n}
<1>1. s \in Seq(S) /\ x \in S /\ Len(s) = n
  <2>1. \A k \in 1 .. n : s[k] \in S
    <3>1. \A k \in 1 .. n : k - 1 \in 0 .. n
      OBVIOUS
    <3> QED  BY <3>1
  <2>2. x \in S
    BY n \in 0 .. n
  <2>3. s \in [1 .. n -> S] /\ DOMAIN s = 1 .. n
    BY <2>1
  <2> HIDE DEF s, S
  <2> QED  BY <2>2, <2>3
<1>2. n + 1 \in Nat
  OBVIOUS
<1>3. /\ Row(cl, fl, n, {}) = s
      /\ Row(cl, fl, n + 1, {}) = [k \in 1 .. n + 1 |-> Seat(cl, fl, k - 1)]
  BY <1>2, RowWhole DEF Whole
<1>4. Append(s, x) = [k \in 1 .. n + 1 |-> Seat(cl, fl, k - 1)]
  <2> DEFINE u == [k \in 1 .. n + 1 |-> Seat(cl, fl, k - 1)]
  <2>1. \A k \in 1 .. n : s[k] = u[k]
    OBVIOUS
  <2>2. u[n + 1] = x
    <3>1. n + 1 \in 1 .. n + 1 /\ (n + 1) - 1 = n
      OBVIOUS
    <3> QED  BY <3>1
  <2>3. u \in Seq(S) /\ Len(u) = n + 1
    <3>1. \A k \in 1 .. n + 1 : u[k] \in S
      <4>1. \A k \in 1 .. n + 1 : k - 1 \in 0 .. n
        OBVIOUS
      <4> QED  BY <4>1
    <3>2. u \in [1 .. n + 1 -> S] /\ DOMAIN u = 1 .. n + 1
      BY <3>1
    <3> HIDE DEF u, S
    <3> QED  BY <3>2, <1>2
  <2> HIDE DEF u, s, S, x
  <2>4. /\ Append(s, x) \in Seq(S) /\ Len(Append(s, x)) = n + 1
        /\ \A k \in 1 .. n : Append(s, x)[k] = s[k]
        /\ Append(s, x)[n + 1] = x
    BY <1>1, AppendProperties
  <2>5. \A k \in 1 .. n + 1 : Append(s, x)[k] = u[k]
    BY <2>1, <2>2, <2>4
  <2>6. Append(s, x) = u
    BY <2>3, <2>4, <2>5, SeqEqual
  <2> QED  BY <2>6 DEF u
<1> QED  BY <1>1, <1>3, <1>4

\* One is no longer counted, wherever it is listed.
LEMMA RowLeaves ==
  ASSUME NEW n \in Nat, NEW cl, NEW fl, NEW g \in 0 .. n - 1
  PROVE  /\ g + 1 \in DOMAIN Row(cl, fl, n, {})
         /\ Row(cl, fl, n, {})[g + 1] = Seat(cl, fl, g)
         /\ Row(cl, fl, n, {g}) = RemoveAt(Row(cl, fl, n, {}), g + 1)
         /\ Row(cl, fl, n, {g}) # Row(cl, fl, n, {})
<1> DEFINE s == [k \in 1 .. n |-> Seat(cl, fl, k - 1)]
           u == [k \in 1 .. n - 1 |-> Seat(cl, fl, Beyond(g, k))]
           S == {Seat(cl, fl, i) : i \in 0 .. n}
           a == SubSeq(s, 1, g)
           b == SubSeq(s, g + 2, n)
<1>1. s \in Seq(S) /\ Len(s) = n /\ DOMAIN s = 1 .. n
  <2>1. \A k \in 1 .. n : s[k] \in S
    <3>1. \A k \in 1 .. n : k - 1 \in 0 .. n
      OBVIOUS
    <3> QED  BY <3>1
  <2>2. s \in [1 .. n -> S] /\ DOMAIN s = 1 .. n
    BY <2>1
  <2> HIDE DEF s, S
  <2> QED  BY <2>2
<1>2. u \in Seq(S) /\ Len(u) = n - 1 /\ DOMAIN u = 1 .. n - 1
  <2>1. \A k \in 1 .. n - 1 : u[k] \in S
    <3>1. \A k \in 1 .. n - 1 : Beyond(g, k) \in 0 .. n
      BY DEF Beyond
    <3> QED  BY <3>1
  <2>2. u \in [1 .. n - 1 -> S] /\ DOMAIN u = 1 .. n - 1 /\ n - 1 \in Nat
    BY <2>1
  <2> HIDE DEF u, S
  <2> QED  BY <2>2
<1>3. g + 1 \in 1 .. n /\ s[g + 1] = Seat(cl, fl, g)
  <2>1. g + 1 \in 1 .. n /\ (g + 1) - 1 = g
    OBVIOUS
  <2> QED  BY <2>1
<1>4. \A k \in 1 .. n - 1 : u[k] = IF k =< g THEN s[k] ELSE s[k + 1]
  <2> SUFFICES ASSUME NEW k \in 1 .. n - 1 PROVE u[k] = IF k =< g THEN s[k] ELSE s[k + 1]
    OBVIOUS
  <2>1. CASE k =< g
    <3>1. ~(g < k) /\ k \in 1 .. n
      BY <2>1
    <3> QED  BY <2>1, <3>1 DEF Beyond
  <2>2. CASE ~(k =< g)
    <3>1. g < k /\ k + 1 \in 1 .. n /\ (k + 1) - 1 = k
      BY <2>2
    <3> QED  BY <2>2, <3>1 DEF Beyond
  <2> QED  BY <2>1, <2>2
<1>5. Row(cl, fl, n, {}) = s /\ Row(cl, fl, n, {g}) = u
  BY RowWhole, RowGap DEF Whole, Gapped
<1> HIDE DEF s, u, S
<1>6. a \in Seq(S) /\ Len(a) = g /\ \A k \in 1 .. g : a[k] = s[k]
  <2>1. \A i \in 1 .. g : s[i] \in S
    BY <1>1
  <2>2. /\ SubSeq(s, 1, g) \in Seq(S)
        /\ Len(SubSeq(s, 1, g)) = IF 1 =< g THEN g - 1 + 1 ELSE 0
        /\ \A i \in 1 .. g - 1 + 1 : SubSeq(s, 1, g)[i] = s[1 + i - 1]
    BY <2>1, SubSeqProperties
  <2>3. \A i \in 1 .. g : i \in 1 .. g - 1 + 1 /\ 1 + i - 1 = i
    OBVIOUS
  <2>4. (IF 1 =< g THEN g - 1 + 1 ELSE 0) = g
    OBVIOUS
  <2> QED  BY <2>2, <2>3, <2>4
<1>7. b \in Seq(S) /\ Len(b) = n - 1 - g /\ \A k \in 1 .. n - 1 - g : b[k] = s[g + k + 1]
  <2>1. \A i \in g + 2 .. n : s[i] \in S
    BY <1>1
  <2>2. /\ SubSeq(s, g + 2, n) \in Seq(S)
        /\ Len(SubSeq(s, g + 2, n)) = IF g + 2 =< n THEN n - (g + 2) + 1 ELSE 0
        /\ \A i \in 1 .. n - (g + 2) + 1 : SubSeq(s, g + 2, n)[i] = s[(g + 2) + i - 1]
    BY <2>1, SubSeqProperties
  <2>3. \A i \in 1 .. n - 1 - g : i \in 1 .. n - (g + 2) + 1 /\ (g + 2) + i - 1 = g + i + 1
    OBVIOUS
  <2>4. (IF g + 2 =< n THEN n - (g + 2) + 1 ELSE 0) = n - 1 - g
    OBVIOUS
  <2> QED  BY <2>2, <2>3, <2>4
<1>8. RemoveAt(s, g + 1) = a \o b
  <2>1. (g + 1) - 1 = g /\ (g + 1) + 1 = g + 2
    OBVIOUS
  <2> QED  BY <1>1, <2>1 DEF RemoveAt
<1>9. u = a \o b
  <2> HIDE DEF a, b
  <2>1. /\ a \o b \in Seq(S) /\ Len(a \o b) = g + (n - 1 - g)
        /\ \A i \in 1 .. g + (n - 1 - g) : (a \o b)[i] = IF i =< g THEN a[i] ELSE b[i - g]
    <3>1. /\ a \o b \in Seq(S) /\ Len(a \o b) = Len(a) + Len(b)
          /\ \A i \in 1 .. Len(a) + Len(b) : (a \o b)[i] = IF i =< Len(a) THEN a[i] ELSE b[i - Len(a)]
      BY <1>6, <1>7, ConcatProperties
    <3>2. Len(a) = g /\ Len(b) = n - 1 - g
      BY <1>6, <1>7
    <3> QED  BY <3>1, <3>2
  <2>2. g + (n - 1 - g) = n - 1
    OBVIOUS
  <2>3. ASSUME NEW k \in 1 .. n - 1
        PROVE  u[k] = (a \o b)[k]
    <3>1. CASE k =< g
      BY <1>4, <1>6, <2>1, <2>2, <3>1
    <3>2. CASE ~(k =< g)
      <4>1. k - g \in 1 .. n - 1 - g /\ g + (k - g) + 1 = k + 1
        BY <3>2
      <4>2. b[k - g] = s[k + 1]
        BY <1>7, <4>1
      <4> QED  BY <1>4, <2>1, <2>2, <3>2, <4>2
    <3> QED  BY <3>1, <3>2
  <2> QED  BY <1>2, <2>1, <2>2, <2>3, SeqEqual
<1>10. u # s
  BY <1>1, <1>2
<1> QED  BY <1>1, <1>3, <1>5, <1>8, <1>9, <1>10

\* A step that does not bring a name, nor a name's loss.
KeepsName(r, q) ==
  /\ q.at \in {"none", "start", "name"} => r.at \in {"none", "start", "name"}
  /\ q.at \in NamedLabel => r.at \in NamedLabel /\ q.name = r.name

(* A thread's step that keeps its name.                                    *)
LEMMA NamesMoved ==
  ASSUME Types, NamesInv, NEW t \in Conn, Stepped(t), own' => own, got' = got,
         th' = th \/ KeepsName(th[t], th'[t])
  PROVE  NamesInv'
<1>1. CASE th' = th
  BY <1>1, NamesKept
<1>2. CASE Gives(t, th'[t]) /\ KeepsName(th[t], th'[t])
  <2>1. \A u \in Conn \ {t} : Same(u)
    BY <1>2, OthersSame
  <2> QED  BY <1>2, <2>1, NamesKept DEF Same, KeepsName
<1> QED  BY <1>1, <1>2 DEF Stepped

\* What a thread's step may do to the histories.
LEMMA ThreadHistory ==
  ASSUME Types, NEW t \in Conn, clientThreadSplitFunction(t)
  PROVE  /\ own' => own
         /\ serial' => serial
         /\ got' = got \/ RecvName(t) \/ RecvText(t)
<1> DEFINE H == /\ own' => own
                /\ serial' => serial
                /\ got' = got \/ RecvName(t) \/ RecvText(t)
<1>0. own \in BOOLEAN /\ serial \in BOOLEAN
  BY DEF Types, SharedOK
<1>1. Start(t) \/ Drop(t) => H
  BY <1>0 DEF Start, Drop, history
<1>2. RecvName(t) \/ RecvText(t) => H
  <2>1. RecvName(t) => own' = own /\ (serial' => serial)
    BY <1>0 DEF RecvName, Hears
  <2>2. RecvText(t) => own' = own /\ (serial' => serial)
    BY <1>0 DEF RecvText, Hears
  <2> QED  BY <2>1, <2>2
<1>3. LoadSlot(t) \/ FillSlot(t) \/ LoadCount(t) \/ StoreCountUp(t) \/ StoreCountDown(t) => H
  BY DEF LoadSlot, FillSlot, LoadCount, StoreCountUp, StoreCountDown, history
<1>4. \A from, body, after : While(t, from, body, after) => H
  BY DEF While, history
<1>5. \A from, next : SendToEntry(t, from, next) => H
  BY DEF SendToEntry, history
<1>6. CopyName(t) \/ SendList(t) \/ HearHelper(t) \/ SkipOwn(t) => H
  <2>1. CopyName(t) => H
    <3>1. CopyName(t) => UNCHANGED <<got, own, serial>>
      BY DEF CopyName, history
    <3> QED  BY <3>1
  <2>2. SendList(t) => H
    BY DEF SendList, history
  <2>3. HearHelper(t) => H
    BY DEF HearHelper, history
  <2>4. SkipOwn(t) => H
    BY DEF SkipOwn, history
  <2> QED  BY <2>1, <2>2, <2>3, <2>4
<1>9. AskHelper(t) => H
  BY DEF AskHelper
<1>7. Close(t) \/ Find(t) \/ ShiftOrNot(t) \/ Shift(t) => H
  BY DEF Close, Find, ShiftOrNot, Shift, history
<1> HIDE DEF H
<1>8. H
  BY <1>1, <1>2, <1>3, <1>4, <1>5, <1>6, <1>7, <1>9
     DEF clientThreadSplitFunction, outputConnectedClients, newClientJoinedPush, sendPublicMessage, RemoveClient
<1> QED  BY <1>8 DEF H

(* Every step of a thread keeps the names.                                 *)
LEMMA NamesThread ==
  ASSUME Types, AskInv, NamesInv, NEW t \in Conn, clientThreadSplitFunction(t)
  PROVE  NamesInv'
<1> DEFINE r == th[t]
           q == th'[t]
<1>0. ThreadsOK /\ r \in Thread /\ Stepped(t)
  BY ThreadStep DEF Types, ThreadsOK
<1>1. CASE RecvName(t) \/ RecvText(t)
  BY <1>1, HearsNames
<1>2. CASE ~RecvName(t) /\ ~RecvText(t)
  <2>1. got' = got /\ (own' => own)
    BY <1>2, ThreadHistory
  <2>2. CASE Start(t)
    <3>1. q = [r EXCEPT !.at = "name", !.fd = client_socket] /\ r.at = "start"
      BY <1>0, <2>2, Given DEF Start
    <3>2. q.at = "name"
      BY <1>0, <3>1 DEF Thread
    <3>3. KeepsName(r, q)
      BY <3>1, <3>2 DEF KeepsName, NamedLabel, RegisteredLabel
    <3> QED  BY <1>0, <2>1, <3>3, NamesMoved
  <2>3. CASE Drop(t) \/ Close(t) \/ r.at \in Removing
    <3>1. th' = th \/ q.at \in Removing
      <4>1. CASE Drop(t)
        <5>1. q = [r EXCEPT !.at = "exit"]
          BY <1>0, <4>1, Given DEF Drop, Goto
        <5> QED  BY <1>0, <5>1 DEF Thread, Removing
      <4>2. CASE Close(t)
        <5>1. q = [r EXCEPT !.at = "find?", !.i = 0]
          BY <1>0, <4>2, Given DEF Close
        <5> QED  BY <1>0, <5>1 DEF Thread, Removing, RemovalLabel
      <4>3. CASE r.at \in Removing
        BY <4>3, ThreadFlows DEF Flows
      <4> QED  BY <2>3, <4>1, <4>2, <4>3
    <3>2. q.at \in Removing => KeepsName(r, q)
      BY DEF KeepsName, NamedLabel, RegisteredLabel, Removing, RemovalLabel
    <3> QED  BY <1>0, <2>1, <3>1, <3>2, NamesMoved
  <2>4. CASE \/ While(t, "list?", "list", "list!") \/ While(t, "push?", "push", "recv")
             \/ While(t, "cast?", "own?", "recv") \/ CopyName(t) \/ SendList(t) \/ SkipOwn(t)
             \/ SendToEntry(t, "push", "push?") \/ SendToEntry(t, "cast", "cast?")
             \/ AskHelper(t) \/ HearHelper(t)
    <3>1. r.at \in RegisteredLabel
      BY <2>4 DEF While, CopyName, SendList, SkipOwn, SendToEntry, AskHelper, HearHelper, RegisteredLabel
    <3>2. th' = th \/ Elsewhere(r, q)
      BY <2>4, LoopsElsewhere
    <3>3. Elsewhere(r, q) => KeepsName(r, q)
      BY <3>1 DEF Elsewhere, KeepsName, NamedLabel, RegisteredLabel
    <3> QED  BY <1>0, <2>1, <3>2, <3>3, NamesMoved
  <2>5. CASE LoadSlot(t) \/ FillSlot(t) \/ (LoadCount(t) /\ r.at = "count+") \/ StoreCountUp(t)
    <3>1. \/ th' = th
          \/ /\ r.at \in {"slot", "fill", "count+", "count+'"} /\ q.name = r.name
             /\ q.at \in {"fill", "count+", "count+'", "list?"}
      <4>1. CASE LoadSlot(t)
        <5>1. q = [r EXCEPT !.at = "fill", !.reg = currentClientCount] /\ r.at = "slot"
          BY <1>0, <4>1, Given DEF LoadSlot
        <5> QED  BY <1>0, <5>1 DEF Thread
      <4>2. CASE FillSlot(t)
        <5>1. th' = th \/ (q = [r EXCEPT !.at = "count+"] /\ r.at = "fill")
          BY <1>0, <4>2, Given DEF FillSlot
        <5> QED  BY <1>0, <5>1 DEF Thread
      <4>3. CASE LoadCount(t) /\ r.at = "count+"
        <5>1. q = [r EXCEPT !.at = IF @ = "count+" THEN "count+'" ELSE "count-'", !.reg = currentClientCount]
          BY <1>0, <4>3, Given DEF LoadCount
        <5> QED  BY <1>0, <4>3, <5>1 DEF Thread
      <4>4. CASE StoreCountUp(t)
        <5>1. q = Loop(r, "list?") /\ r.at = "count+'"
          BY <1>0, <4>4, Given DEF StoreCountUp
        <5> QED  BY <1>0, <5>1 DEF Thread, Loop
      <4> QED  BY <2>5, <4>1, <4>2, <4>3, <4>4
    <3> QED  BY <1>0, <2>1, <3>1, NamesMoved DEF KeepsName, NamedLabel, RegisteredLabel
  <2>6. \/ Start(t) \/ Drop(t) \/ Close(t) \/ r.at \in Removing
        \/ While(t, "list?", "list", "list!") \/ While(t, "push?", "push", "recv")
        \/ While(t, "cast?", "own?", "recv") \/ CopyName(t) \/ SendList(t) \/ SkipOwn(t)
        \/ SendToEntry(t, "push", "push?") \/ SendToEntry(t, "cast", "cast?")
        \/ AskHelper(t) \/ HearHelper(t)
        \/ LoadSlot(t) \/ FillSlot(t) \/ (LoadCount(t) /\ r.at = "count+") \/ StoreCountUp(t)
    <3>1. /\ LoadCount(t) => r.at = "count+" \/ r.at \in Removing
          /\ Find(t) \/ While(t, "find?", "find", "exit") \/ ShiftOrNot(t) \/ Shift(t) \/ StoreCountDown(t)
               => r.at \in Removing
      BY DEF LoadCount, Find, While, ShiftOrNot, Shift, StoreCountDown, Removing, RemovalLabel
    <3> HIDE DEF r, q
    <3> QED  BY <1>2, <3>1 DEF clientThreadSplitFunction, outputConnectedClients, newClientJoinedPush,
                               sendPublicMessage, RemoveClient
  <2> QED  BY <2>2, <2>3, <2>4, <2>5, <2>6
<1> QED  BY <1>1, <1>2

(* NamesInv is inductive, given the types and AskInv.                      *)
LEMMA NamesStep ==
  ASSUME Types, AskInv, NamesInv, [Next]_vars
  PROVE  NamesInv'
<1>1. CASE th' = th /\ got' = got /\ own' = own
  BY <1>1, NamesKept
<1>2. CASE Admit /\ th' # th
  <2> DEFINE q == [th[main] EXCEPT !.at = "start"]
  <2>1. main \in Conn /\ th[main].at = "none" /\ Gives(main, q) /\ ThreadsOK'
    BY <1>2, AdmitTypes
  <2>2. th'[main] = q /\ q.at = "start"
    BY <2>1 DEF Types, ThreadsOK, Thread, Gives
  <2>3. KeepsName(th[main], th'[main])
    BY <2>1, <2>2 DEF KeepsName, NamedLabel, RegisteredLabel
  <2>4. Stepped(main) /\ got' = got /\ own' = own
    BY <1>2, <2>1, <2>2 DEF Stepped, Admit, history
  <2> QED  BY <2>1, <2>3, <2>4, NamesMoved
<1>3. ASSUME NEW t \in Conn, clientThreadSplitFunction(t)
      PROVE  NamesInv'
  BY <1>3, NamesThread
<1> QED  BY <1>1, <1>2, <1>3 DEF Next, Connect, Say, Leave, HelperAnswers, HelperDies, Accept, Admit,
                                  history, vars

(* It holds at the start.                                                  *)
LEMMA NamesInit ==
  ASSUME Init
  PROVE  NamesInv
BY DEF Init, Idle, NamesInv, NamedLabel, RegisteredLabel

\* Where the row has a gap: at the entry of a client that has left, and then
\* at the place that is shifted over.  All others are registered.
Shifting == {"shift?", "shift", "count-", "count-'"}
Looking  == {"close", "find?", "find"}

OneGap ==
  /\ currentClientCount \in Nat /\ currentClientCount =< MAXIMUM_CONNECTED_CLIENTS
  /\ Places = 0 .. currentClientCount - 1
  /\ Gaps = {} \/ \E g \in 0 .. currentClientCount - 1 : Gaps = {g}
  /\ (\A t \in Conn : th[t].at \notin RemovalLabel) => Gaps = {}
  /\ \A t \in Conn : th[t].at \in Looking => Gaps = {i \in Places : clients[i].socket = th[t].fd}
  /\ \A t \in Conn : th[t].at \in Shifting => Gaps = {th[t].j}
  /\ Lists(clients, Places \ Gaps, Entries(Registered))

(* In order, only the editor can make a gap.                               *)
LEMMA InOrderHasOneGap == InOrder => OneGap
<1> SUFFICES ASSUME InOrder PROVE OneGap
  OBVIOUS
<1>1. /\ currentClientCount \in Nat /\ currentClientCount =< MAXIMUM_CONNECTED_CLIENTS
      /\ Places = 0 .. currentClientCount - 1
  BY PlacesAre, CapacityAssumption DEF InOrder
<1>2. RemovalLabel = Looking \cup Shifting
  BY DEF RemovalLabel, Looking, Shifting
<1>3. CASE \A t \in Conn : th[t].at \notin RemovalLabel
  <2>1. Gaps = {}
    BY <1>2, <1>3 DEF Gaps, Looking, Shifting
  <2>2. Lists(clients, Places \ Gaps, Entries(Registered))
    <3>1. Places \ Gaps = Places
      BY <2>1
    <3> QED  BY <1>3, <3>1 DEF InOrder
  <2> QED  BY <1>1, <1>2, <1>3, <2>1, <2>2 DEF OneGap
<1>4. ASSUME NEW t \in Conn, th[t].at \in RemovalLabel
      PROVE  OneGap
  <2>1. Leaving(t) /\ \A u \in Conn \ {t} : th[u].at \notin RemovalLabel
    BY <1>4 DEF InOrder, Editing, EditLabel
  <2>2. Gaps = {i \in Places : \/ th[t].at \in Looking /\ clients[i].socket = th[t].fd
                               \/ th[t].at \in Shifting /\ i = th[t].j}
    BY <1>2, <2>1 DEF Gaps, Looking, Shifting
  <2>3. CASE th[t].at \in Shifting
    <3>1. th[t].at \notin Looking /\ th[t].j \in Places
      BY <2>1, <2>3 DEF Shifting, Looking, Leaving
    <3>2. Gaps = {th[t].j} /\ Lists(clients, Places \ {th[t].j}, Entries(Registered))
      BY <2>1, <2>2, <2>3, <3>1 DEF Leaving, Shifting
    <3>3. \A u \in Conn : th[u].at \in Looking \cup Shifting => u = t
      BY <1>2, <2>1
    <3> QED  BY <1>1, <1>4, <2>3, <3>1, <3>2, <3>3 DEF OneGap
  <2>4. CASE th[t].at \in Looking
    <3>1. th[t].at \notin Shifting
      BY <2>4 DEF Shifting, Looking
    <3>2. Gaps = {i \in Places : clients[i].socket = th[t].fd}
      BY <2>2, <2>4, <3>1
    <3>3. Searching(t)
      BY <2>1, <2>4 DEF Leaving, Looking
    <3>4. /\ Gaps = {} \/ \E g \in Places : Gaps = {g}
          /\ Lists(clients, Places \ Gaps, Entries(Registered))
      <4>1. CASE Lists(clients, Places, Entries(Registered))
        <5>1. \A k \in Places : \E u \in Registered : clients[k].socket = th[u].fd
          BY <4>1 DEF Lists, Entries
        <5>2. Gaps = {}
          BY <2>1, <3>2, <5>1 DEF Leaving
        <5>3. Places \ Gaps = Places
          BY <5>2
        <5> QED  BY <4>1, <5>2, <5>3
      <4>2. CASE Lists(clients, Places, Entries(Registered \cup {t}))
        <5> DEFINE e == [socket |-> th[t].fd, name |-> th[t].name]
        <5>1. Entries(Registered \cup {t}) = Entries(Registered) \cup {e}
          BY DEF Entries
        <5>2. PICK g \in Places : clients[g] = e
          <6> HIDE DEF e
          <6>1. e \in {clients[i] : i \in Places}
            BY <4>2, <5>1 DEF Lists
          <6> QED  BY <6>1
        <5>3. Gaps = {g}
          BY <3>2, <4>2, <5>2 DEF Lists
        <5>4. \A x \in Entries(Registered) : x.socket # e.socket
          BY <2>1 DEF Leaving, Entries
        <5>5. Lists(clients, Places \ {g}, Entries(Registered))
          <6> HIDE DEF e
          <6> QED  BY <4>2, <5>1, <5>2, <5>4, ListsDrop
        <5> QED  BY <5>3, <5>5
      <4> QED  BY <3>3, <4>1, <4>2 DEF Searching
    <3>5. \A u \in Conn : th[u].at \in Looking \cup Shifting => u = t
      BY <1>2, <2>1
    <3> QED  BY <1>1, <1>4, <2>4, <3>1, <3>2, <3>4, <3>5 DEF OneGap
  <2> QED  BY <1>2, <1>4, <2>3, <2>4
<1> QED  BY <1>3, <1>4

(* The same after a step.                                                  *)
LEMMA NextHasOneGap == InOrder' => OneGap'
BY InOrderHasOneGap, PTL

\* A step that neither moves the gap nor touches those who are listed.
LEMMA MembersStay ==
  ASSUME OneGap, AskInv, AskInv', own, own', Gaps' = Gaps,
         currentClientCount' = currentClientCount,
         \A i \in Places \ Gaps : clients'[i] = clients[i],
         \A u \in Registered : u \in Registered' /\ th'[u].fd = th[u].fd
  PROVE  Members' = Members
<1> DEFINE n == currentClientCount
<1>1. /\ n \in Nat /\ Places = 0 .. n - 1
      /\ Gaps = {} \/ \E g \in 0 .. n - 1 : Gaps = {g}
      /\ Lists(clients, Places \ Gaps, Entries(Registered))
  BY DEF OneGap
<1>2. \A u \in Registered : file[th[u].fd] = u /\ file'[th[u].fd] = u
  <2>1. /\ \A u \in Registered : u \in Conn /\ th[u].at \in Connected
        /\ \A u \in Registered' : u \in Conn /\ th'[u].at \in Connected
    BY RegisteredIs, RegisteredIsNext DEF RegisteredLabel, Connected
  <2>2. /\ \A u \in Registered : file[th[u].fd] = u
        /\ \A u \in Registered' : file'[th'[u].fd] = u
    BY <2>1 DEF AskInv, OwnSockets
  <2> QED  BY <2>2
<1>3. \A i \in (0 .. n - 1) \ Gaps : Seat(clients', file', i) = Seat(clients, file, i)
  <2> SUFFICES ASSUME NEW i \in (0 .. n - 1) \ Gaps PROVE Seat(clients', file', i) = Seat(clients, file, i)
    OBVIOUS
  <2>0. i \in Places \ Gaps
    BY <1>1
  <2>1. PICK u \in Registered : clients[i].socket = th[u].fd
    BY <1>1, <2>0 DEF Lists, Entries
  <2> QED  BY <1>2, <2>0, <2>1 DEF Seat
<1>4. Row(clients', file', n, Gaps) = Row(clients, file, n, Gaps)
  <2> HIDE DEF n
  <2> QED  BY <1>1, <1>3, RowSame
<1>5. Members' = Row(clients', file', currentClientCount', Gaps')
  BY DEF Members, Row, Seat
<1> QED  BY <1>4, <1>5, MembersAreRow

\* So does a step that is not about the roster at all.
LEMMA MembersAside ==
  ASSUME OneGap, AskInv, AskInv', own, own', UNCHANGED roster,
         \A u \in Conn : \/ Same(u)
                         \/ /\ th[u].at \notin RemovalLabel /\ th'[u].at \notin RemovalLabel
                            /\ th'[u].at \in RegisteredLabel <=> th[u].at \in RegisteredLabel
                            /\ th[u].at \in RegisteredLabel => th'[u].fd = th[u].fd
  PROVE  Members' = Members
<1>1. clients' = clients /\ currentClientCount' = currentClientCount /\ Places' = Places
  BY DEF roster, Places
<1>2. Looking \cup Shifting = RemovalLabel
  BY DEF Looking, Shifting, RemovalLabel
<1>3. Gaps' = Gaps
  <2>1. \A u \in Conn : /\ th'[u].at \in Looking <=> th[u].at \in Looking
                        /\ th[u].at \in Looking => th'[u].fd = th[u].fd
                        /\ th'[u].at \in Shifting <=> th[u].at \in Shifting
                        /\ th[u].at \in Shifting => th'[u].j = th[u].j
    BY <1>2 DEF Same
  <2> QED  BY <1>1, <2>1 DEF Gaps, Looking, Shifting
<1>4. \A u \in Registered : u \in Registered' /\ th'[u].fd = th[u].fd
  BY RegisteredIs, RegisteredIsNext DEF Same
<1> QED  BY <1>1, <1>3, <1>4, MembersStay

(* The steps of the thread that edits the roster.                          *)
LEMMA EditorAside ==
  ASSUME Types, NEW t \in Conn, Editing(t), Gives(t, th'[t])
  PROVE  \A u \in Registered : u \in Registered' /\ th'[u].fd = th[u].fd
<1>1. \A u \in Conn \ {t} : Same(u)
  BY OthersSame
<1>2. th[t].at \notin RegisteredLabel
  BY DEF Editing, EditLabel, RemovalLabel, RegisteredLabel
<1> QED  BY <1>1, <1>2, RegisteredIs, RegisteredIsNext DEF Same

(* Before count++ a registration does not show in the room.                *)
LEMMA RegistrationMembers ==
  ASSUME Types, AskInv, AskInv', own, own', InOrder, InOrder', NEW t \in Conn, th' # th,
         LoadSlot(t) \/ FillSlot(t) \/ (LoadCount(t) /\ th[t].at = "count+")
  PROVE  Members' = Members
<1> DEFINE r == th[t]
           q == th'[t]
<1>0. ThreadsOK /\ r \in Thread /\ OneGap /\ OneGap'
  BY InOrderHasOneGap, NextHasOneGap DEF Types, ThreadsOK
<1>1. /\ r.at \in {"slot", "fill", "count+"} /\ q.at \in {"fill", "count+", "count+'"}
      /\ q.at # r.at
  <2>1. CASE LoadSlot(t)
    <3>1. q = [r EXCEPT !.at = "fill", !.reg = currentClientCount] /\ r.at = "slot"
      BY <1>0, <2>1, Given DEF LoadSlot
    <3> QED  BY <1>0, <3>1 DEF Thread
  <2>2. CASE FillSlot(t)
    <3>1. q = [r EXCEPT !.at = "count+"] /\ r.at = "fill"
      BY <1>0, <2>2, Given DEF FillSlot
    <3> QED  BY <1>0, <3>1 DEF Thread
  <2>3. CASE LoadCount(t) /\ r.at = "count+"
    <3>1. q = [r EXCEPT !.at = IF @ = "count+" THEN "count+'" ELSE "count-'", !.reg = currentClientCount]
      BY <1>0, <2>3, Given DEF LoadCount
    <3> QED  BY <1>0, <2>3, <3>1 DEF Thread
  <2> QED  BY <2>1, <2>2, <2>3
<1>2. Gives(t, q) /\ Editing(t)
  <2>1. Stepped(t)
    BY RegistrationStep
  <2> QED  BY <1>1, <2>1 DEF Stepped, Editing, EditLabel
<1>3. \A u \in Conn : th[u].at \notin RemovalLabel /\ th'[u].at \notin RemovalLabel
  <2>1. \A u \in Conn \ {t} : Same(u) /\ th[u].at \notin EditLabel
    BY <1>2, OthersSame DEF InOrder, Editing
  <2> QED  BY <1>1, <2>1 DEF Same, EditLabel, RemovalLabel
<1>4. Gaps = {} /\ Gaps' = {}
  BY <1>0, <1>3 DEF OneGap
<1>5. /\ currentClientCount' = currentClientCount
      /\ \A i \in Places : clients'[i] = clients[i]
  <2>1. CASE clients' = clients
    BY <2>1 DEF LoadSlot, FillSlot, LoadCount, roster
  <2>2. CASE FillSlot(t)
    <3>1. r.reg = currentClientCount /\ currentClientCount \notin Places
      BY <2>2 DEF FillSlot, InOrder, Entering, Places
    <3>2. clients \in RosterType /\ Places \subseteq Entry
      BY DEF Types, SharedOK, Places
    <3>3. clients' = clients \/ clients' = [clients EXCEPT ![r.reg] = [socket |-> r.fd, name |-> r.name]]
      BY <2>2 DEF FillSlot
    <3> QED  BY <2>2, <3>1, <3>2, <3>3 DEF FillSlot, RosterType
  <2> QED  BY <2>1, <2>2 DEF LoadSlot, LoadCount, roster
<1>6. \A u \in Registered : u \in Registered' /\ th'[u].fd = th[u].fd
  BY <1>2, EditorAside
<1> QED  BY <1>0, <1>4, <1>5, <1>6, MembersStay

(* A removal does not, once recv has told of the client's end.             *)
LEMMA RemovalMembers ==
  ASSUME Types, AskInv, AskInv', own, own', InOrder, InOrder', NEW t \in Conn, th' # th,
         \/ LoadCount(t) /\ th[t].at = "count-"
         \/ Close(t) \/ While(t, "find?", "find", "exit") \/ Find(t) \/ ShiftOrNot(t)
  PROVE  Members' = Members
<1> DEFINE r == th[t]
           q == th'[t]
           n == currentClientCount
<1>0. ThreadsOK /\ r \in Thread /\ OneGap /\ OneGap'
  BY InOrderHasOneGap, NextHasOneGap DEF Types, ThreadsOK
<1>1. clients' = clients /\ currentClientCount' = n /\ Places' = Places
  BY DEF LoadCount, Close, While, Find, ShiftOrNot, roster, Places
<1>2. r.at \in RemovalLabel /\ Editing(t)
  BY DEF LoadCount, Close, While, Find, ShiftOrNot, RemovalLabel, Editing, EditLabel
<1>3. Gives(t, q)
  <2>1. Stepped(t)
    BY RegistrationStep, RemovalStep DEF RemoveClient
  <2>2. CASE th' = th /\ process' = "overrun"
    BY <2>2
  <2> QED  BY <2>1, <2>2 DEF Stepped
<1>4. SUFFICES Gaps' = Gaps
  <2>1. \A u \in Registered : u \in Registered' /\ th'[u].fd = th[u].fd
    BY <1>2, <1>3, EditorAside
  <2> QED  BY <1>0, <1>1, <1>4, <2>1, MembersStay
<1>5. ASSUME r.at \in Looking, q.at \in Looking, q.fd = r.fd
      PROVE  Gaps' = Gaps
  <2>1. Gaps = {i \in Places : clients[i].socket = r.fd} /\ Gaps' = {i \in Places' : clients'[i].socket = q.fd}
    BY <1>0, <1>5 DEF OneGap
  <2> QED  BY <1>1, <1>5, <2>1
<1>6. ASSUME r.at \in Shifting, q.at \in Shifting, q.j = r.j
      PROVE  Gaps' = Gaps
  BY <1>0, <1>6 DEF OneGap
<1>7. CASE LoadCount(t) /\ r.at = "count-"
  <2>1. q = [r EXCEPT !.at = IF @ = "count+" THEN "count+'" ELSE "count-'", !.reg = n]
    BY <1>0, <1>7, Given DEF LoadCount
  <2>2. q.at = "count-'" /\ q.j = r.j
    BY <1>0, <1>7, <2>1 DEF Thread
  <2> QED  BY <1>6, <1>7, <2>2 DEF Shifting
<1>8. CASE Close(t)
  <2>1. q = [r EXCEPT !.at = "find?", !.i = 0] /\ r.at = "close"
    BY <1>0, <1>8, Given DEF Close
  <2>2. q.at = "find?" /\ q.fd = r.fd
    BY <1>0, <2>1 DEF Thread
  <2> QED  BY <1>5, <2>1, <2>2 DEF Looking
<1>9. CASE ShiftOrNot(t)
  <2> DEFINE l == IF ToShift(r.j) THEN "shift" ELSE "count-"
  <2>1. q = [r EXCEPT !.at = l] /\ r.at = "shift?"
    BY <1>0, <1>9, Given DEF ShiftOrNot, Goto
  <2>2. q.at = l /\ q.j = r.j
    BY <1>0, <2>1 DEF Thread
  <2>3. l \in Shifting /\ r.at \in Shifting
    BY <2>1 DEF Shifting
  <2> QED  BY <1>6, <2>2, <2>3
<1>10. CASE Find(t)
  <2>0. r.at = "find" /\ Leaving(t) /\ r.i \in Places /\ r.at \in Looking
    BY <1>2, <1>10 DEF Find, InOrder, Leaving, Looking
  <2>1. \/ clients[r.i].socket = r.fd /\ q = [r EXCEPT !.at = "shift?", !.j = r.i]
        \/ q = [r EXCEPT !.at = "find?", !.i = @ + 1]
    BY <1>0, <1>10, Given DEF Find
  <2>2. \/ clients[r.i].socket = r.fd /\ q.at = "shift?" /\ q.j = r.i
        \/ q.at = "find?" /\ q.fd = r.fd
    <3>1. r.i \in Entry
      BY <2>0 DEF Places
    <3> QED  BY <1>0, <2>1, <3>1 DEF Thread
  <2>3. CASE clients[r.i].socket = r.fd /\ q.at = "shift?" /\ q.j = r.i
    <3>1. Gaps' = {r.i}
      BY <1>0, <2>3 DEF OneGap, Shifting
    <3>2. r.i \in Gaps /\ (Gaps = {} \/ \E g : Gaps = {g})
      BY <1>0, <2>0, <2>3 DEF OneGap
    <3> QED  BY <3>1, <3>2
  <2> QED  BY <1>5, <2>0, <2>2, <2>3 DEF Looking
<1>11. CASE While(t, "find?", "find", "exit")
  <2>0. r.at = "find?" /\ r.at \in Looking /\ Leaving(t)
    BY <1>2, <1>11 DEF While, InOrder, Leaving, Looking
  <2>1. q = [r EXCEPT !.at = "find"] \/ (~(r.i < n) /\ q = [r EXCEPT !.at = "exit"])
    BY <1>0, <1>11, Given DEF While, Goto
  <2>2. (q.at = "find" /\ q.fd = r.fd) \/ (~(r.i < n) /\ q.at = "exit")
    BY <1>0, <2>1 DEF Thread
  <2>3. CASE ~(r.i < n) /\ q.at = "exit"
    <3>1. Gaps' = {}
      <4>1. \A u \in Conn \ {t} : Same(u) /\ th[u].at \notin EditLabel
        BY <1>2, <1>3, OthersSame DEF InOrder, Editing
      <4>2. \A u \in Conn : th'[u].at \notin RemovalLabel
        BY <2>3, <4>1 DEF Same, EditLabel, RemovalLabel
      <4> QED  BY <1>0, <4>2 DEF OneGap
    <3>2. \A k \in Places : clients[k].socket # r.fd
      <4>1. \A k \in Places : clients[k].socket = r.fd => ~(k < r.i)
        BY <2>0, NotYetFound
      <4>2. \A k \in Places : k < r.i
        <5>1. r.i \in Nat /\ n \in Nat /\ Places = 0 .. n - 1
          BY <1>0 DEF OneGap, Thread
        <5> QED  BY <2>3, <5>1
      <4> QED  BY <4>1, <4>2
    <3>3. Gaps = {}
      BY <1>0, <2>0, <3>2 DEF OneGap
    <3> QED  BY <3>1, <3>3
  <2> QED  BY <1>5, <2>0, <2>2, <2>3 DEF Looking
<1> QED  BY <1>7, <1>8, <1>9, <1>10, <1>11

(* Copying an entry down moves the gap, and nobody in the room.            *)
LEMMA ShiftMembers ==
  ASSUME Types, InOrder, InOrder', NEW t \in Conn, Shift(t), th' # th
  PROVE  Members' = Members
<1> DEFINE r == th[t]
           q == th'[t]
           n == currentClientCount
<1>0. ThreadsOK /\ r \in Thread /\ OneGap /\ OneGap'
  BY InOrderHasOneGap, NextHasOneGap DEF Types, ThreadsOK
<1>1. /\ r.at = "shift" /\ r.j + 1 \in Entry /\ UNCHANGED <<file, currentClientCount>>
      /\ clients' = [clients EXCEPT ![r.j] = clients[r.j + 1]]
      /\ q = [r EXCEPT !.at = "shift?", !.j = @ + 1]
  BY <1>0, Given DEF Shift
<1>2. q.at = "shift?" /\ q.j = r.j + 1
  BY <1>0, <1>1 DEF Thread
<1>3. Gaps = {r.j} /\ Gaps' = {r.j + 1}
  BY <1>0, <1>1, <1>2 DEF OneGap, Shifting
<1>4. r.j \in 0 .. n - 2 /\ n \in Nat
  <2>1. r.j \in Places /\ r.j < n - 1
    BY <1>1 DEF InOrder, Leaving, RemovalLabel
  <2>2. n \in Nat /\ Places = 0 .. n - 1
    BY <1>0 DEF OneGap
  <2> HIDE DEF r, n
  <2> QED  BY <2>1, <2>2
<1>5. 0 .. n - 1 \subseteq DOMAIN clients
  BY <1>0 DEF OneGap, Types, SharedOK, RosterType, Places
<1>6. Members' = Row(clients', file, n, {r.j + 1})
  BY <1>1, <1>3 DEF Members, Row, Seat
<1>7. Row(clients', file, n, {r.j + 1}) = Row(clients, file, n, {r.j})
  <2>1. clients' = [clients EXCEPT ![r.j] = clients[r.j + 1]]
    BY <1>1
  <2>2. Row([clients EXCEPT ![r.j] = clients[r.j + 1]], file, n, {r.j + 1}) = Row(clients, file, n, {r.j})
    <3> HIDE DEF r, n
    <3> QED  BY <1>4, <1>5, RowShift
  <2> QED  BY <2>1, <2>2
<1> QED  BY <1>3, <1>6, <1>7, MembersAreRow

(* count-- closes the gap, which is at the end by then.                    *)
LEMMA StoreCountDownMembers ==
  ASSUME Types, InOrder, InOrder', NEW t \in Conn, StoreCountDown(t)
  PROVE  Members' = Members
<1> DEFINE r == th[t]
           q == th'[t]
           n == currentClientCount
<1>0. ThreadsOK /\ r \in Thread /\ OneGap /\ OneGap'
  BY InOrderHasOneGap, NextHasOneGap DEF Types, ThreadsOK
<1>1. /\ r.at = "count-'" /\ UNCHANGED <<file, clients>> /\ currentClientCount' = r.reg - 1
      /\ q = [r EXCEPT !.at = "find?", !.i = @ + 1]
  BY <1>0, Given DEF StoreCountDown, OneFewer
<1>2. q.at = "find?" /\ q.fd = r.fd
  BY <1>0, <1>1 DEF Thread
<1>3. Leaving(t) /\ r.reg = n /\ r.j = n - 1 /\ r.j \in Places
  BY <1>1 DEF InOrder, Leaving, RemovalLabel
<1>4. Gaps = {n - 1} /\ n \in Nat \ {0} /\ Places = 0 .. n - 1
  <2>1. Gaps = {n - 1} /\ n \in Nat /\ Places = 0 .. n - 1
    BY <1>0, <1>1, <1>3 DEF OneGap, Shifting
  <2>2. n - 1 \in 0 .. n - 1
    BY <1>3, <2>1
  <2> HIDE DEF n
  <2> QED  BY <2>1, <2>2
<1>5. currentClientCount' = n - 1
  BY <1>1, <1>3
<1>6. Gaps' = {}
  <2>1. Gaps' = {i \in Places' : clients'[i].socket = r.fd} /\ Places' = 0 .. n - 2
    <3>1. Gaps' = {i \in Places' : clients'[i].socket = q.fd} /\ Places' = 0 .. currentClientCount' - 1
      BY <1>0, <1>2 DEF OneGap, Looking
    <3>2. (n - 1) - 1 = n - 2
      BY <1>4
    <3> QED  BY <1>2, <1>5, <3>1, <3>2
  <2>2. \A i \in 0 .. n - 2 : i \in Places \ Gaps
    BY <1>4
  <2>3. \A i \in Places \ Gaps : \E u \in Registered : clients[i].socket = th[u].fd
    BY <1>0 DEF OneGap, Lists, Entries
  <2>4. \A u \in Registered : th[u].fd # r.fd
    BY <1>3 DEF Leaving
  <2> QED  BY <1>1, <2>1, <2>2, <2>3, <2>4
<1>7. Members' = Row(clients, file, n - 1, {})
  BY <1>1, <1>5, <1>6 DEF Members, Row, Seat
<1>8. Row(clients, file, n - 1, {}) = Row(clients, file, n, {n - 1})
  <2> HIDE DEF n
  <2> QED  BY <1>4, RowEndsEarlier
<1> QED  BY <1>4, <1>7, <1>8, MembersAreRow

\* The members of the room before and after p enters or leaves.
Enters(p) ==
  /\ Members' = Append(Members, p) /\ Members' # Members
  /\ Len(Members) < MAXIMUM_CONNECTED_CLIENTS
  /\ \A m \in ToSet(Members) : m.who # p.who
Leaves(p) ==
  /\ Members' # Members
  /\ \E k \in DOMAIN Members : Members[k] = p /\ Members' = RemoveAt(Members, k)

(* count++ is where a client enters the room, at the end of the line.      *)
LEMMA EnterMembers ==
  ASSUME Types, AskInv, own, InOrder, InOrder', NEW t \in Conn, StoreCountUp(t)
  PROVE  Enters([who |-> t, name |-> th[t].name])
<1> DEFINE r == th[t]
           q == th'[t]
           n == currentClientCount
           p == [who |-> t, name |-> r.name]
<1>0. ThreadsOK /\ r \in Thread /\ OneGap /\ OneGap'
  BY InOrderHasOneGap, NextHasOneGap DEF Types, ThreadsOK
<1>1. /\ r.at = "count+'" /\ UNCHANGED <<file, clients>> /\ currentClientCount' = r.reg + 1
      /\ q = Loop(r, "list?")
  BY <1>0, Given DEF StoreCountUp
<1>2. q.at = "list?"
  BY <1>0, <1>1 DEF Thread, Loop
<1>3. /\ r.reg = n /\ n \in Entry /\ n \in Nat /\ n < MAXIMUM_CONNECTED_CLIENTS
      /\ clients[n] = [socket |-> r.fd, name |-> r.name] /\ Places = 0 .. n - 1
  <2>1. r.reg = n /\ n \in Entry /\ clients[n] = [socket |-> r.fd, name |-> r.name]
    BY <1>1 DEF InOrder, Entering
  <2>2. n \in Nat /\ Places = 0 .. n - 1
    BY <1>0 DEF OneGap
  <2>3. n < MAXIMUM_CONNECTED_CLIENTS
    BY <2>1, <2>2, CapacityAssumption DEF Entry
  <2> QED  BY <2>1, <2>2, <2>3
<1>4. Gaps = {} /\ Gaps' = {}
  <2>1. Editing(t) /\ Stepped(t)
    BY <1>1, RegistrationStep DEF Editing, EditLabel
  <2>2. Gives(t, q)
    BY <1>1, <1>2, <2>1 DEF Stepped
  <2>3. \A u \in Conn \ {t} : Same(u) /\ th[u].at \notin EditLabel
    BY <2>1, <2>2, OthersSame DEF InOrder, Editing
  <2>4. \A u \in Conn : th[u].at \notin RemovalLabel /\ th'[u].at \notin RemovalLabel
    BY <1>1, <1>2, <2>3 DEF Same, EditLabel, RemovalLabel
  <2> QED  BY <1>0, <2>4 DEF OneGap
<1>5. Members = Row(clients, file, n, {})
  BY <1>4, MembersAreRow
<1>6. Members' = Row(clients, file, n + 1, {})
  BY <1>1, <1>3, <1>4 DEF Members, Row, Seat
<1>7. Seat(clients, file, n) = p
  <2>1. file[r.fd] = t
    BY <1>1 DEF AskInv, OwnSockets, Connected
  <2> QED  BY <1>3, <2>1 DEF Seat
<1>8. /\ Row(clients, file, n + 1, {}) = Append(Row(clients, file, n, {}), p)
      /\ Len(Row(clients, file, n, {})) = n
      /\ Row(clients, file, n, {}) = [k \in 1 .. n |-> Seat(clients, file, k - 1)]
  <2> HIDE DEF n, p
  <2>1. /\ Row(clients, file, n + 1, {}) = Append(Row(clients, file, n, {}), p)
        /\ Len(Row(clients, file, n, {})) = n
    BY <1>3, <1>7, RowGrows
  <2>2. Row(clients, file, n, {}) = Whole(clients, file, n)
    BY <1>3, RowWhole
  <2> QED  BY <2>1, <2>2 DEF Whole
<1>9. /\ Len(Row(clients, file, n + 1, {})) = n + 1 /\ n + 1 # n
  <2> HIDE DEF n
  <2> QED  BY <1>3, RowGrows
<1>10. \A m \in ToSet(Members) : m.who # t
  <2>1. t \notin Registered
    BY <1>1, RegisteredIs DEF RegisteredLabel
  <2>2. ASSUME NEW k \in 1 .. n
        PROVE  Seat(clients, file, k - 1).who # t
    <3>1. k - 1 \in Places
      BY <1>3
    <3>2. Lists(clients, Places, Entries(Registered))
      BY <1>0, <1>4 DEF OneGap
    <3>3. clients[k - 1] \in Entries(Registered)
      BY <3>1, <3>2 DEF Lists
    <3> DEFINE e == clients[k - 1]
    <3> HIDE DEF e
    <3>4. PICK u \in Registered : e.socket = th[u].fd
      <4>1. e \in Entries(Registered)
        BY <3>3 DEF e
      <4>2. PICK u \in Registered : e = [socket |-> th[u].fd, name |-> th[u].name]
        BY <4>1 DEF Entries
      <4> QED  BY <4>2
    <3>5. file[th[u].fd] = u
      BY RegisteredIs DEF RegisteredLabel, Connected, AskInv, OwnSockets
    <3> QED  BY <2>1, <3>4, <3>5 DEF Seat, e
  <2>3. \A m \in ToSet(Members) : \E k \in 1 .. n : m = Seat(clients, file, k - 1)
    BY <1>5, <1>8 DEF ToSet
  <2> QED  BY <2>2, <2>3
<1>11. Members' # Members
  BY <1>5, <1>6, <1>8, <1>9
<1> QED  BY <1>3, <1>5, <1>6, <1>8, <1>10, <1>11 DEF Enters

(* It leaves as soon as recv has told of its end.                          *)
LEMMA LeaveMembers ==
  ASSUME Types, AskInv, own, InOrder, InOrder', NEW t \in Conn, RecvText(t), th'[t].at = "close", ~OtherEdits(t)
  PROVE  Leaves([who |-> t, name |-> th[t].name])
<1> DEFINE r == th[t]
           q == th'[t]
           n == currentClientCount
           p == [who |-> t, name |-> r.name]
<1>0. ThreadsOK /\ r \in Thread /\ OneGap /\ OneGap'
  BY InOrderHasOneGap, NextHasOneGap DEF Types, ThreadsOK
<1>1. r.at = "recv" /\ UNCHANGED <<file, clients, currentClientCount>>
  BY DEF RecvText, Hears, roster
<1>2. q.fd = r.fd
  <2>1. q = [r EXCEPT !.at = "close"] \/ \E x : q = [r EXCEPT !.at = "ask", !["text"] = x]
    BY <1>0, Given DEF RecvText, Hears, Goto
  <2> QED  BY <1>0, <2>1 DEF Thread
<1>3. n \in Nat /\ Places = 0 .. n - 1 /\ Places' = Places
  BY <1>0, <1>1 DEF OneGap, Places
<1>4. Gaps = {}
  <2>1. \A u \in Conn : th[u].at \notin RemovalLabel
    BY <1>1 DEF OtherEdits, Editing, EditLabel, RemovalLabel
  <2> QED  BY <1>0, <2>1 DEF OneGap
<1>5. PICK g \in Places : clients[g] = [socket |-> r.fd, name |-> r.name]
  <2>1. t \in Registered
    BY <1>1, RegisteredIs DEF RegisteredLabel
  <2>2. [socket |-> r.fd, name |-> r.name] \in Entries(Registered)
    BY <2>1 DEF Entries
  <2> QED  BY <1>0, <1>4, <2>2 DEF OneGap, Lists
<1>6. Gaps' = {g}
  <2>1. Gaps' = {i \in Places : clients[i].socket = r.fd}
    BY <1>0, <1>1, <1>2, <1>3 DEF OneGap, Looking
  <2>2. \A i \in Places : clients[i].socket = clients[g].socket => i = g
    BY <1>0, <1>4 DEF OneGap, Lists
  <2> QED  BY <1>5, <2>1, <2>2
<1>7. Members = Row(clients, file, n, {}) /\ Members' = Row(clients, file, n, {g})
  <2>1. Members' = Row(clients, file, n, {g})
    BY <1>1, <1>6 DEF Members, Row, Seat
  <2> QED  BY <1>4, <2>1, MembersAreRow
<1>8. Seat(clients, file, g) = p
  <2>1. file[r.fd] = t
    BY <1>1 DEF AskInv, OwnSockets, Connected
  <2> QED  BY <1>5, <2>1 DEF Seat
<1>9. /\ g + 1 \in DOMAIN Row(clients, file, n, {})
      /\ Row(clients, file, n, {})[g + 1] = p
      /\ Row(clients, file, n, {g}) = RemoveAt(Row(clients, file, n, {}), g + 1)
      /\ Row(clients, file, n, {g}) # Row(clients, file, n, {})
  <2>1. g \in 0 .. n - 1
    BY <1>3
  <2> HIDE DEF n, p
  <2> QED  BY <1>3, <1>8, <2>1, RowLeaves
<1> QED  BY <1>7, <1>9 DEF Leaves

(* Every step of a thread lets one client in or out, or nobody.            *)
LEMMA RoomThread ==
  ASSUME Types, AskInv, AskInv', RosterInv, RosterInv', NamesInv, Orderly, Orderly',
         NEW t \in Conn, clientThreadSplitFunction(t)
  PROVE  Members' = Members \/ \E p \in Names : Enters(p) \/ Leaves(p)
<1> DEFINE r == th[t]
           q == th'[t]
           p == [who |-> t, name |-> r.name]
<1>0. /\ ThreadsOK /\ r \in Thread /\ Stepped(t) /\ own /\ own' /\ serial' /\ process' = "up"
      /\ InOrder /\ InOrder' /\ OneGap
  BY ThreadStep, InOrderHasOneGap DEF Types, ThreadsOK, Orderly, RosterInv
<1>1. ASSUME r.at \in NamedLabel
      PROVE  p \in Names
  <2>1. PICK n \in 1 .. MaxLines[t] : r.name = [k \in 1 .. n |-> <<t, k>>]
    BY <1>0, <1>1 DEF NamesInv, NameOf
  <2> QED  BY <2>1, NamesHave
<1>2. ASSUME UNCHANGED roster,
             \/ th' = th
             \/ /\ r.at \notin RemovalLabel /\ q.at \notin RemovalLabel
                /\ q.at \in RegisteredLabel <=> r.at \in RegisteredLabel
                /\ r.at \in RegisteredLabel => q.fd = r.fd
      PROVE  Members' = Members
  <2>1. CASE th' = th
    BY <1>0, <1>2, <2>1, MembersAside DEF Same
  <2>2. CASE th' # th
    <3>1. \A u \in Conn \ {t} : Same(u)
      BY <1>0, <2>2, OthersSame DEF Stepped
    <3> QED  BY <1>0, <1>2, <2>2, <3>1, MembersAside
  <2> QED  BY <2>1, <2>2
<1>3. CASE Start(t) \/ Drop(t) \/ RecvName(t)
  <2>1. UNCHANGED roster
    BY <1>3 DEF Start, Drop, RecvName, Hears
  <2>2. r.at \in {"start", "drop", "name"} /\ q.at \in {"name", "exit", "slot", "drop"}
    <3>1. CASE Start(t)
      <4>1. q = [r EXCEPT !.at = "name", !.fd = client_socket]
        BY <1>0, <3>1, Given DEF Start
      <4> QED  BY <1>0, <3>1, <4>1 DEF Start, Thread
    <3>2. CASE Drop(t)
      <4>1. q = [r EXCEPT !.at = "exit"]
        BY <1>0, <3>2, Given DEF Drop, Goto
      <4> QED  BY <1>0, <3>2, <4>1 DEF Drop, Thread
    <3>3. CASE RecvName(t)
      <4>1. q = [r EXCEPT !.at = "drop"] \/ \E x : q = [r EXCEPT !.at = "slot", !["name"] = x]
        BY <1>0, <3>3, Given DEF RecvName, Hears, Goto
      <4> QED  BY <1>0, <3>3, <4>1 DEF RecvName, Thread
    <3> QED  BY <1>3, <3>1, <3>2, <3>3
  <2>3. r.at \notin RemovalLabel /\ q.at \notin RemovalLabel /\ r.at \notin RegisteredLabel /\ q.at \notin RegisteredLabel
    BY <2>2 DEF RemovalLabel, RegisteredLabel
  <2> QED  BY <1>2, <2>1, <2>3
<1>4. CASE RecvText(t)
  <2>1. UNCHANGED roster /\ r.at = "recv" /\ (serial' => (q.at = "close" => ~OtherEdits(t)))
    BY <1>4 DEF RecvText, Hears
  <2>2. q.at \in {"ask", "close"} /\ q.fd = r.fd
    <3>1. q = [r EXCEPT !.at = "close"] \/ \E x : q = [r EXCEPT !.at = "ask", !["text"] = x]
      BY <1>0, <1>4, Given DEF RecvText, Hears, Goto
    <3> QED  BY <1>0, <3>1 DEF Thread
  <2>3. CASE q.at = "close"
    <3>1. Leaves(p)
      BY <1>0, <1>4, <2>1, <2>3, LeaveMembers
    <3>2. p \in Names
      BY <1>1, <2>1 DEF NamedLabel, RegisteredLabel
    <3> QED  BY <3>1, <3>2
  <2>4. CASE q.at = "ask"
    BY <1>2, <2>1, <2>2, <2>4 DEF RemovalLabel, RegisteredLabel
  <2> QED  BY <2>2, <2>3, <2>4
<1>5. CASE \/ While(t, "list?", "list", "list!") \/ While(t, "push?", "push", "recv")
           \/ While(t, "cast?", "own?", "recv") \/ CopyName(t) \/ SendList(t) \/ SkipOwn(t)
           \/ SendToEntry(t, "push", "push?") \/ SendToEntry(t, "cast", "cast?")
           \/ AskHelper(t) \/ HearHelper(t)
  <2>1. th' = th \/ Elsewhere(r, q)
    BY <1>5, LoopsElsewhere
  <2>2. UNCHANGED roster
    BY <1>5 DEF While, CopyName, SendList, SkipOwn, SendToEntry, AskHelper, HearHelper
  <2> QED  BY <1>2, <2>1, <2>2 DEF Elsewhere, EditLabel
<1>6. CASE StoreCountUp(t)
  <2>1. Enters(p)
    BY <1>0, <1>6, EnterMembers
  <2>2. p \in Names
    BY <1>1, <1>6 DEF StoreCountUp, NamedLabel
  <2> QED  BY <2>1, <2>2
<1>7. CASE \/ LoadSlot(t) \/ FillSlot(t) \/ LoadCount(t) \/ Close(t) \/ Find(t) \/ ShiftOrNot(t) \/ Shift(t)
           \/ While(t, "find?", "find", "exit") \/ StoreCountDown(t)
  <2>1. CASE StoreCountDown(t)
    BY <1>0, <2>1, StoreCountDownMembers
  <2>2. CASE th' = th /\ UNCHANGED roster
    BY <1>2, <2>2
  <2>3. CASE th' # th /\ ~StoreCountDown(t)
    <3>1. LoadCount(t) => r.at = "count+" \/ r.at = "count-"
      BY DEF LoadCount
    <3> QED  BY <1>0, <1>7, <2>3, <3>1, RegistrationMembers, RemovalMembers, ShiftMembers
  <2>4. th' = th => StoreCountDown(t) \/ UNCHANGED roster
    <3>1. process' # "overrun"
      BY <1>0
    <3>2. CASE FillSlot(t)
      <4>1. r.at = "fill" /\ q = [r EXCEPT !.at = "count+"]
        BY <1>0, <3>1, <3>2, Given DEF FillSlot
      <4> QED  BY <1>0, <4>1 DEF Thread
    <3>3. CASE Shift(t)
      <4>1. r.at = "shift" /\ q = [r EXCEPT !.at = "shift?", !.j = @ + 1]
        BY <1>0, <3>1, <3>3, Given DEF Shift
      <4> QED  BY <1>0, <4>1 DEF Thread
    <3> QED  BY <1>7, <3>2, <3>3 DEF LoadSlot, LoadCount, Close, Find, ShiftOrNot, While
  <2> QED  BY <2>1, <2>2, <2>3, <2>4
<1> QED  BY <1>3, <1>4, <1>5, <1>6, <1>7
         DEF clientThreadSplitFunction, outputConnectedClients, newClientJoinedPush,
             sendPublicMessage, RemoveClient

\* Order, once lost, is not found again.
LEMMA OrderlyBefore ==
  ASSUME Types, [Next]_vars, Orderly'
  PROVE  Orderly
<1>1. CASE UNCHANGED vars
  BY <1>1 DEF vars, history, Orderly
<1>2. CASE Next
  <2>1. process = "up"
    BY <1>2 DEF Next
  <2>2. (own' => own) /\ (serial' => serial)
    <3>1. ASSUME NEW t \in Conn, clientThreadSplitFunction(t)
          PROVE  (own' => own) /\ (serial' => serial)
      BY <3>1, ThreadHistory
    <3> QED  BY <1>2, <3>1 DEF Next, Connect, Say, Leave, HelperAnswers, HelperDies, Accept, Admit, history
  <2> QED  BY <2>1, <2>2 DEF Orderly
<1> QED  BY <1>1, <1>2

(* So does every step.                                                     *)
LEMMA RoomMoves ==
  ASSUME Types, Types', AskInv, AskInv', RosterInv, RosterInv', NamesInv, Orderly, Orderly', [Next]_vars
  PROVE  Members' = Members \/ \E p \in Names : Enters(p) \/ Leaves(p)
<1>0. OneGap /\ own /\ own'
  BY InOrderHasOneGap DEF Orderly, RosterInv
<1>1. CASE th' = th /\ UNCHANGED roster
  BY <1>0, <1>1, MembersAside DEF Same
<1>2. CASE Admit /\ th' # th
  <2>1. main \in Conn /\ th[main].at = "none" /\ Gives(main, [th[main] EXCEPT !.at = "start"])
    BY <1>2, AdmitTypes
  <2>2. th'[main].at = "start"
    BY <2>1 DEF Types, ThreadsOK, Thread, Gives
  <2>3. \A u \in Conn \ {main} : Same(u)
    BY <2>1, OthersSame DEF Gives
  <2>4. UNCHANGED roster
    BY <1>2 DEF Admit
  <2> QED  BY <1>0, <2>1, <2>2, <2>3, <2>4, MembersAside DEF RemovalLabel, RegisteredLabel
<1>3. ASSUME NEW t \in Conn, clientThreadSplitFunction(t)
      PROVE  Members' = Members \/ \E p \in Names : Enters(p) \/ Leaves(p)
  BY <1>3, RoomThread
<1> QED  BY <1>1, <1>2, <1>3 DEF Next, Connect, Say, Leave, HelperAnswers, HelperDies, Accept, Admit, vars, roster

(* As long as registrations and removals follow one another, clients[] and *)
(* currentClientCount are at every step, also in the middle of a removal,  *)
(* those of a room that clients enter at the end of the line, one at a     *)
(* time and never more than MAXIMUM_CONNECTED_CLIENTS, and leave from      *)
(* wherever they stand, without anything happening to the others.          *)
THEOREM ServerImplementsRoom == Spec => ImplementsRoom
<1> DEFINE IInv == Types /\ AskInv /\ RosterInv /\ NamesInv
<1>1. Init => IInv /\ Room!Init
  <2> SUFFICES ASSUME Init PROVE IInv /\ Room!Init
    OBVIOUS
  <2>1. IInv
    BY TypesInit, InitKeeps, RosterInit, NamesInit
  <2>2. Orderly
    BY DEF Init, Orderly
  <2>3. Members = <<>>
    <3>1. OneGap /\ currentClientCount = 0
      BY <2>1, <2>2, InOrderHasOneGap DEF RosterInv, Orderly, Init
    <3>2. Gaps = {}
      BY <3>1 DEF OneGap
    <3>3. Row(clients, file, 0, {}) = [k \in 1 .. 0 |-> Seat(clients, file, k - 1)]
      BY RowWhole DEF Whole
    <3> QED  BY <3>1, <3>2, <3>3, MembersAreRow
  <2> QED  BY <2>1, <2>2, <2>3 DEF Room!Init
<1>2. IInv /\ [Next]_vars => IInv'
  BY TypesStep, AskInvStep, RosterStep, NamesStep
<1>3. IInv /\ IInv' /\ [Next]_vars => [Room!Next]_Room!roomVars
  <2> SUFFICES ASSUME IInv, IInv', [Next]_vars PROVE [Room!Next]_Room!roomVars
    OBVIOUS
  <2> USE DEF Room!Next, Room!roomVars
  <2>0. Orderly \in BOOLEAN /\ Orderly' \in BOOLEAN
    BY DEF Orderly
  <2>1. CASE ~Orderly
    <3>1. ~Orderly'
      BY <2>1, OrderlyBefore
    <3> QED  BY <2>0, <2>1, <3>1
  <2>2. CASE Orderly /\ ~Orderly'
    BY <2>0, <2>2 DEF Room!Wreck
  <2>3. CASE Orderly /\ Orderly'
    <3>1. Members' = Members \/ \E p \in Names : Enters(p) \/ Leaves(p)
      BY <2>3, RoomMoves
    <3>2. ASSUME Members' = Members
          PROVE  [Room!Next]_Room!roomVars
      BY <2>0, <2>3, <3>2
    <3>3. ASSUME NEW p \in Names, Enters(p)
          PROVE  Room!Next
      BY <2>0, <2>3, <3>3 DEF Enters, Room!Enter, ToSet, Room!ToSet
    <3>4. ASSUME NEW p \in Names, Leaves(p)
          PROVE  Room!Next
      BY <2>0, <2>3, <3>4 DEF Leaves, Room!Leave, RemoveAt, Room!RemoveAt
    <3> QED  BY <3>1, <3>2, <3>3, <3>4
  <2> QED  BY <2>1, <2>2, <2>3
<1> QED  BY <1>1, <1>2, <1>3, PTL DEF Spec, ImplementsRoom, Room!Spec
=============================================================================
