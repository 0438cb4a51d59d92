-------------------------- MODULE DecodeRoundProofs --------------------------
(***************************************************************************)
(* What the racing threads of a round preserve, and that a round of        *)
(* 1_helper.c whose threads do not overlap uppercases the message and      *)
(* keeps its order, for every queue size, every number of threads, every   *)
(* message and every order of the threads.                                 *)
(***************************************************************************)
EXTENDS DecodeRoundSerial, CircularQueueProofs, SequenceTheorems, TLAPS

(* The unoptimised build keeps countOfEntries an int.                      *)
LEMMA WrapIsInt ==
  ASSUME NEW n \in Int32
  PROVE  Wrap(n - 1) \in Int32 /\ Wrap(n + 1) \in Int32
  BY MaxIntAssumption DEF Wrap, Int32, MinInt

(* What addToTheQueue(&tempQueue, c) leaves in tempQueue: characters of    *)
(* the same set, never more than fit.                                      *)
LEMMA AddToTempType ==
  ASSUME NEW S, NEW s \in Seq(S), Len(s) <= QueueSize, NEW c \in S
  PROVE  /\ AddToTemp(s, c) \in Seq(S)
         /\ Len(AddToTemp(s, c)) <= QueueSize
  BY QueueSizeAssumption DEF AddToTemp

(* What removing the first character of a non-empty tempQueue leaves.      *)
LEMMA TailType ==
  ASSUME NEW S, NEW s \in Seq(S), s # <<>>
  PROVE  /\ Head(s) \in S
         /\ Tail(s) \in Seq(S)
         /\ Len(Tail(s)) = Len(s) - 1
  BY HeadTailProperties

(* The switch of serverDecoder turns characters into characters.           *)
LEMMA UppercaseType ==
  ASSUME NEW t, NEW c \in Byte
  PROVE  Uppercase(t, c) \in Byte
  BY NulAssumption, LettersAssumption DEF Uppercase

(* Where a thread goes when it has put back all but s.                     *)
LEMMA PutBackLabel ==
  ASSUME NEW s
  PROVE  /\ PutBackFrom(s) \in {"exit", "full?"}
         /\ PutBackFrom(s) = "full?" => s # <<>>
  BY DEF PutBackFrom

-----------------------------------------------------------------------------
(* TypeOK: no interleaving takes an index out of the values array.         *)
THEOREM RoundTypeOK == Spec => []TypeOK
<1>1. Init => TypeOK
  <2> SUFFICES ASSUME Init PROVE TypeOK
    OBVIOUS
  <2>1. /\ head \in Slot /\ tail \in Slot
        /\ countOfEntries \in Int32 /\ 0 \in Int32
        /\ created \in 0 .. MAX_THREADS
    BY QueueSizeAssumption, ThreadsAssumption, MaxIntAssumption
       DEF Init, Slot, Int32, MinInt
  <2>2. chunk \in [Slot -> Byte] /\ values \in [Slot -> Byte]
    BY ChunkAssumption DEF Init
  <2>3. ch \in [Threads -> Byte]
    BY NulAssumption, LettersAssumption DEF Init
  <2>4. /\ tempQueue \in [Threads -> Seq(Byte)]
        /\ \A t \in Threads : Len(tempQueue[t]) <= QueueSize
    BY QueueSizeAssumption DEF Init
  <2>5. /\ pc \in [Threads -> Label]
        /\ \A t \in Threads : pc[t] = "start"
        /\ reg \in [Threads -> Int32]
    BY <2>1 DEF Init, Label
  <2> QED
    BY <2>1, <2>2, <2>3, <2>4, <2>5 DEF Init, TypeOK, IndexLabel
<1>2. TypeOK /\ [Next]_vars => TypeOK'
  <2> SUFFICES ASSUME TypeOK, [Next]_vars
               PROVE  TypeOK'
    OBVIOUS
  <2> USE DEF TypeOK, Label, IndexLabel, queue, local, Goto
  <2>0. 0 \in Int32 /\ Slot \subseteq Int32
    BY QueueSizeAssumption, MaxIntAssumption DEF Slot, Int32, MinInt
  <2>1. CASE Create
    BY <2>1, ThreadsAssumption DEF Create
  <2>2. ASSUME NEW t \in Threads, serverDecoder(t)
        PROVE  TypeOK'
    <3> USE <2>0
    <3>0. UNCHANGED <<chunk, created>>
      BY <2>2 DEF serverDecoder
    <3>1. CASE While(t)
      BY <3>0, <3>1, PutBackLabel DEF While
    <3>2. CASE RemoveTest(t)
      <4>1. Nul \in Byte
        BY NulAssumption, LettersAssumption
      <4>2. /\ AddToTemp(tempQueue[t], Uppercase(t, Nul)) \in Seq(Byte)
            /\ Len(AddToTemp(tempQueue[t], Uppercase(t, Nul))) <= QueueSize
        BY <4>1, UppercaseType, AddToTempType
      <4> QED  BY <3>0, <3>2, <4>2 DEF RemoveTest
    <3>3. CASE LoadFrontIndex(t)
      BY <3>0, <3>3 DEF LoadFrontIndex, Load
    <3>4. CASE TakeValue(t)
      BY <3>0, <3>4 DEF TakeValue
    <3>5. CASE LoadHead(t)
      BY <3>0, <3>5 DEF LoadHead, Load
    <3>6. CASE StoreHead(t)
      BY <3>0, <3>6, NextSlotIsSlot DEF StoreHead
    <3>7. CASE LoadCountDown(t)
      BY <3>0, <3>7 DEF LoadCountDown, Load
    <3>8. CASE StoreCountDown(t)
      <4>1. Wrap(reg[t] - 1) \in Int32
        <5>1. reg[t] \in Int32
          OBVIOUS
        <5> QED  BY <5>1, WrapIsInt
      <4>2. /\ AddToTemp(tempQueue[t], Uppercase(t, ch[t])) \in Seq(Byte)
            /\ Len(AddToTemp(tempQueue[t], Uppercase(t, ch[t]))) <= QueueSize
        BY UppercaseType, AddToTempType
      <4>3. Nul \in Byte
        BY NulAssumption, LettersAssumption
      <4> QED  BY <3>0, <3>8, <4>1, <4>2, <4>3 DEF StoreCountDown
    <3>9. CASE AddTest(t)
      <4>1. /\ Head(tempQueue[t]) \in Byte
            /\ Tail(tempQueue[t]) \in Seq(Byte)
            /\ Len(Tail(tempQueue[t])) <= QueueSize
        BY <3>9, TailType, QueueSizeAssumption DEF AddTest
      <4> QED  BY <3>0, <3>9, <4>1, PutBackLabel DEF AddTest
    <3>10. CASE LoadBackIndex(t)
      BY <3>0, <3>10 DEF LoadBackIndex, Load
    <3>11. CASE PutValue(t)
      <4>1. Nul \in Byte
        BY NulAssumption, LettersAssumption
      <4> QED  BY <3>0, <3>11, <4>1 DEF PutValue
    <3>12. CASE LoadCountUp(t)
      BY <3>0, <3>12 DEF LoadCountUp, Load
    <3>13. CASE StoreCountUp(t)
      <4>1. Wrap(reg[t] + 1) \in Int32
        <5>1. reg[t] \in Int32
          OBVIOUS
        <5> QED  BY <5>1, WrapIsInt
      <4> QED  BY <3>0, <3>13, <4>1 DEF StoreCountUp
    <3>14. CASE LoadTail(t)
      BY <3>0, <3>14 DEF LoadTail, Load
    <3>15. CASE StoreTail(t)
      BY <3>0, <3>15, NextSlotIsSlot, PutBackLabel DEF StoreTail
    <3> QED
      BY <2>2, <3>1, <3>2, <3>3, <3>4, <3>5, <3>6, <3>7, <3>8, <3>9, <3>10,
         <3>11, <3>12, <3>13, <3>14, <3>15 DEF serverDecoder
  <2>3. CASE UNCHANGED vars
    BY <2>3 DEF vars
  <2> QED  BY <2>1, <2>2, <2>3 DEF Next
<1> QED  BY <1>1, <1>2, PTL DEF Spec

-----------------------------------------------------------------------------
(* The switch of serverDecoder maps permitted characters to permitted      *)
(* characters: '\0' and uppercase vowels are nobody's lowercase vowel, and *)
(* a vowel has one thread only.                                            *)
LEMMA UppercasePermitted ==
  ASSUME NEW t \in Threads, NEW c \in Permitted(chunk)
  PROVE  Uppercase(t, c) \in Permitted(chunk)
<1>1. \A u, v \in 1 .. 5 : /\ Lower[u] = Lower[v] => u = v
                          /\ Lower[u] # Upper[v]
                          /\ Lower[u] # Nul
  BY LettersAssumption DEF Lower, Upper
<1>2. ASSUME NEW d, t \in 1 .. 5, d = Lower[t]
      PROVE  UppercaseAll(d) = Upper[t]
  <2>1. (CHOOSE u \in 1 .. 5 : d = Lower[u]) = t
    BY <1>1, <1>2
  <2> QED  BY <1>2, <2>1 DEF UppercaseAll, UppercaseBy
<1>3. CASE ~(t \in 1 .. 5 /\ c = Lower[t])
  BY <1>3 DEF Uppercase
<1>4. CASE t \in 1 .. 5 /\ c = Lower[t]
  <2>1. Uppercase(t, c) = UppercaseAll(c)
    BY <1>2, <1>4 DEF Uppercase
  <2>2. c # Nul
    BY <1>1, <1>4
  <2>3. ASSUME NEW i \in Slot, c = UppercaseAll(chunk[i])
        PROVE  c = chunk[i]
    <3>1. CASE \E u \in Threads : u \in 1 .. 5 /\ chunk[i] = Lower[u]
      <4>1. (CHOOSE u \in 1 .. 5 : chunk[i] = Lower[u]) \in 1 .. 5
        BY <3>1
      <4>2. c \in {Upper[v] : v \in 1 .. 5}
        BY <2>3, <3>1, <4>1 DEF UppercaseAll, UppercaseBy
      <4> QED  BY <1>1, <1>4, <4>2
    <3>2. CASE ~ \E u \in Threads : u \in 1 .. 5 /\ chunk[i] = Lower[u]
      BY <2>3, <3>2 DEF UppercaseAll, UppercaseBy
    <3> QED  BY <3>1, <3>2
  <2>4. \E i \in Slot : c = chunk[i]
    BY <2>2, <2>3 DEF Permitted
  <2> QED  BY <2>1, <2>4 DEF Permitted
<1> QED  BY <1>3, <1>4

(* The race makes no character up: NothingInvented holds of every          *)
(* interleaving.                                                           *)
THEOREM RoundInventsNothing == Spec => []NothingInvented
<1>1. Init => NothingInvented
  <2> SUFFICES ASSUME Init PROVE NothingInvented
    OBVIOUS
  <2>1. chunk \in [Slot -> Byte]
    BY ChunkAssumption DEF Init
  <2>2. values \in [Slot -> Permitted(chunk)]
    BY <2>1 DEF Init, Permitted
  <2>3. ch \in [Threads -> Permitted(chunk)] /\ tempQueue \in [Threads -> Seq(Permitted(chunk))]
    BY DEF Init, Permitted
  <2> QED  BY <2>2, <2>3 DEF NothingInvented
<1>2. TypeOK /\ NothingInvented /\ [Next]_vars => NothingInvented'
  <2> SUFFICES ASSUME TypeOK, NothingInvented, [Next]_vars
               PROVE  NothingInvented'
    OBVIOUS
  <2> USE DEF NothingInvented, queue, local
  <2>0. Nul \in Permitted(chunk)
    BY DEF Permitted
  <2>1. CASE Create
    BY <2>1 DEF Create, Permitted, UppercaseAll, UppercaseBy
  <2>2. ASSUME NEW t \in Threads, serverDecoder(t)
        PROVE  NothingInvented'
    <3>0. Permitted(chunk)' = Permitted(chunk)
      BY <2>2 DEF serverDecoder, Permitted, UppercaseAll, UppercaseBy
    <3>1. CASE \/ While(t) \/ LoadFrontIndex(t) \/ LoadHead(t) \/ StoreHead(t)
               \/ LoadCountDown(t) \/ LoadBackIndex(t) \/ LoadCountUp(t)
               \/ StoreCountUp(t) \/ LoadTail(t) \/ StoreTail(t)
      <4>1. UNCHANGED <<values, ch, tempQueue>>
        BY <3>1 DEF While, LoadFrontIndex, LoadHead, StoreHead, LoadCountDown,
                    LoadBackIndex, LoadCountUp, StoreCountUp, LoadTail,
                    StoreTail, Load
      <4> QED  BY <3>0, <4>1
    <3>2. CASE RemoveTest(t)
      <4>1. AddToTemp(tempQueue[t], Uppercase(t, Nul)) \in Seq(Permitted(chunk))
        BY <2>0, UppercasePermitted, AddToTempType DEF TypeOK
      <4> QED  BY <3>0, <3>2, <4>1 DEF RemoveTest
    <3>3. CASE TakeValue(t)
      <4>1. values[reg[t]] \in Permitted(chunk)
        BY <3>3 DEF TakeValue, TypeOK, IndexLabel
      <4> QED  BY <3>0, <3>3, <4>1 DEF TakeValue
    <3>4. CASE StoreCountDown(t)
      <4>1. AddToTemp(tempQueue[t], Uppercase(t, ch[t])) \in Seq(Permitted(chunk))
        BY UppercasePermitted, AddToTempType DEF TypeOK
      <4> QED  BY <2>0, <3>0, <3>4, <4>1 DEF StoreCountDown
    <3>5. CASE AddTest(t)
      <4>1. /\ Head(tempQueue[t]) \in Permitted(chunk)
            /\ Tail(tempQueue[t]) \in Seq(Permitted(chunk))
        BY <3>5, TailType DEF AddTest, TypeOK
      <4> QED  BY <3>0, <3>5, <4>1 DEF AddTest
    <3>6. CASE PutValue(t)
      BY <2>0, <3>0, <3>6 DEF PutValue
    <3> QED
      BY <2>2, <3>1, <3>2, <3>3, <3>4, <3>5, <3>6 DEF serverDecoder
  <2>3. CASE UNCHANGED vars
    BY <2>3 DEF vars, Permitted, UppercaseAll, UppercaseBy
  <2> QED  BY <2>1, <2>2, <2>3 DEF Next
<1> QED  BY <1>1, <1>2, RoundTypeOK, PTL DEF Spec

(* OwnVowelGone: a thread's tempQueue, and what it writes back, are free   *)
(* of the vowel it replaces.                                               *)
THEOREM RoundOwnVowelGone == Spec => []OwnVowelGone
<1> DEFINE Clean(t) == Byte \ {Lower[t]}
<1>0. ASSUME NEW t \in 1 .. 5, NEW c \in Byte
      PROVE  Uppercase(t, c) \in Clean(t)
  <2>1. Upper[t] # Lower[t] /\ Upper[t] \in Byte
    BY NulAssumption, LettersAssumption DEF Lower, Upper
  <2> QED  BY <2>1 DEF Uppercase
<1>1. Init => OwnVowelGone
  BY DEF Init, OwnVowelGone
<1>2. TypeOK /\ OwnVowelGone /\ [Next]_vars => OwnVowelGone'
  <2> SUFFICES ASSUME TypeOK, OwnVowelGone, [Next]_vars,
                      NEW t \in Threads \cap (1 .. 5)
               PROVE  /\ tempQueue'[t] \in Seq(Clean(t))
                      /\ pc'[t] \in {"back", "put"} => ch'[t] # Lower[t]
    BY DEF OwnVowelGone
  <2>0. /\ tempQueue[t] \in Seq(Clean(t))
        /\ pc[t] \in {"back", "put"} => ch[t] # Lower[t]
        /\ t \in Threads /\ t \in 1 .. 5
    BY DEF OwnVowelGone
  <2> USE DEF TypeOK, queue, local, Goto
  <2>1. CASE UNCHANGED <<pc, ch, tempQueue>>
    BY <2>0, <2>1
  <2>2. ASSUME NEW u \in Threads, serverDecoder(u), u # t
        PROVE  UNCHANGED <<pc[t], ch[t], tempQueue[t]>>
    BY <2>2 DEF serverDecoder, While, RemoveTest, LoadFrontIndex, TakeValue,
                LoadHead, StoreHead, LoadCountDown, StoreCountDown, AddTest,
                LoadBackIndex, PutValue, LoadCountUp, StoreCountUp, LoadTail,
                StoreTail, Load
  <2>3. CASE serverDecoder(t)
    <3>1. CASE \/ While(t) \/ LoadFrontIndex(t) \/ LoadHead(t) \/ StoreHead(t)
               \/ LoadCountDown(t) \/ LoadCountUp(t) \/ StoreCountUp(t)
               \/ LoadTail(t) \/ StoreTail(t) \/ TakeValue(t) \/ PutValue(t)
      <4>1. UNCHANGED tempQueue /\ pc'[t] \notin {"back", "put"}
        BY <2>0, <3>1 DEF While, LoadFrontIndex, LoadHead, StoreHead, LoadCountDown,
                    LoadCountUp, StoreCountUp, LoadTail, StoreTail,
                    TakeValue, PutValue, Load, PutBackFrom
      <4> QED  BY <2>0, <4>1
    <3>2. CASE RemoveTest(t)
      <4>1. AddToTemp(tempQueue[t], Uppercase(t, Nul)) \in Seq(Clean(t))
        BY <1>0, <2>0, AddToTempType, NulAssumption, LettersAssumption
      <4> QED  BY <2>0, <3>2, <4>1 DEF RemoveTest
    <3>3. CASE StoreCountDown(t)
      <4>1. AddToTemp(tempQueue[t], Uppercase(t, ch[t])) \in Seq(Clean(t))
        BY <1>0, <2>0, AddToTempType
      <4> QED  BY <2>0, <3>3, <4>1 DEF StoreCountDown
    <3>4. CASE AddTest(t)
      <4>1. /\ Head(tempQueue[t]) \in Clean(t)
            /\ Tail(tempQueue[t]) \in Seq(Clean(t))
        BY <2>0, <3>4, TailType DEF AddTest
      <4> QED  BY <2>0, <3>4, <4>1 DEF AddTest, PutBackFrom
    <3>5. CASE LoadBackIndex(t)
      BY <2>0, <3>5 DEF LoadBackIndex, Load
    <3> QED  BY <2>3, <3>1, <3>2, <3>3, <3>4, <3>5 DEF serverDecoder
  <2> QED  BY <2>0, <2>1, <2>2, <2>3 DEF Next, Create, vars
<1> QED  BY <1>1, <1>2, RoundTypeOK, PTL DEF Spec
-----------------------------------------------------------------------------
(* Rounds whose threads do not overlap.                                    *)


(* Positions counted from a slot: they stay in the array, a whole turn     *)
(* leads back, and NextSlot goes from one to the next.                     *)
LEMMA AtFacts ==
  ASSUME NEW i \in Slot
  PROVE  /\ At(i, 0) = i
         /\ At(i, QueueSize) = i
         /\ \A k \in Slot : /\ At(i, k) \in Slot
                            /\ NextSlot(At(i, k)) = At(i, k + 1)
                            /\ \A l \in Slot : l # k => At(i, l) # At(i, k)
<1> USE QueueSizeAssumption
<1>1. At(i, 0) = i
  BY DEF At, Slot
<1>2. At(i, QueueSize) = i
  BY OneTurn DEF At, Slot
<1>3. ASSUME NEW k \in Slot
      PROVE  /\ At(i, k) \in Slot
             /\ NextSlot(At(i, k)) = At(i, k + 1)
             /\ \A l \in Slot : l # k => At(i, l) # At(i, k)
  <2>1. k \in 0 .. QueueSize - 1
    BY DEF Slot
  <2>2. At(i, k) \in Slot
    BY DEF At, Slot
  <2>3. NextSlot(At(i, k)) = At(i, k + 1)
    BY <2>1, ShiftByOne DEF At
  <2>4. ASSUME NEW l \in Slot, l # k
        PROVE  At(i, l) # At(i, k)
    <3>1. l \in 0 .. QueueSize - 1
      BY DEF Slot
    <3> QED  BY <2>1, <2>4, <3>1, DistinctOffsets DEF At
  <2> QED  BY <2>2, <2>3, <2>4
<1> QED  BY <1>1, <1>2, <1>3

(* What the threads of S and t make of a character is what t makes of it   *)
(* after those of S: the cases of the switch do not interfere.             *)
LEMMA OneThreadMore ==
  ASSUME NEW S, NEW t \in Threads, NEW c
  PROVE  UppercaseBy(S \cup {t}, c) = Uppercase(t, UppercaseBy(S, c))
<1>1. \A u, v \in 1 .. 5 : /\ Lower[u] = Lower[v] => u = v
                          /\ Lower[u] # Upper[v]
  BY DEF Lower, Upper
<1>2. ASSUME NEW u \in 1 .. 5, c = Lower[u]
      PROVE  (CHOOSE v \in 1 .. 5 : c = Lower[v]) = u
  BY <1>1, <1>2
<1>3. CASE t \in 1 .. 5 /\ c = Lower[t]
  <2>1. UppercaseBy(S \cup {t}, c) = Upper[t]
    BY <1>2, <1>3 DEF UppercaseBy
  <2>2. UppercaseBy(S, c) = Upper[t] \/ UppercaseBy(S, c) = c
    BY <1>2, <1>3 DEF UppercaseBy
  <2>3. Uppercase(t, Upper[t]) = Upper[t] /\ Uppercase(t, c) = Upper[t]
    BY <1>1, <1>3 DEF Uppercase
  <2> QED  BY <2>1, <2>2, <2>3
<1>4. CASE ~(t \in 1 .. 5 /\ c = Lower[t])
  <2>1. UppercaseBy(S \cup {t}, c) = UppercaseBy(S, c)
    BY <1>4 DEF UppercaseBy
  <2>2. CASE \E u \in S : u \in 1 .. 5 /\ c = Lower[u]
    <3>1. PICK u \in 1 .. 5 : u \in S /\ c = Lower[u]
      BY <2>2
    <3>2. UppercaseBy(S, c) = Upper[u]
      BY <1>2, <3>1 DEF UppercaseBy
    <3>3. Uppercase(t, Upper[u]) = Upper[u]
      BY <1>1 DEF Uppercase
    <3> QED  BY <2>1, <3>2, <3>3
  <2>3. CASE ~ \E u \in S : u \in 1 .. 5 /\ c = Lower[u]
    <3>1. UppercaseBy(S, c) = c
      BY <2>3 DEF UppercaseBy
    <3> QED  BY <1>4, <2>1, <3>1 DEF Uppercase
  <2> QED  BY <2>2, <2>3
<1> QED  BY <1>3, <1>4

-----------------------------------------------------------------------------
(* The steps of the one thread at work.                                    *)

(* A step that leaves t at work finishes nobody.                           *)
LEMMA MessageKept ==
  ASSUME TypeOK, NEW t \in Threads, NEW label, pc[t] # "exit", label # "exit",
         pc' = [pc EXCEPT ![t] = label], chunk' = chunk
  PROVE  Before' = Before /\ After(t)' = After(t)
<1>1. Finished' = Finished
  BY DEF TypeOK, Finished
<1> QED  BY <1>1 DEF Before, After

(* Every step of a draining thread keeps it draining, or turns it round to *)
(* put everything back.                                                    *)
LEMMA DrainingStep ==
  ASSUME TypeOK, NEW t \in Threads, Draining(t), serverDecoder(t)
  PROVE  Draining(t)' \/ PuttingBack(t)'
<1> DEFINE n == Len(tempQueue[t])
<1> USE DEF queue, local, Goto
<1>0. /\ QueueSize \in Nat \ {0}
      /\ chunk' = chunk
      /\ head \in Slot /\ tail \in Slot
      /\ n \in 0 .. QueueSize
      /\ tempQueue[t] \in Seq(Byte)
      /\ tempQueue \in [Threads -> Seq(Byte)]
      /\ pc \in [Threads -> Label] /\ reg \in [Threads -> Int32]
      /\ ch \in [Threads -> Byte]
      /\ values \in [Slot -> Byte]
  BY QueueSizeAssumption DEF TypeOK, serverDecoder
<1>1. CASE While(t)
  <2>1. CASE countOfEntries # 0
    <3>1. Before' = Before /\ After(t)' = After(t)
      BY <1>0, <1>1, <2>1, MessageKept DEF While, Draining
    <3>2. Draining(t)'
      BY <1>0, <1>1, <2>1, <3>1 DEF While, Draining
    <3> QED  BY <3>2
  <2>2. CASE countOfEntries = 0
    <3>1. n = QueueSize /\ tempQueue[t] # <<>>
      BY <1>0, <2>2, QueueSizeAssumption DEF Draining
    <3>2. pc' = [pc EXCEPT ![t] = "full?"]
      BY <1>1, <2>2, <3>1 DEF While, PutBackFrom
    <3>3. Before' = Before /\ After(t)' = After(t)
      BY <1>0, <1>1, <3>2, MessageKept DEF While, Draining
    <3>4. tail = At(head, 0) /\ 0 \in Slot
      <4>1. pc[t] = "while"
        BY <1>0, <1>1 DEF While, Draining
      <4>2. head = At(tail, QueueSize)
        BY <3>1, <4>1 DEF Draining
      <4> QED  BY <1>0, <4>2, AtFacts DEF Slot
    <3>5. \A k \in 1 .. QueueSize : tempQueue[t][k] = After(t)[k - 1]
      BY <3>1 DEF Draining
    <3>6. /\ UNCHANGED <<head, tail, countOfEntries, tempQueue>>
          /\ pc'[t] = "full?"
      BY <1>0, <1>1, <3>2 DEF While
    <3>7. PuttingBack(t)'
      <4> HIDE DEF n
      <4>1. Len(tempQueue'[t]) = QueueSize
        BY <3>1, <3>6 DEF n
      <4>2. QueueSize - QueueSize - 0 = 0
        BY <1>0
      <4>3. \A k \in Slot : ~ (k < 0)
        BY <1>0 DEF Slot
      <4>4. \A k \in 1 .. QueueSize : tempQueue'[t][k] = After(t)'[0 + 0 + k - 1]
        BY <3>3, <3>5, <3>6
      <4> QED  BY <2>2, <3>4, <3>6, <4>1, <4>2, <4>3, <4>4 DEF PuttingBack
    <3> QED  BY <3>7
  <2> QED  BY <2>1, <2>2
<1>2. CASE RemoveTest(t)
  <2>1. /\ countOfEntries # 0
        /\ pc[t] = "empty?"
    BY <1>0, <1>2 DEF RemoveTest, Draining
  <2>2. Before' = Before /\ After(t)' = After(t)
    BY <1>0, <1>2, <2>1, MessageKept DEF RemoveTest
  <2>3. Draining(t)'
    BY <1>0, <1>2, <2>1, <2>2 DEF RemoveTest, Draining
  <2> QED  BY <2>3
<1>3. CASE LoadFrontIndex(t) \/ LoadHead(t) \/ LoadCountDown(t)
  <2>1. Before' = Before /\ After(t)' = After(t)
    BY <1>0, <1>3, MessageKept DEF LoadFrontIndex, LoadHead, LoadCountDown, Load
  <2>2. Draining(t)'
    BY <1>0, <1>3, <2>1
       DEF LoadFrontIndex, LoadHead, LoadCountDown, Load, Draining
  <2> QED  BY <2>2
<1>4. CASE TakeValue(t)
  <2>1. Before' = Before /\ After(t)' = After(t)
    BY <1>0, <1>4, MessageKept DEF TakeValue
  <2>2. n \in Slot /\ reg[t] = At(tail, n) /\ values[At(tail, n)] = Before[n]
    BY <1>0, <1>4 DEF TakeValue, Draining, Slot
  <2>3. Draining(t)'
    BY <1>0, <1>4, <2>1, <2>2 DEF TakeValue, Draining
  <2> QED  BY <2>3
<1>5. CASE StoreHead(t)
  <2>1. Before' = Before /\ After(t)' = After(t)
    BY <1>0, <1>5, MessageKept DEF StoreHead
  <2>2. NextSlot(reg[t]) = At(tail, n + 1)
    <3>1. n \in Slot /\ reg[t] = At(tail, n)
      BY <1>0, <1>5 DEF StoreHead, Draining, Slot
    <3> QED  BY <1>0, <3>1, AtFacts
  <2>3. Draining(t)'
    BY <1>0, <1>5, <2>1, <2>2 DEF StoreHead, Draining
  <2> QED  BY <2>3
<1>6. CASE StoreCountDown(t)
  <2>1. Before' = Before /\ After(t)' = After(t)
    BY <1>0, <1>6, MessageKept DEF StoreCountDown
  <2>2. /\ pc[t] = "count-'" /\ n \in Slot /\ ch[t] = Before[n]
        /\ reg[t] = QueueSize - n
    BY <1>0, <1>6 DEF StoreCountDown, Draining, Slot
  <2>3. Wrap(reg[t] - 1) = QueueSize - (n + 1)
    BY <1>0, <2>2, MaxIntAssumption DEF Wrap, MinInt, Slot
  <2>4. Uppercase(t, ch[t]) = After(t)[n]
    BY <2>2, OneThreadMore DEF Before, After
  <2>5. /\ tempQueue'[t] = Append(tempQueue[t], After(t)[n])
        /\ Len(tempQueue'[t]) = n + 1
        /\ \A k \in 1 .. n : tempQueue'[t][k] = tempQueue[t][k]
        /\ tempQueue'[t][n + 1] = After(t)[n]
    <3>1. tempQueue'[t] = Append(tempQueue[t], After(t)[n])
      BY <1>0, <1>6, <2>2, <2>4 DEF StoreCountDown, AddToTemp, Slot
    <3> QED  BY <1>0, <3>1
  <2>6. \A k \in 1 .. n + 1 : tempQueue'[t][k] = After(t)[k - 1]
    BY <1>0, <2>2, <2>5 DEF Draining
  <2>7. Draining(t)'
    BY <1>0, <1>6, <2>1, <2>2, <2>3, <2>5, <2>6 DEF StoreCountDown, Draining
  <2> QED  BY <2>7
<1>7. CASE \/ AddTest(t) \/ LoadBackIndex(t) \/ PutValue(t) \/ LoadCountUp(t)
           \/ StoreCountUp(t) \/ LoadTail(t) \/ StoreTail(t)
  BY <1>7 DEF Draining, AddTest, LoadBackIndex, PutValue, LoadCountUp,
              StoreCountUp, LoadTail, StoreTail, Load
<1> QED
  BY <1>1, <1>2, <1>3, <1>4, <1>5, <1>6, <1>7 DEF serverDecoder

(* Every step of a thread putting back keeps it so, or is its last and     *)
(* leaves the whole message in the queue.                                  *)
LEMMA PuttingBackStep ==
  ASSUME TypeOK, NEW t \in Threads, PuttingBack(t), serverDecoder(t)
  PROVE  \/ PuttingBack(t)'
         \/ Resting' /\ pc'[t] = "exit"
<1> DEFINE held == IF pc[t] = "full?" THEN 0 ELSE 1
           n    == Len(tempQueue[t])
           p    == QueueSize - n - held
<1> USE DEF queue, local, Goto
<1>0. /\ QueueSize \in Nat \ {0}
      /\ chunk' = chunk
      /\ head \in Slot /\ tail \in Slot
      /\ n \in 0 .. QueueSize
      /\ p \in Slot
      /\ tempQueue[t] \in Seq(Byte)
      /\ tempQueue \in [Threads -> Seq(Byte)]
      /\ pc \in [Threads -> Label] /\ reg \in [Threads -> Int32]
      /\ ch \in [Threads -> Byte]
      /\ values \in [Slot -> Byte]
  BY QueueSizeAssumption DEF TypeOK, serverDecoder, PuttingBack
<1>1. CASE AddTest(t)
  <2>1. /\ pc[t] = "full?" /\ countOfEntries = p /\ p = QueueSize - n
        /\ countOfEntries # QueueSize /\ tempQueue[t] # <<>>
    BY <1>0, <1>1 DEF AddTest, PuttingBack, Slot, TypeOK
  <2>2. Before' = Before /\ After(t)' = After(t)
    BY <1>0, <1>1, <2>1, MessageKept DEF AddTest
  <2>3. /\ tempQueue'[t] = Tail(tempQueue[t])
        /\ Len(tempQueue'[t]) = n - 1
        /\ \A k \in 1 .. n - 1 : tempQueue'[t][k] = tempQueue[t][k + 1]
        /\ Head(tempQueue[t]) = tempQueue[t][1]
        /\ n \in 1 .. QueueSize
    <3>1. tempQueue'[t] = Tail(tempQueue[t])
      BY <1>0, <1>1 DEF AddTest
    <3> QED  BY <1>0, <2>1, <3>1
  <2>4. \A k \in 1 .. n : tempQueue[t][k] = After(t)[p + k - 1]
    BY <1>0, <2>1 DEF PuttingBack
  <2>5. ch'[t] = After(t)[p] /\ pc'[t] = "back"
    <3>1. ch'[t] = tempQueue[t][1]
      BY <1>0, <1>1, <2>1, <2>3 DEF AddTest
    <3>2. tempQueue[t][1] = After(t)[p + 1 - 1]
      BY <2>3, <2>4
    <3>3. p + 1 - 1 = p
      BY <1>0, <2>1
    <3> QED  BY <1>0, <1>1, <2>1, <3>1, <3>2, <3>3 DEF AddTest
  <2>6. \A k \in 1 .. n - 1 : tempQueue'[t][k] = After(t)[p + 1 + k - 1]
    <3> TAKE k \in 1 .. n - 1
    <3>1. k + 1 \in 1 .. n /\ p + (k + 1) - 1 = p + 1 + k - 1
      BY <1>0, <2>1
    <3> QED  BY <2>3, <2>4, <3>1
  <2>7. PuttingBack(t)'
    <3>1. QueueSize - Len(tempQueue'[t]) - 1 = p
      BY <1>0, <2>1, <2>3
    <3>2. UNCHANGED <<head, tail, countOfEntries, values>>
      BY <1>1 DEF AddTest
    <3>3. /\ tail = At(head, p)
          /\ \A k \in Slot : k < p => values[At(head, k)] = After(t)[k]
      BY <2>1 DEF PuttingBack
    <3> HIDE DEF p, n
    <3> QED  BY <1>0, <2>1, <2>2, <2>3, <2>5, <2>6, <3>1, <3>2, <3>3 DEF PuttingBack
  <2> QED  BY <2>7
<1>2. CASE LoadBackIndex(t) \/ LoadCountUp(t) \/ LoadTail(t)
  <2>1. Before' = Before /\ After(t)' = After(t)
    BY <1>0, <1>2, MessageKept DEF LoadBackIndex, LoadCountUp, LoadTail, Load
  <2>2. PuttingBack(t)'
    BY <1>0, <1>2, <2>1 DEF LoadBackIndex, LoadCountUp, LoadTail, Load, PuttingBack
  <2> QED  BY <2>2
<1>3. CASE PutValue(t)
  <2>1. Before' = Before /\ After(t)' = After(t)
    BY <1>0, <1>3, MessageKept DEF PutValue
  <2>2. /\ reg[t] = At(head, p) /\ ch[t] = After(t)[p]
        /\ values' = [values EXCEPT ![At(head, p)] = After(t)[p]]
        /\ \A k \in Slot : k < p => values[At(head, k)] = After(t)[k]
    BY <1>0, <1>3 DEF PutValue, PuttingBack
  <2>3. \A k \in Slot : k < p + 1 => values'[At(head, k)] = After(t)[k]
    <3> TAKE k \in Slot
    <3>1. At(head, k) \in Slot /\ (k # p => At(head, k) # At(head, p))
      BY <1>0, AtFacts
    <3>2. CASE k = p
      BY <1>0, <2>2, <3>1, <3>2
    <3>3. CASE k # p
      <4>1. k < p + 1 => k < p
        <5> HIDE DEF p
        <5> QED  BY <1>0, <3>3 DEF Slot
      <4> QED  BY <1>0, <2>2, <3>1, <3>3, <4>1
    <3> QED  BY <3>2, <3>3
  <2>4. PuttingBack(t)'
    BY <1>0, <1>3, <2>1, <2>3 DEF PutValue, PuttingBack
  <2> QED  BY <2>4
<1>4. CASE StoreCountUp(t)
  <2>1. Before' = Before /\ After(t)' = After(t)
    BY <1>0, <1>4, MessageKept DEF StoreCountUp
  <2>2. Wrap(reg[t] + 1) = p + 1
    BY <1>0, <1>4, MaxIntAssumption DEF StoreCountUp, PuttingBack, Wrap, MinInt, Slot
  <2>3. PuttingBack(t)'
    BY <1>0, <1>4, <2>1, <2>2 DEF StoreCountUp, PuttingBack
  <2> QED  BY <2>3
<1>5. CASE StoreTail(t)
  <2>1. NextSlot(reg[t]) = At(head, p + 1)
    BY <1>0, <1>5, AtFacts DEF StoreTail, PuttingBack
  <2>2. /\ pc[t] = "tail'" /\ p = QueueSize - n - 1
        /\ tail' = At(head, p + 1)
        /\ countOfEntries = p + 1
        /\ UNCHANGED <<head, countOfEntries, values, tempQueue>>
        /\ \A k \in Slot : k < p + 1 => values[At(head, k)] = After(t)[k]
        /\ \A k \in 1 .. n : tempQueue[t][k] = After(t)[p + 1 + k - 1]
    BY <1>5, <2>1 DEF StoreTail, PuttingBack
  <2>3. CASE tempQueue[t] # <<>>
    <3>1. pc' = [pc EXCEPT ![t] = "full?"] /\ pc'[t] = "full?"
      BY <1>0, <1>5, <2>3 DEF StoreTail, PutBackFrom
    <3>2. Before' = Before /\ After(t)' = After(t)
      BY <1>0, <2>2, <3>1, MessageKept
    <3>3. n \in 1 .. QueueSize
      BY <1>0, <2>3
    <3>4. QueueSize - Len(tempQueue'[t]) - 0 = p + 1 /\ p + 1 \in Slot
      BY <1>0, <2>2, <3>3 DEF Slot
    <3>5. \A k \in 1 .. n : p + 1 + k - 1 = p + 1 + 0 + k - 1
      BY <1>0
    <3>6. PuttingBack(t)'
      <4> HIDE DEF p, held
      <4> QED  BY <1>0, <2>2, <3>1, <3>2, <3>4, <3>5 DEF PuttingBack
    <3> QED  BY <3>6
  <2>4. CASE tempQueue[t] = <<>>
    <3>1. pc' = [pc EXCEPT ![t] = "exit"] /\ pc'[t] = "exit"
      BY <1>0, <1>5, <2>4 DEF StoreTail, PutBackFrom
    <3>2. Before' = After(t)
      <4>1. Finished' = Finished \cup {t}
        BY <1>0, <3>1 DEF Finished
      <4> QED  BY <1>0, <4>1 DEF Before, After
    <3>3. p + 1 = QueueSize
      BY <1>0, <2>2, <2>4
    <3>4. tail' = head'
      BY <1>0, <2>2, <3>3, AtFacts
    <3>5. \A k \in Slot : values'[At(head', k)] = Before'[k]
      <4>1. \A k \in Slot : k < p + 1
        BY <1>0, <3>3 DEF Slot
      <4> QED  BY <2>2, <3>2, <4>1
    <3>6. Resting'
      BY <2>2, <3>3, <3>4, <3>5 DEF Resting
    <3> QED  BY <3>1, <3>6
  <2> QED  BY <2>3, <2>4
<1>6. CASE \/ While(t) \/ RemoveTest(t) \/ LoadFrontIndex(t) \/ TakeValue(t)
           \/ LoadHead(t) \/ StoreHead(t) \/ LoadCountDown(t) \/ StoreCountDown(t)
  BY <1>6 DEF PuttingBack, While, RemoveTest, LoadFrontIndex, TakeValue,
              LoadHead, StoreHead, LoadCountDown, StoreCountDown, Load
<1> QED
  BY <1>1, <1>2, <1>3, <1>4, <1>5, <1>6 DEF serverDecoder

(* The first step of a thread that finds nobody at work: it starts to      *)
(* drain a full queue.                                                     *)
LEMMA FirstStep ==
  ASSUME TypeOK, NEW t \in Threads, Resting, While(t), chunk' = chunk,
         pc[t] = "start", tempQueue[t] = <<>>
  PROVE  Draining(t)'
<1> USE DEF queue, local, Goto
<1>1. /\ QueueSize \in Nat \ {0}
      /\ head \in Slot /\ pc \in [Threads -> Label]
  BY QueueSizeAssumption DEF TypeOK
<1>2. pc' = [pc EXCEPT ![t] = "empty?"]
  BY <1>1 DEF While, Resting
<1>3. Before' = Before
  BY <1>2, MessageKept
<1>4. head = At(tail, 0)
  BY <1>1, AtFacts DEF Resting
<1>5. /\ UNCHANGED <<head, tail, countOfEntries, values, tempQueue>>
      /\ pc'[t] = "empty?"
  BY <1>1, <1>2 DEF While
<1>6. Len(tempQueue'[t]) = 0
  BY <1>5
<1>7. head' = At(tail', 0) /\ countOfEntries' = countOfEntries
  BY <1>4, <1>5
<1>8. countOfEntries = QueueSize - 0 /\ 0 < QueueSize
  BY <1>1 DEF Resting
<1>9. \A k \in Slot : values'[At(tail', k)] = Before'[k]
  BY <1>3, <1>5 DEF Resting
<1>10. 1 .. 0 = {}
  OBVIOUS
<1> QED  BY <1>5, <1>6, <1>7, <1>8, <1>9, <1>10 DEF Draining

-----------------------------------------------------------------------------
(* A round without overlap is always in one of three states: nobody at     *)
(* work and the whole message in the queue in order, or one thread moving  *)
(* it out, or one thread moving it back in.                                *)
THEOREM RoundSerialInv == Spec => []SerialInv
<1>1. Init => SerialInv
  <2> SUFFICES ASSUME Init PROVE SerialInv
    OBVIOUS
  <2>1. \A u \in Threads : ~AtWork(u) /\ tempQueue[u] = <<>>
    BY DEF Init, AtWork
  <2>2. Finished = {}
    BY DEF Init, Finished
  <2>3. \A k \in Slot : At(0, k) = k
    BY QueueSizeAssumption, OneTurn DEF At, Slot
  <2>4. \A k \in Slot : Before[k] = chunk[k]
    BY <2>2 DEF Before, UppercaseBy
  <2>5. Resting
    BY <2>3, <2>4 DEF Init, Resting
  <2> QED  BY <2>1, <2>5 DEF SerialInv
<1>2. TypeOK /\ SerialInv /\ [Next]_vars => SerialInv'
  <2> SUFFICES ASSUME TypeOK, SerialInv, [Next]_vars
               PROVE  SerialInv'
    OBVIOUS
  <2>1. CASE UNCHANGED <<chunk, queue, local, overlapped>>
    <3>1. /\ Before' = Before /\ \A u \in Threads : After(u)' = After(u)
          /\ UNCHANGED <<queue, local, overlapped>>
      BY <2>1 DEF Before, After, Finished, local
    <3>2. \A u \in Threads : (AtWork(u))' = AtWork(u)
      BY <3>1 DEF AtWork, local
    <3>3. Resting' = Resting
      BY <3>1 DEF Resting, queue
    <3>4. ASSUME NEW u \in Threads
          PROVE  (Draining(u) => Draining(u)') /\ (PuttingBack(u) => PuttingBack(u)')
      BY <3>1 DEF Draining, PuttingBack, queue, local
    <3> QED  BY <3>1, <3>2, <3>3, <3>4 DEF SerialInv, local
  <2>2. ASSUME NEW t \in Threads, serverDecoder(t)
        PROVE  SerialInv'
    <3>1. \A u \in Threads : pc'[u] = "start" => tempQueue'[u] = <<>>
      BY <2>2 DEF SerialInv, TypeOK, serverDecoder, local, Goto, PutBackFrom,
                  While, RemoveTest, LoadFrontIndex, TakeValue, LoadHead,
                  StoreHead, LoadCountDown, StoreCountDown, AddTest,
                  LoadBackIndex, PutValue, LoadCountUp, StoreCountUp,
                  LoadTail, StoreTail, Load
    <3>2. \A u \in Threads \ {t} : pc'[u] = pc[u]
      BY <2>2 DEF TypeOK, serverDecoder, Goto,
                  While, RemoveTest, LoadFrontIndex, TakeValue, LoadHead,
                  StoreHead, LoadCountDown, StoreCountDown, AddTest,
                  LoadBackIndex, PutValue, LoadCountUp, StoreCountUp,
                  LoadTail, StoreTail, Load
    <3>3. /\ ~overlapped' => /\ ~overlapped
                             /\ pc[t] = "start" => \A u \in Threads \ {t} : ~AtWork(u)
          /\ pc[t] # "exit"
          /\ pc[t] = "start" => While(t)
          /\ chunk' = chunk
      <4>1. CASE While(t)
        BY <2>2, <4>1 DEF While, serverDecoder, TypeOK
      <4>2. CASE ~While(t)
        <5>1. /\ UNCHANGED overlapped
              /\ pc[t] \notin {"start", "exit"}
              /\ chunk' = chunk
          BY <2>2, <4>2
             DEF serverDecoder, RemoveTest, LoadFrontIndex, TakeValue, LoadHead,
                 StoreHead, LoadCountDown, StoreCountDown, AddTest,
                 LoadBackIndex, PutValue, LoadCountUp, StoreCountUp,
                 LoadTail, StoreTail, Load
        <5> QED  BY <5>1
      <4> QED  BY <4>1, <4>2
    <3>4. ASSUME ~overlapped'
          PROVE  \/ Resting' /\ \A u \in Threads : ~AtWork(u)'
                 \/ /\ Draining(t)' \/ PuttingBack(t)'
                    /\ \A u \in Threads \ {t} : ~AtWork(u)'
      <4>1. ~overlapped
        BY <3>3, <3>4
      <4>2. \A u \in Threads \ {t} : ~AtWork(u)
        <5>1. CASE pc[t] = "start"
          BY <3>3, <3>4, <5>1
        <5>2. CASE pc[t] # "start"
          BY <3>3, <4>1, <5>2 DEF SerialInv, AtWork
        <5> QED  BY <5>1, <5>2
      <4>3. \A u \in Threads \ {t} : ~AtWork(u)'
        BY <3>2, <4>2 DEF AtWork
      <4>4. CASE pc[t] = "start"
        <5>1. Resting /\ tempQueue[t] = <<>>
          <6>1. \A u \in Threads : ~AtWork(u)
            BY <4>2, <4>4 DEF AtWork
          <6> QED  BY <4>1, <4>4, <6>1 DEF SerialInv, Draining, PuttingBack, AtWork
        <5>2. Draining(t)'
          BY <3>3, <4>4, <5>1, FirstStep
        <5> QED  BY <4>3, <5>2
      <4>5. CASE pc[t] # "start"
        <5>1. AtWork(t)
          BY <3>3, <4>5 DEF AtWork
        <5>2. Draining(t) \/ PuttingBack(t)
          BY <4>1, <4>2, <5>1 DEF SerialInv
        <5>3. CASE Draining(t)
          BY <2>2, <4>3, <5>3, DrainingStep
        <5>4. CASE PuttingBack(t)
          <6>1. CASE PuttingBack(t)'
            BY <4>3, <6>1
          <6>2. CASE Resting' /\ pc'[t] = "exit"
            BY <4>3, <6>2 DEF AtWork
          <6> QED  BY <2>2, <5>4, <6>1, <6>2, PuttingBackStep
        <5> QED  BY <5>2, <5>3, <5>4
      <4> QED  BY <4>4, <4>5
    <3> QED  BY <3>1, <3>4 DEF SerialInv
  <2>3. CASE Create
    BY <2>1, <2>3 DEF Create
  <2>4. CASE UNCHANGED vars
    BY <2>1, <2>4 DEF vars
  <2> QED  BY <2>2, <2>3, <2>4 DEF Next
<1> QED  BY <1>1, <1>2, RoundTypeOK, PTL DEF Spec

(* SerialRoundIsCorrect: when no thread started while another was at work, *)
(* main dequeues the characters of the message in order, every vowel that  *)
(* has a thread uppercased, whichever thread ran first.                    *)
THEOREM SerialRoundCorrect == Spec => []SerialRoundIsCorrect
<1>1. TypeOK /\ SerialInv => SerialRoundIsCorrect
  <2> SUFFICES ASSUME TypeOK, SerialInv, AllJoined, ~overlapped, NEW k \in Slot
               PROVE  Collected(k) = UppercaseAll(chunk[k])
    BY DEF SerialRoundIsCorrect
  <2>1. Resting
    BY DEF SerialInv, AllJoined, Draining, PuttingBack
  <2>2. Finished = Threads
    BY DEF AllJoined, Finished
  <2>3. countOfEntries \notin 0 .. k
    BY <2>1, QueueSizeAssumption DEF Resting, Slot
  <2>4. Collected(k) = Before[k]
    BY <2>1, <2>3 DEF Collected, Resting, At
  <2> QED  BY <2>2, <2>4 DEF Before, UppercaseAll
<1> QED  BY <1>1, RoundSerialInv, RoundTypeOK, PTL

-----------------------------------------------------------------------------
(* What main dequeues after a round is always among the characters that    *)
(* the round may leave.                                                    *)
LEMMA CollectedPermitted ==
  TypeOK /\ NothingInvented => \A k \in Slot : Collected(k) \in Permitted(chunk)
<1> SUFFICES ASSUME TypeOK, NothingInvented, NEW k \in Slot
             PROVE  Collected(k) \in Permitted(chunk)
  OBVIOUS
<1>1. (head + k) % QueueSize \in Slot
  BY QueueSizeAssumption DEF TypeOK, Slot
<1> QED  BY <1>1 DEF NothingInvented, Collected, Permitted

(* After the last join nothing changes: no thread is left to run.          *)
LEMMA JoinedIsFinal ==
  ASSUME TypeOK, AllJoined, [Next]_vars
  PROVE  UNCHANGED vars
<1>1. ~Create
  BY ThreadsAssumption DEF AllJoined, Create, TypeOK
<1>2. ASSUME NEW t \in Threads
      PROVE  ~serverDecoder(t)
  <2>1. pc[t] = "exit"
    BY DEF AllJoined
  <2> QED
    BY <2>1 DEF serverDecoder, While, RemoveTest, LoadFrontIndex, TakeValue,
                LoadHead, StoreHead, LoadCountDown, StoreCountDown, AddTest,
                LoadBackIndex, PutValue, LoadCountUp, StoreCountUp, LoadTail,
                StoreTail, Load
<1> QED  BY <1>1, <1>2 DEF Next

(* The step that lets main past its last join is no thread's first, so it  *)
(* adds no overlap.                                                        *)
LEMMA LastStepAddsNoOverlap ==
  ASSUME TypeOK, [Next]_vars, ~AllJoined, AllJoined'
  PROVE  overlapped' = overlapped
<1>1. ASSUME NEW t \in Threads, While(t), serverDecoder(t)
      PROVE  overlapped' = overlapped
  <2>1. \A u \in Threads \ {t} : pc[u] = "exit"
    BY <1>1 DEF AllJoined, While, Goto, TypeOK
  <2> QED  BY <1>1, <2>1 DEF While, AtWork, TypeOK
<1>2. ASSUME NEW t \in Threads, ~While(t), serverDecoder(t)
      PROVE  overlapped' = overlapped
  BY <1>2 DEF serverDecoder, RemoveTest, LoadFrontIndex, TakeValue,
              LoadHead, StoreHead, LoadCountDown, StoreCountDown, AddTest,
              LoadBackIndex, PutValue, LoadCountUp, StoreCountUp, LoadTail,
              StoreTail, Load
<1>3. CASE Create
  BY <1>3 DEF Create
<1>4. CASE UNCHANGED vars
  BY <1>4 DEF vars
<1> QED  BY <1>1, <1>2, <1>3, <1>4 DEF Next

(* ImplementsRound: every step of the racing threads is, for main, one of  *)
(* UppercaseRound or nothing at all.                                       *)
THEOREM RoundImplementsService == Spec => ImplementsRound
<1> DEFINE result == IF AllJoined THEN [k \in Slot |-> Collected(k)] ELSE <<>>
<1>1. Init => Round!Init
  <2> SUFFICES ASSUME Init PROVE Round!Init
    OBVIOUS
  <2>1. ~AllJoined
    BY ThreadsAssumption DEF Init, AllJoined
  <2> QED  BY <2>1 DEF Init, Round!Init, Round!None
<1>2. \A c, o : Round!RoundOutcomes(c, o) = RoundOutcomes(c, o)
  BY DEF RoundOutcomes, Round!RoundOutcomes, Permitted, Round!Permitted,
         UppercaseAll, Round!UppercaseAll, UppercaseBy, Round!UppercaseBy,
         Threads, Round!Threads, Lower, Round!Lower, Upper, Round!Upper,
         Slot, Round!Slot
<1>3. (TypeOK /\ NothingInvented)'
      => (\A k \in Slot : Collected(k) \in Permitted(chunk))'
  BY CollectedPermitted, PTL
<1>4. /\ TypeOK /\ TypeOK' /\ NothingInvented' /\ SerialRoundIsCorrect'
      /\ [Next]_vars
      => [Round!Next]_<<chunk, overlapped, result>>
  <2> SUFFICES ASSUME TypeOK, TypeOK', NothingInvented', SerialRoundIsCorrect',
                      [Next]_vars
               PROVE  [Round!Next]_<<chunk, overlapped, result>>
    OBVIOUS
  <2>1. CASE AllJoined
    <3>1. UNCHANGED vars
      BY <2>1, JoinedIsFinal
    <3>2. UNCHANGED <<chunk, overlapped>> /\ AllJoined' = AllJoined
      BY <3>1 DEF vars, queue, local, AllJoined
    <3>3. \A k \in Slot : Collected(k)' = Collected(k)
      BY <3>1 DEF vars, queue, Collected
    <3>4. result' = result
      BY <3>2, <3>3
    <3> QED  BY <3>2, <3>4
  <2>2. CASE ~AllJoined /\ ~AllJoined'
    <3>1. chunk' = chunk
      BY DEF Next, Create, serverDecoder, vars
    <3>2. result = <<>> /\ result' = <<>>
      BY <2>2
    <3>3. overlapped' = overlapped \/ (~overlapped /\ overlapped' = TRUE)
      <4>1. overlapped => overlapped'
        BY DEF Next, Create, serverDecoder, vars,
               While, RemoveTest, LoadFrontIndex, TakeValue, LoadHead,
               StoreHead, LoadCountDown, StoreCountDown, AddTest,
               LoadBackIndex, PutValue, LoadCountUp, StoreCountUp, LoadTail,
               StoreTail, Load
      <4> QED  BY <4>1 DEF TypeOK
    <3> HIDE DEF result
    <3>4. CASE overlapped' = overlapped
      BY <3>1, <3>2, <3>4
    <3>5. CASE ~overlapped /\ overlapped' = TRUE
      BY <3>1, <3>2, <3>5 DEF Round!Next, Round!Overlap, Round!None, result
    <3> QED  BY <3>3, <3>4, <3>5
  <2>3. CASE ~AllJoined /\ AllJoined'
    <3>1. chunk' = chunk
      BY DEF Next, Create, serverDecoder, vars
    <3>2. overlapped' = overlapped
      BY <2>3, LastStepAddsNoOverlap
    <3>3. result = <<>> /\ result' = [k \in Slot |-> Collected(k)']
      BY <2>3
    <3>4. \A k \in Slot : Collected(k)' \in Permitted(chunk)
      <4>1. \A k \in Slot : Collected(k)' \in Permitted(chunk)'
        BY <1>3
      <4>2. Permitted(chunk)' = Permitted(chunk)
        BY <3>1 DEF Permitted, UppercaseAll, UppercaseBy
      <4> QED  BY <4>1, <4>2
    <3>5. ~overlapped => \A k \in Slot : Collected(k)' = UppercaseAll(chunk[k])
      BY <2>3, <3>1, <3>2 DEF SerialRoundIsCorrect
    <3>6. result' \in RoundOutcomes(chunk, overlapped)
      BY <3>3, <3>4, <3>5 DEF RoundOutcomes
    <3>7. Round!End
      BY <1>2, <3>1, <3>2, <3>3, <3>6 DEF Round!End, Round!None
    <3> QED  BY <3>7 DEF Round!Next
  <2> QED  BY <2>1, <2>2, <2>3
<1> QED
  BY <1>1, <1>4, RoundTypeOK, RoundInventsNothing, SerialRoundCorrect, PTL
     DEF Spec, ImplementsRound, Round!Spec
=============================================================================
