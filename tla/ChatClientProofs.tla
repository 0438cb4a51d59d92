--------------------------- MODULE ChatClientProofs ---------------------------
(***************************************************************************)
(* Proofs about 3_client.c, for any number of lines and messages, whatever *)
(* stdin is and however its lines are read.                                *)
(***************************************************************************)
EXTENDS ChatClient, SequenceTheorems, TLAPS

(* What fgets leaves in the array: the next line, or at the end of input   *)
(* what was there before.                                                  *)
LEMMA ReadLine ==
  ASSUME TypeOK, NEW before \in Text, NEW after, fgets(before, after)
  PROVE  /\ after \in Text
         /\ drawn' \in 0 .. typed /\ taken' \in 0 .. drawn'
         /\ ~ended => taken' = taken + 1 /\ after = <<<<"user", taken + 1>>>>
<1>1. typed \in Nat /\ MaxTyped \in Nat /\ typed <= MaxTyped /\ drawn \in Nat /\ taken \in Nat
      /\ drawn <= typed /\ taken <= drawn
  BY BoundsAssumption DEF TypeOK
<1>2. taken + 1 <= typed => <<<<"user", taken + 1>>>> \in Text
  <2> SUFFICES ASSUME taken + 1 <= typed PROVE <<"user", taken + 1>> \in User
    BY DEF Text
  <2> QED  BY <1>1 DEF User
<1>3. CASE taken < drawn /\ after = <<<<"user", taken + 1>>>> /\ taken' = taken + 1 /\ UNCHANGED drawn
  BY <1>1, <1>2, <1>3
<1>4. CASE /\ taken = drawn /\ after = <<<<"user", taken + 1>>>> /\ taken' = taken + 1
           /\ \E n \in 1 .. MaxRead : drawn' = drawn + n /\ drawn' <= typed
  BY <1>1, <1>2, <1>4, ReadAssumption
<1>5. CASE taken = typed /\ ended /\ after = before /\ UNCHANGED stdio
  BY <1>1, <1>5 DEF stdio
<1> QED  BY <1>3, <1>4, <1>5 DEF fgets

(* A call of send with a line, or several, of Text.                        *)
LEMMA SendsText ==
  ASSUME TypeOK, NEW text \in Text, NEW next, Sends(text, next)
  PROVE  /\ sent' = Append(sent, text)
         /\ sent' \in Seq(Text) /\ Len(sent') <= MaxSent
         /\ server' \in {"up", "gone", "reset"} /\ pc' \in {next, "killed"}
<1>1. sent \in Seq(Text) /\ Len(sent) < MaxSent /\ sent' = Append(sent, text) /\ MaxSent \in Nat
  BY BoundsAssumption DEF Sends, TypeOK
<1>2. server' \in {"up", "gone", "reset"} /\ pc' \in {next, "killed"}
  <2>1. CASE server = "up"
    BY <2>1 DEF Sends
  <2>2. CASE server = "gone"
    BY <2>2 DEF Sends
  <2>3. CASE server = "reset"
    BY <2>3 DEF Sends
  <2> QED  BY <2>1, <2>2, <2>3 DEF TypeOK
<1>3. sent' \in Seq(Text) /\ Len(sent') = Len(sent) + 1
  BY <1>1, AppendProperties
<1> QED  BY <1>1, <1>2, <1>3

(* The text that a recv leaves in the shared array: the next bytes of the  *)
(* server, with something behind them only if they fill the array.         *)
LEMMA ReadMessage ==
  ASSUME TypeOK, FromServer
  PROVE  \E n \in 1 .. BUFFER_SIZE, behind \in {<<>>, <<Unset>>} :
           /\ n <= posted - heard /\ heard' = heard + n
           /\ Received(n) \in Text /\ Len(Received(n)) = n
           /\ \A k \in 1 .. n : Received(n)[k] = <<"server", heard + k>>
           /\ outgoingDatastream' = Received(n) \o behind
           /\ behind = <<>> \/ n = BUFFER_SIZE
           /\ overread' = (overread \/ n = BUFFER_SIZE)
<1>1. PICK n \in 1 .. BUFFER_SIZE :
        /\ n <= posted - heard /\ heard' = heard + n
        /\ \E behind \in {<<>>} \cup (IF n < BUFFER_SIZE THEN {} ELSE {<<Unset>>}) :
             outgoingDatastream' = Received(n) \o <<>> \o behind
        /\ overread' = (overread \/ ~(n < BUFFER_SIZE))
  BY DEF FromServer, Heard, Cleared, Terminated
<1>2. /\ heard \in Nat /\ posted \in Nat /\ posted <= MaxPosted /\ MaxPosted \in Nat
      /\ n \in Nat /\ BUFFER_SIZE \in Nat /\ (~(n < BUFFER_SIZE) <=> n = BUFFER_SIZE)
  BY BoundsAssumption, MessageAssumption DEF TypeOK
<1>3. \A k \in 1 .. n : <<"server", heard + k>> \in Server
  BY <1>1, <1>2 DEF Server
<1>4. Received(n) \in Text /\ Len(Received(n)) = n
      /\ \A k \in 1 .. n : Received(n)[k] = <<"server", heard + k>>
  <2> DEFINE Message(k) == <<"server", heard + k>>
             All == User \cup Server \cup {Unset}
  <2>1. \A k \in 1 .. n : Message(k) \in All
    BY <1>3
  <2>2. Received(n) = [k \in 1 .. n |-> Message(k)]
    BY DEF Received
  <2>3. /\ [k \in 1 .. n |-> Message(k)] \in Seq(All)
        /\ Len([k \in 1 .. n |-> Message(k)]) = n
    <3> HIDE DEF Message, All
    <3> QED  BY <1>2, <2>1
  <2> QED  BY <2>2, <2>3 DEF Text
<1>5. PICK behind \in {<<>>} \cup (IF n < BUFFER_SIZE THEN {} ELSE {<<Unset>>}) :
        outgoingDatastream' = Received(n) \o <<>> \o behind
  BY <1>1
<1>6. Received(n) \o <<>> = Received(n)
  BY <1>4, ConcatProperties DEF Text
<1> QED  BY <1>1, <1>2, <1>4, <1>5, <1>6

(* The lines stay within what has been typed and the array holds lines or  *)
(* messages, never bytes that nobody wrote.                                *)
THEOREM ClientTypeOK == Spec => []TypeOK
<1>1. Init => TypeOK
  <2> SUFFICES ASSUME Init PROVE TypeOK
    OBVIOUS
  <2>1. outgoingDatastream \in Text /\ outputFile \in Text
    BY DEF Init, Text
  <2>2. sent \in Seq(Text) /\ Len(sent) = 0
    BY DEF Init
  <2>3. /\ typed \in 0 .. MaxTyped /\ drawn \in 0 .. typed /\ taken \in 0 .. drawn
        /\ posted \in 0 .. MaxPosted /\ heard \in 0 .. posted /\ Len(sent) <= MaxSent
    BY <2>2, BoundsAssumption DEF Init
  <2> QED  BY <2>1, <2>2, <2>3 DEF Init, TypeOK
<1>2. TypeOK /\ [Next]_vars => TypeOK'
  <2> SUFFICES ASSUME TypeOK, [Next]_vars PROVE TypeOK'
    OBVIOUS
  <2>1. CASE Type
    BY <2>1, BoundsAssumption DEF Type, TypeOK, stdio, log
  <2>2. CASE EndInput
    BY <2>2 DEF EndInput, TypeOK, stdio, log
  <2>3. CASE Post
    <3>1. PICK n \in 1 .. MessageSize : posted' = posted + n /\ posted' <= MaxPosted
      BY <2>3 DEF Post
    <3>2. posted \in Nat /\ heard \in Nat /\ MessageSize \in Nat /\ MaxPosted \in Nat /\ n \in Nat
      BY BoundsAssumption, MessageAssumption DEF TypeOK
    <3>3. posted' \in 0 .. MaxPosted /\ heard \in 0 .. posted' /\ posted' >= 1
      BY <3>1, <3>2 DEF TypeOK
    <3>4. ends' \subseteq 1 .. posted'
      BY <2>3, <3>1, <3>2, <3>3 DEF Post, TypeOK
    <3> QED  BY <2>3, <3>3, <3>4 DEF Post, TypeOK, stdio, log
  <2>4. CASE ServerGoes
    BY <2>4 DEF ServerGoes, TypeOK, world, stdio, log
  <2>5. CASE EnterName
    <3>1. PICK name \in {<<l>> : l \in User \cup {Unset}}, next \in {"select", "exit"} :
            fgets(<<Unset>>, name) /\ Sends(name, next)
      BY <2>5 DEF EnterName
    <3>2. <<Unset>> \in Text
      BY DEF Text
    <3>3. name \in Text /\ drawn' \in 0 .. typed /\ taken' \in 0 .. drawn'
      BY <3>1, <3>2, ReadLine
    <3> QED  BY <2>5, <3>1, <3>3, SendsText DEF EnterName, TypeOK, world, log
  <2>6. CASE select
    BY <2>6 DEF select, TypeOK, world, stdio, log
  <2>7. CASE FromUser
    <3>1. PICK text :
            /\ fgets(outgoingDatastream, text)
            /\ outgoingDatastream' = text
            /\ Sends(text, "select")
            /\ outputFile' = outputFile \o text
      BY <2>7 DEF FromUser, TextToSend
    <3>2. text \in Text /\ drawn' \in 0 .. typed /\ taken' \in 0 .. drawn'
      BY <3>1, ReadLine DEF TypeOK
    <3>3. outputFile' \in Text
      BY <3>1, <3>2, ConcatProperties DEF TypeOK, Text
    <3> QED  BY <2>7, <3>1, <3>2, <3>3, SendsText DEF FromUser, TypeOK, world
  <2>8. CASE FromServer
    <3>1. PICK n \in 1 .. BUFFER_SIZE, behind \in {<<>>, <<Unset>>} :
            /\ n <= posted - heard /\ heard' = heard + n
            /\ Received(n) \in Text
            /\ outgoingDatastream' = Received(n) \o behind
            /\ overread' = (overread \/ n = BUFFER_SIZE)
      BY <2>8, ReadMessage
    <3>2. behind \in Text
      <4>1. <<>> \in Text /\ <<Unset>> \in Text
        BY DEF Text
      <4> QED  BY <4>1
    <3>3. outgoingDatastream' \in Text
      BY <3>1, <3>2, ConcatProperties DEF Text
    <3>4. outputFile' \in Text
      BY <2>8, <3>3, ConcatProperties DEF FromServer, TypeOK, Text
    <3>5. heard' \in 0 .. posted
      BY <3>1, BoundsAssumption, MessageAssumption DEF TypeOK
    <3> QED  BY <2>8, <3>1, <3>3, <3>4, <3>5 DEF FromServer, TypeOK, world, stdio
  <2>9. CASE Disconnected
    <3>1. outgoingDatastream' \in Text
      BY <2>9 DEF Disconnected, Text
    <3> QED  BY <2>9, <3>1 DEF Disconnected, TypeOK, world, stdio, log
  <2>10. CASE UNCHANGED vars
    BY <2>10 DEF vars, world, stdio, log, TypeOK
  <2> QED  BY <2>1, <2>2, <2>3, <2>4, <2>5, <2>6, <2>7, <2>8, <2>9, <2>10 DEF Next, Step
<1> QED  BY <1>1, <1>2, PTL DEF Spec

(* SendsTheUsersLines: until the end of input fgets overwrites the shared  *)
(* array before anything is sent from it, so a message of the server that  *)
(* was left there never goes back.                                         *)
THEOREM ClientSendsLines == Spec => []SendsTheUsersLines
<1> DEFINE Lines(n) == [k \in 1 .. n |-> <<<<"user", k>>>>]
<1>1. Init => SendsTheUsersLines
  <2> SUFFICES ASSUME Init PROVE sent = Lines(taken)
    BY DEF SendsTheUsersLines
  <2> QED  BY DEF Init
<1>2. TypeOK /\ SendsTheUsersLines /\ [Next]_vars => SendsTheUsersLines'
  <2> SUFFICES ASSUME TypeOK, SendsTheUsersLines, [Next]_vars, ~ended'
               PROVE  sent' = Lines(taken')
    BY DEF SendsTheUsersLines
  <2>1. ~ended
    BY DEF Next, Step, Type, EndInput, Post, ServerGoes, EnterName, select, FromUser,
           FromServer, Disconnected, vars, world
  <2>2. sent = Lines(taken) /\ taken \in Nat
    BY <2>1 DEF SendsTheUsersLines, TypeOK
  <2>3. ASSUME sent' = Append(sent, <<<<"user", taken + 1>>>>), taken' = taken + 1
        PROVE  sent' = Lines(taken')
    BY <2>2, <2>3
  <2>4. CASE UNCHANGED <<sent, taken>>
    BY <2>2, <2>4
  <2>5. CASE EnterName
    <3>1. PICK name \in {<<l>> : l \in User \cup {Unset}}, next \in {"select", "exit"} :
            fgets(<<Unset>>, name) /\ Sends(name, next)
      BY <2>5 DEF EnterName
    <3>2. <<Unset>> \in Text
      BY DEF Text
    <3> QED  BY <2>1, <2>3, <3>1, <3>2, ReadLine, SendsText
  <2>6. CASE FromUser
    <3>1. PICK text : fgets(outgoingDatastream, text) /\ Sends(text, "select")
      BY <2>6 DEF FromUser, TextToSend
    <3> QED  BY <2>1, <2>3, <3>1, ReadLine, SendsText DEF TypeOK
  <2> QED  BY <2>4, <2>5, <2>6 DEF Next, Step, Type, EndInput, Post, ServerGoes, select,
                                   FromServer, Disconnected, vars, world, stdio
<1> QED  BY <1>1, <1>2, ClientTypeOK, PTL DEF Spec

-----------------------------------------------------------------------------
\* The server's messages are shorter than the array, so that wherever as many
\* bytes lie as fit in it, one of them ends before the last.
Endings ==
  /\ posted # 0 => posted \in ends
  /\ \A i \in Nat : i + BUFFER_SIZE <= posted =>
       \E k \in ends : i < k /\ k < i + BUFFER_SIZE

(* It always holds.                                                        *)
LEMMA EndingsHold == Spec => []Endings
<1>1. Init => Endings
  BY MessageAssumption DEF Init, Endings
<1>2. TypeOK /\ Endings /\ [Next]_vars => Endings'
  <2> SUFFICES ASSUME TypeOK, Endings, [Next]_vars PROVE Endings'
    OBVIOUS
  <2>1. CASE Post
    <3>1. PICK n \in 1 .. MessageSize : posted' = posted + n
      BY <2>1 DEF Post
    <3>2. /\ posted \in Nat /\ n \in Nat /\ n # 0 /\ n < BUFFER_SIZE /\ BUFFER_SIZE \in Nat
          /\ ends' = ends \cup {posted'}
      BY <2>1, MessageAssumption DEF Post, TypeOK
    <3>3. ASSUME NEW i \in Nat, i + BUFFER_SIZE <= posted'
          PROVE  \E k \in ends' : i < k /\ k < i + BUFFER_SIZE
      <4>1. CASE i + BUFFER_SIZE <= posted
        BY <3>2, <4>1 DEF Endings
      <4>2. CASE posted < i + BUFFER_SIZE
        <5>1. i < posted
          BY <3>1, <3>2, <3>3
        <5>2. posted \in ends'
          BY <3>2, <5>1 DEF Endings
        <5> QED  BY <4>2, <5>1, <5>2
      <4> QED  BY <3>2, <4>1, <4>2
    <3>4. posted' \in ends'
      BY <3>2
    <3> QED  BY <3>3, <3>4 DEF Endings
  <2>2. CASE UNCHANGED <<posted, ends>>
    BY <2>2 DEF Endings
  <2> QED  BY <2>1, <2>2 DEF Next, Step, Type, EndInput, ServerGoes, EnterName, select, FromUser,
                             FromServer, Disconnected, vars, world
<1> QED  BY <1>1, <1>2, ClientTypeOK, PTL DEF Spec

(* ReadsOnOnlyWhenJoined: a recv that fills the array, so that printf goes *)
(* on behind it, has gone beyond the end of a message.                     *)
THEOREM ClientReadsOn == Spec => ReadsOnOnlyWhenJoined
<1>1. TypeOK /\ Endings /\ [Next]_vars =>
        [overread' # overread => \E k \in ends : heard < k /\ k < heard']_vars
  <2> SUFFICES ASSUME TypeOK, Endings, [Next]_vars, overread' # overread
               PROVE  \E k \in ends : heard < k /\ k < heard'
    OBVIOUS
  <2>1. FromServer
    BY DEF Next, Step, Type, EndInput, Post, ServerGoes, EnterName, select, FromUser,
           Disconnected, vars, log
  <2>2. PICK n \in 1 .. BUFFER_SIZE :
          /\ n <= posted - heard /\ heard' = heard + n
          /\ overread' = (overread \/ n = BUFFER_SIZE)
    BY <2>1, ReadMessage
  <2>3. n = BUFFER_SIZE
    BY <2>2 DEF TypeOK
  <2>4. heard \in Nat /\ heard + BUFFER_SIZE <= posted /\ heard' = heard + BUFFER_SIZE
    BY <2>2, <2>3, MessageAssumption, BoundsAssumption DEF TypeOK
  <2> QED  BY <2>4 DEF Endings
<1> QED  BY <1>1, ClientTypeOK, EndingsHold, PTL DEF Spec, ReadsOnOnlyWhenJoined

-----------------------------------------------------------------------------
(* The history file goes on with n lines, or bytes, of who, and after them *)
(* things of others.                                                       *)
LEMMA RecordMore ==
  ASSUME outputFile \in Text, NEW x \in Text, outputFile' = outputFile \o x,
         NEW who, NEW a \in Nat, NEW m \in Nat, NEW n \in 0 .. Len(x), a <= m + 1,
         \A k \in 1 .. n : x[k] = <<who, m + k>>,
         \A k \in n + 1 .. Len(x) : x[k][1] # who,
         Recorded(who, a .. m)
  PROVE  Recorded(who, a .. m + n)'
<1> DEFINE D == Len(outputFile)
<1>1. /\ D \in Nat /\ Len(x) \in Nat /\ n \in Nat
      /\ DOMAIN outputFile = 1 .. D /\ DOMAIN outputFile' = 1 .. D + Len(x)
      /\ \A i \in 1 .. D : outputFile'[i] = outputFile[i]
      /\ \A i \in D + 1 .. D + Len(x) : outputFile'[i] = x[i - D]
  BY ConcatProperties DEF Text
<1> DEFINE Old(i) == outputFile[i][2]
           New(i) == outputFile'[i][2]
<1>2. ASSUME NEW i \in Places(who)'
      PROVE  \/ i \in Places(who) /\ i \in 1 .. D /\ New(i) = Old(i)
             \/ i \in D + 1 .. D + n /\ New(i) = m + (i - D)
  <2>0. i \in 1 .. D + Len(x) /\ outputFile'[i][1] = who
    BY <1>1 DEF Places
  <2>1. CASE i <= D
    BY <1>1, <2>0, <2>1 DEF Places
  <2>2. CASE D < i
    <3>1. i - D \in 1 .. Len(x) /\ outputFile'[i] = x[i - D]
      BY <1>1, <2>0, <2>2
    <3>2. ~(i - D \in n + 1 .. Len(x))
      BY <2>0, <3>1
    <3>3. i - D \in 1 .. n
      BY <1>1, <3>1, <3>2
    <3>4. outputFile'[i] = <<who, m + (i - D)>>
      BY <3>1, <3>3
    <3> QED  BY <1>1, <2>0, <3>3, <3>4, SMTT(30)
  <2> QED  BY <1>1, <2>0, <2>1, <2>2
<1>3. \A i \in Places(who) : i \in Places(who)' /\ New(i) = Old(i)
  BY <1>1 DEF Places
<1>4. ASSUME NEW k \in 1 .. n
      PROVE  D + k \in Places(who)' /\ New(D + k) = m + k
  <2>1. D + k \in D + 1 .. D + Len(x) /\ D + k \in 1 .. D + Len(x) /\ (D + k) - D = k
    BY <1>1
  <2>2. outputFile'[D + k] = <<who, m + k>>
    BY <1>1, <2>1
  <2> QED  BY <1>1, <2>1, <2>2 DEF Places
<1>5. /\ \A i \in Places(who) : Old(i) \in a .. m
      /\ \A v \in a .. m : \E i \in Places(who) : Old(i) = v
      /\ \A i, j \in Places(who) : i < j => Old(i) < Old(j)
  <2>1. {outputFile[i][2] : i \in Places(who)} = a .. m
    BY DEF Recorded
  <2>2. \A i, j \in Places(who) : i < j => Old(i) < Old(j)
    BY DEF Recorded
  <2> QED  BY <2>1, <2>2, Zenon
<1>6. {New(i) : i \in Places(who)'} = a .. m + n
  <2> HIDE DEF Old, New, D
  <2>1. ASSUME NEW i \in Places(who)' PROVE New(i) \in a .. m + n
    <3>1. CASE i \in Places(who) /\ New(i) = Old(i)
      BY <1>1, <1>5, <3>1
    <3>2. CASE i \in D + 1 .. D + n /\ New(i) = m + (i - D)
      BY <1>1, <3>2, SMTT(30)
    <3> QED  BY <1>2, <3>1, <3>2
  <2>2. ASSUME NEW v \in a .. m + n PROVE \E i \in Places(who)' : New(i) = v
    <3>1. CASE v <= m
      <4>1. v \in a .. m
        BY <1>1, <3>1
      <4> QED  BY <1>3, <1>5, <4>1
    <3>2. CASE m < v
      <4>1. v - m \in 1 .. n /\ m + (v - m) = v
        BY <1>1, <3>2
      <4>2. D + (v - m) \in Places(who)' /\ New(D + (v - m)) = v
        BY <1>4, <4>1
      <4> QED  BY <4>2
    <3> QED  BY <1>1, <3>1, <3>2
  <2> QED  BY <2>1, <2>2
<1>7. \A i, j \in Places(who)' : i < j => New(i) < New(j)
  <2> HIDE DEF Old, New, D
  <2> SUFFICES ASSUME NEW i \in Places(who)', NEW j \in Places(who)', i < j
               PROVE  New(i) < New(j)
    OBVIOUS
  <2>1. /\ \/ i \in Places(who) /\ i \in 1 .. D /\ New(i) = Old(i)
           \/ i \in D + 1 .. D + n /\ New(i) = m + (i - D)
        /\ \/ j \in Places(who) /\ j \in 1 .. D /\ New(j) = Old(j)
           \/ j \in D + 1 .. D + n /\ New(j) = m + (j - D)
    BY <1>2
  <2>2. D \in Nat /\ m \in Nat /\ n \in Nat
    BY <1>1
  <2>3. CASE j \in Places(who) /\ j \in 1 .. D /\ New(j) = Old(j)
    <3>1. i \in Places(who) /\ New(i) = Old(i)
      BY <2>1, <2>2, <2>3
    <3> QED  BY <1>5, <2>3, <3>1
  <2>4. CASE j \in D + 1 .. D + n /\ New(j) = m + (j - D)
    <3>1. CASE i \in Places(who) /\ New(i) = Old(i)
      BY <1>5, <2>2, <2>4, <3>1
    <3>2. CASE i \in D + 1 .. D + n /\ New(i) = m + (i - D)
      BY <2>2, <2>4, <3>2
    <3> QED  BY <2>1, <3>1, <3>2
  <2> QED  BY <2>1, <2>3, <2>4
<1> QED  BY <1>6, <1>7 DEF Recorded

(* The history file goes on with things of others than who only.           *)
LEMMA NoneMore ==
  ASSUME outputFile \in Text, NEW x \in Text, outputFile' = outputFile \o x,
         NEW who, \A k \in 1 .. Len(x) : x[k][1] # who, Places(who) = {}
  PROVE  Places(who)' = {}
<1> DEFINE D == Len(outputFile)
<1>1. /\ D \in Nat /\ Len(x) \in Nat
      /\ DOMAIN outputFile = 1 .. D /\ DOMAIN outputFile' = 1 .. D + Len(x)
      /\ \A i \in 1 .. D : outputFile'[i] = outputFile[i]
      /\ \A i \in D + 1 .. D + Len(x) : outputFile'[i] = x[i - D]
  BY ConcatProperties DEF Text
<1>2. ASSUME NEW i \in 1 .. D + Len(x) PROVE outputFile'[i][1] # who
  <2>1. CASE i <= D
    BY <1>1, <2>1 DEF Places
  <2>2. CASE D < i
    <3>1. i - D \in 1 .. Len(x) /\ outputFile'[i] = x[i - D]
      BY <1>1, <2>2
    <3> QED  BY <3>1
  <2> QED  BY <1>1, <2>1, <2>2
<1> QED  BY <1>1, <1>2 DEF Places

\* The first line, which is not recorded, is the name.
NameTaken ==
  /\ pc = "name" => taken = 0
  /\ ~ended /\ pc # "name" => taken >= 1

(* It always holds.                                                        *)
LEMMA NameTakenHolds == Spec => []NameTaken
<1>1. Init => NameTaken
  BY DEF Init, NameTaken
<1>2. TypeOK /\ NameTaken /\ [Next]_vars => NameTaken'
  <2> SUFFICES ASSUME TypeOK, NameTaken, [Next]_vars PROVE NameTaken'
    OBVIOUS
  <2>1. taken \in Nat
    BY DEF TypeOK
  <2>2. CASE EnterName
    <3>1. PICK name \in {<<l>> : l \in User \cup {Unset}}, next \in {"select", "exit"} :
            fgets(<<Unset>>, name) /\ Sends(name, next)
      BY <2>2 DEF EnterName
    <3>2. <<Unset>> \in Text
      BY DEF Text
    <3>3. name \in Text /\ (~ended => taken' = taken + 1)
      BY <3>1, <3>2, ReadLine
    <3>4. pc' # "name" /\ ended' = ended
      BY <2>2, <3>1, <3>3, SendsText DEF EnterName, world
    <3> QED  BY <2>1, <3>3, <3>4 DEF NameTaken
  <2>3. CASE FromUser
    <3>1. PICK text :
            fgets(outgoingDatastream, text) /\ Sends(text, "select")
      BY <2>3 DEF FromUser, TextToSend
    <3>2. text \in Text /\ (~ended => taken' = taken + 1)
      BY <3>1, ReadLine DEF TypeOK
    <3>3. pc' # "name" /\ ended' = ended
      BY <2>3, <3>1, <3>2, SendsText DEF FromUser, world
    <3> QED  BY <2>1, <3>2, <3>3 DEF NameTaken
  <2>4. CASE Type \/ EndInput \/ Post \/ ServerGoes \/ UNCHANGED vars
    BY <2>4 DEF NameTaken, Type, EndInput, Post, ServerGoes, vars, world, stdio
  <2>5. CASE select \/ FromServer \/ Disconnected
    BY <2>5 DEF NameTaken, select, FromServer, Disconnected, world, stdio
  <2> QED  BY <2>2, <2>3, <2>4, <2>5 DEF Next, Step
<1> QED  BY <1>1, <1>2, ClientTypeOK, PTL DEF Spec

(* HistoryIsConversation: each step appends to the file what it has just   *)
(* taken from the user or the server, and nothing else unless a recv has   *)
(* filled the array.                                                       *)
THEOREM ClientHistory == Spec => []HistoryIsConversation
<1>1. Init => HistoryIsConversation
  <2> SUFFICES ASSUME Init PROVE HistoryIsConversation
    OBVIOUS
  <2>1. outputFile = <<>> /\ heard = 0 /\ taken = 0
    BY DEF Init
  <2>2. \A who : Places(who) = {}
    BY <2>1 DEF Places
  <2>3. 1 .. 0 = {} /\ 2 .. 0 = {}
    OBVIOUS
  <2> QED  BY <2>1, <2>2, <2>3 DEF HistoryIsConversation, Recorded
<1>2. TypeOK /\ NameTaken /\ HistoryIsConversation /\ [Next]_vars => HistoryIsConversation'
  <2> SUFFICES ASSUME TypeOK, NameTaken, HistoryIsConversation, [Next]_vars, ~ended'
               PROVE  /\ Recorded("server", 1 .. heard)'
                      /\ Recorded("user", 2 .. taken)'
                      /\ Places("unset")' # {} => overread'
    BY DEF HistoryIsConversation
  <2>1. ~ended
    BY DEF Next, Step, Type, EndInput, Post, ServerGoes, EnterName, select, FromUser,
           FromServer, Disconnected, vars, world
  <2>2. /\ Recorded("server", 1 .. heard) /\ Recorded("user", 2 .. taken)
        /\ Places("unset") # {} => overread
    BY <2>1 DEF HistoryIsConversation
  <2>3. taken \in Nat /\ heard \in Nat /\ outputFile \in Text
    BY BoundsAssumption DEF TypeOK
  <2> PICK h \in Nat, l \in Nat : h = heard /\ l = taken
    BY <2>3
  <2>4. CASE UNCHANGED <<outputFile, overread, heard, taken>>
    BY <2>2, <2>4 DEF Recorded, Places
  <2>5. CASE EnterName
    <3>1. PICK name : fgets(<<Unset>>, name)
      BY <2>5 DEF EnterName
    <3>2. <<Unset>> \in Text
      BY DEF Text
    <3>3. taken = 0 /\ taken' = 1
      BY <2>1, <2>5, <3>1, <3>2, ReadLine DEF EnterName, NameTaken
    <3>4. 2 .. taken = 2 .. taken'
      BY <3>3
    <3>5. outputFile' = outputFile /\ overread' = overread /\ heard' = heard
      BY <2>5 DEF EnterName, log
    <3>6. Recorded("user", 2 .. taken')
      BY <2>2, <3>4
    <3> QED  BY <2>2, <3>5, <3>6 DEF Recorded, Places
  <2>6. CASE FromUser
    <3>1. PICK text : /\ fgets(outgoingDatastream, text)
                      /\ outputFile' = outputFile \o text
      BY <2>6 DEF FromUser, TextToSend
    <3>2. text \in Text /\ text = <<<<"user", taken + 1>>>> /\ taken' = taken + 1
      BY <2>1, <3>1, ReadLine DEF TypeOK
    <3>3. /\ Len(text) = 1 /\ text[1] = <<"user", taken + 1>> /\ heard' = heard
          /\ overread' = overread /\ taken >= 1
      BY <2>1, <2>6, <3>2 DEF FromUser, NameTaken
    <3>4. Recorded("user", 2 .. l + 1)'
      <4>1. /\ \A k \in 1 .. 1 : text[k] = <<"user", l + k>>
            /\ 1 + 1 .. Len(text) = {} /\ 1 \in 0 .. Len(text) /\ 2 <= l + 1
        BY <2>3, <3>3
      <4>2. \A k \in 1 + 1 .. Len(text) : text[k][1] # "user"
        BY <4>1
      <4>3. Recorded("user", 2 .. l)
        BY <2>2
      <4> QED  BY <2>3, <3>1, <3>2, <4>1, <4>2, <4>3, RecordMore
    <3>5. Recorded("server", 1 .. h + 0)'
      <4>1. /\ \A k \in 0 + 1 .. Len(text) : text[k][1] # "server"
            /\ 1 .. 0 = {} /\ 0 \in 0 .. Len(text) /\ 1 <= h + 1
        BY <2>3, <3>3
      <4>2. \A k \in 1 .. 0 : text[k] = <<"server", h + k>>
        BY <4>1
      <4>3. Recorded("server", 1 .. h)
        BY <2>2
      <4> QED  BY <2>3, <3>1, <3>2, <4>1, <4>2, <4>3, RecordMore
    <3>6. Places("unset") = {} => Places("unset")' = {}
      <4>1. \A k \in 1 .. Len(text) : text[k][1] # "unset"
        BY <3>3
      <4> QED  BY <2>3, <3>1, <3>2, <4>1, NoneMore
    <3>7. 2 .. taken' = 2 .. l + 1 /\ 1 .. heard' = 1 .. h + 0
      BY <3>2, <3>3
    <3> QED  BY <2>2, <3>3, <3>4, <3>5, <3>6, <3>7 DEF Recorded
  <2>7. CASE FromServer
    <3>1. PICK n \in 1 .. BUFFER_SIZE, behind \in {<<>>, <<Unset>>} :
            /\ heard' = heard + n
            /\ Received(n) \in Text /\ Len(Received(n)) = n
            /\ \A k \in 1 .. n : Received(n)[k] = <<"server", heard + k>>
            /\ outgoingDatastream' = Received(n) \o behind
            /\ behind = <<>> \/ n = BUFFER_SIZE
            /\ overread' = (overread \/ n = BUFFER_SIZE)
      BY <2>7, ReadMessage
    <3> DEFINE x == outgoingDatastream'
    <3>2. /\ outputFile' = outputFile \o x /\ taken' = taken /\ n \in Nat
      BY <2>7, MessageAssumption DEF FromServer, stdio
    <3>3. /\ behind \in Text /\ Len(behind) \in Nat
          /\ \A k \in 1 .. Len(behind) : behind[k][1] = "unset"
      <4>1. CASE behind = <<>>
        BY <4>1 DEF Text
      <4>2. CASE behind = <<Unset>>
        <5>1. <<Unset>> \in Text
          BY DEF Text
        <5> QED  BY <4>2, <5>1 DEF Unset
      <4> QED  BY <4>1, <4>2
    <3>4. /\ x \in Text /\ Len(x) = n + Len(behind)
          /\ \A k \in 1 .. n : x[k] = <<"server", heard + k>>
          /\ \A k \in n + 1 .. Len(x) : x[k][1] = "unset"
      <4>1. /\ x \in Text /\ Len(x) = n + Len(behind)
            /\ \A k \in 1 .. n : x[k] = Received(n)[k]
            /\ \A k \in n + 1 .. n + Len(behind) : x[k] = behind[k - n]
        <5> DEFINE All == User \cup Server \cup {Unset}
                   R == Received(n)
        <5>1. R \in Seq(All) /\ behind \in Seq(All) /\ Len(R) = n /\ x = R \o behind
          BY <3>1, <3>3 DEF Text
        <5> HIDE DEF All, R, x
        <5>2. /\ x \in Seq(All) /\ Len(x) = n + Len(behind)
              /\ \A k \in 1 .. n : x[k] = R[k]
              /\ \A k \in n + 1 .. n + Len(behind) : x[k] = behind[k - n]
          <6>1. /\ R \o behind \in Seq(All) /\ Len(R \o behind) = Len(R) + Len(behind)
                /\ \A k \in 1 .. Len(R) + Len(behind) :
                     (R \o behind)[k] = IF k <= Len(R) THEN R[k] ELSE behind[k - Len(R)]
            BY <5>1, ConcatProperties
          <6>2. n \in Nat /\ Len(behind) \in Nat
            BY <3>2, <3>3
          <6> QED  BY <5>1, <6>1, <6>2
        <5> QED  BY <5>2 DEF All, R, Text
      <4>2. \A k \in n + 1 .. n + Len(behind) : k - n \in 1 .. Len(behind)
        BY <3>2, <3>3
      <4> QED  BY <3>1, <3>3, <4>1, <4>2
    <3>5. /\ \A k \in 1 .. n : x[k][1] = "server"
          /\ n \in 0 .. Len(x) /\ 0 \in 0 .. Len(x) /\ Len(x) \in Nat
      BY <3>2, <3>3, <3>4
    <3>6. \A k \in 1 .. Len(x) : x[k][1] \in {"server", "unset"}
      <4>1. \A k \in 1 .. Len(x) : k \in 1 .. n \/ k \in n + 1 .. Len(x)
        BY <3>2, <3>5
      <4> QED  BY <3>4, <3>5, <4>1
    <3> HIDE DEF x
    <3>7. Recorded("server", 1 .. h + n)'
      <4>1. \A k \in n + 1 .. Len(x) : x[k][1] # "server"
        BY <3>4
      <4>2. 1 <= h + 1
        BY <2>3
      <4>3. Recorded("server", 1 .. h) /\ \A k \in 1 .. n : x[k] = <<"server", h + k>>
        BY <2>2, <3>4
      <4> QED  BY <2>3, <3>2, <3>4, <3>5, <4>1, <4>2, <4>3, RecordMore
    <3>8. Recorded("user", 2 .. l + 0)'
      <4>1. \A k \in 0 + 1 .. Len(x) : x[k][1] # "user"
        BY <3>6
      <4>2. (\A k \in 1 .. 0 : x[k] = <<"user", l + k>>) /\ 2 <= l + 1
        BY <2>1, <2>3, <2>7 DEF FromServer, NameTaken
      <4>3. Recorded("user", 2 .. l)
        BY <2>2
      <4> QED  BY <2>3, <3>2, <3>4, <3>5, <4>1, <4>2, <4>3, RecordMore
    <3>9. behind = <<>> /\ Places("unset") = {} => Places("unset")' = {}
      <4> SUFFICES ASSUME behind = <<>>, Places("unset") = {} PROVE Places("unset")' = {}
        OBVIOUS
      <4>1. \A k \in 1 .. Len(x) : x[k][1] # "unset"
        BY <3>2, <3>4, <3>5
      <4> QED  BY <2>3, <3>2, <3>4, <4>1, NoneMore
    <3>10. 1 .. heard' = 1 .. h + n /\ 2 .. taken' = 2 .. l + 0
      BY <3>1, <3>2
    <3>11. Places("unset")' # {} => overread'
      BY <2>2, <3>1, <3>9
    <3> QED  BY <3>7, <3>8, <3>10, <3>11 DEF Recorded
  <2> QED  BY <2>4, <2>5, <2>6, <2>7 DEF Next, Step, Type, EndInput, Post, ServerGoes, select,
                                         Disconnected, vars, stdio, log
<1> QED  BY <1>1, <1>2, ClientTypeOK, NameTakenHolds, PTL DEF Spec
=============================================================================
