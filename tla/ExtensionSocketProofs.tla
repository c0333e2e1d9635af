------------------------ MODULE ExtensionSocketProofs ------------------------
(***************************************************************************)
(* Proofs about ExtensionSocket, for every set of calls and every bound.   *)
(***************************************************************************)
EXTENDS ExtensionSocket, SequenceTheorems, TLAPS

(* What the sequence operators of the module do to the type of a sequence.   *)
LEMMA RemoveAtType ==
  ASSUME NEW S, NEW s \in Seq(S), NEW i \in 1 .. Len(s)
  PROVE  /\ RemoveAt(s, i) \in Seq(S)
         /\ Len(RemoveAt(s, i)) = Len(s) - 1
         /\ \A j \in 1 .. Len(s) - 1 :
              RemoveAt(s, i)[j] = IF j < i THEN s[j] ELSE s[j + 1]
<1> DEFINE a == SubSeq(s, 1, i - 1)
           b == SubSeq(s, i + 1, Len(s))
<1>1. /\ Len(s) \in Nat /\ i \in Nat /\ i >= 1 /\ i <= Len(s)
      /\ \A j \in 1 .. Len(s) : s[j] \in S
  BY LenProperties, ElementOfSeq
<1>2. /\ a \in Seq(S) /\ Len(a) = i - 1
      /\ \A j \in 1 .. i - 1 : a[j] = s[j]
  <2>1. i - 1 \in Int /\ \A j \in 1 .. i - 1 : s[j] \in S
    BY <1>1
  <2> QED BY <2>1, <1>1, SubSeqProperties
<1>3. /\ b \in Seq(S) /\ Len(b) = Len(s) - i
      /\ \A j \in 1 .. Len(s) - i : b[j] = s[i + j]
  <2>1. i + 1 \in Int /\ Len(s) \in Int /\ \A j \in i + 1 .. Len(s) : s[j] \in S
    BY <1>1
  <2>2. /\ b \in Seq(S)
        /\ Len(b) = IF i + 1 <= Len(s) THEN Len(s) - (i + 1) + 1 ELSE 0
        /\ \A j \in 1 .. Len(s) - (i + 1) + 1 : b[j] = s[i + 1 + j - 1]
    BY <2>1, SubSeqProperties
  <2> QED BY <2>2, <1>1
<1> HIDE DEF a, b
<1>4. RemoveAt(s, i) = a \o b
  BY DEF RemoveAt, a, b
<1>5. /\ a \o b \in Seq(S) /\ Len(a \o b) = Len(a) + Len(b)
      /\ \A j \in 1 .. Len(a) + Len(b) :
           (a \o b)[j] = IF j <= Len(a) THEN a[j] ELSE b[j - Len(a)]
  BY <1>2, <1>3, ConcatProperties
<1> QED BY <1>1, <1>2, <1>3, <1>4, <1>5

USE DEF Phases, FrameKinds, Frame, damage

(* The initial state has its type.                                           *)
LEMMA TypeInit == Init => TypeOK
  BY ConstantsAssumption DEF Init, TypeOK

(* A frame that is delivered leaves the calls and the queues well typed.     *)
LEMMA DeliverType ==
  ASSUME TypeOK, NEW f \in Frame, Deliver(f)
  PROVE  /\ phase' \in [Calls -> Phases]
         /\ answer' \in [Calls -> Calls \cup {NoAnswer}]
         /\ messageQueue' \in Seq(Calls)
         /\ receiveResolvers' \in Seq(Calls)
<1>1. CASE receiveResolvers # <<>>
  <2> DEFINE c == Head(receiveResolvers)
  <2>1. c \in Calls /\ Tail(receiveResolvers) \in Seq(Calls)
    BY <1>1, HeadTailProperties DEF TypeOK
  <2>2. f.call \in Calls
    OBVIOUS
  <2>3. /\ receiveResolvers' = Tail(receiveResolvers)
        /\ \/ phase' = [phase EXCEPT ![c] = "answered"]
           \/ phase' = [phase EXCEPT ![c] = "failed"]
        /\ answer' = [answer EXCEPT ![c] = f.call] \/ answer' = answer
        /\ messageQueue' = messageQueue
    BY <1>1 DEF Deliver
  <2> HIDE DEF c
  <2> QED BY <2>1, <2>2, <2>3 DEF TypeOK
<1>2. CASE receiveResolvers = <<>>
  <2>1. Append(messageQueue, f.call) \in Seq(Calls)
    BY AppendProperties DEF TypeOK
  <2> QED BY <1>2, <2>1 DEF Deliver, TypeOK
<1> QED BY <1>1, <1>2

(* Every step keeps every variable in its type.                              *)
LEMMA TypeNext == TypeOK /\ [Next]_vars => TypeOK'
<1> SUFFICES ASSUME TypeOK, [Next]_vars PROVE TypeOK'
  OBVIOUS
<1>1. ASSUME NEW c \in Calls, SendRequestAndReceive(c) PROVE TypeOK'
  BY <1>1 DEF SendRequestAndReceive, TypeOK, desktopVars
<1>2. ASSUME NEW c \in Calls, SendEncrypted(c) PROVE TypeOK'
  <2>1. /\ Append(toDesktop, c) \in Seq(Calls)
        /\ Append(receiveResolvers, c) \in Seq(Calls)
    BY AppendProperties DEF TypeOK
  <2>2. messageQueue # <<>> => /\ Head(messageQueue) \in Calls
                               /\ Tail(messageQueue) \in Seq(Calls)
    BY HeadTailProperties DEF TypeOK
  <2> QED BY <1>2, <2>1, <2>2 DEF SendEncrypted, Receive, TypeOK
<1>3. ASSUME OnMessage PROVE TypeOK'
  <2>1. Head(toExtension) \in Frame /\ Tail(toExtension) \in Seq(Frame)
    BY <1>3, HeadTailProperties DEF OnMessage, TypeOK
  <2>2. Append(decrypting, Head(toExtension)) \in Seq(Frame)
    BY <2>1, AppendProperties DEF TypeOK
  <2>3. /\ phase' \in [Calls -> Phases]
        /\ answer' \in [Calls -> Calls \cup {NoAnswer}]
        /\ messageQueue' \in Seq(Calls)
        /\ receiveResolvers' \in Seq(Calls)
    <3>1. CASE Deliver(Head(toExtension))
      BY <2>1, <3>1, DeliverType
    <3>2. CASE UNCHANGED <<phase, answer, messageQueue, receiveResolvers>>
      BY <3>2 DEF TypeOK
    <3> QED BY <1>3, <3>1, <3>2 DEF OnMessage
  <2>4. /\ toExtension' \in Seq(Frame) /\ decrypting' \in Seq(Frame)
        /\ inTurn' \in BOOLEAN
        /\ UNCHANGED <<isConnected, native, toDesktop, garbled, dropped, truncated>>
    BY <1>3, <2>1, <2>2 DEF OnMessage, TypeOK, damage
  <2> HIDE DEF Phases, FrameKinds, Frame
  <2> QED BY <2>3, <2>4 DEF TypeOK
<1>4. ASSUME NEW i \in 1 .. Len(decrypting), HandleEncryptedMessage(i) PROVE TypeOK'
  <2>1. decrypting[i] \in Frame /\ RemoveAt(decrypting, i) \in Seq(Frame)
    BY RemoveAtType, ElementOfSeq DEF TypeOK
  <2>2. Deliver(decrypting[i])
    BY <1>4 DEF HandleEncryptedMessage
  <2>3. /\ phase' \in [Calls -> Phases]
        /\ answer' \in [Calls -> Calls \cup {NoAnswer}]
        /\ messageQueue' \in Seq(Calls)
        /\ receiveResolvers' \in Seq(Calls)
    BY <2>1, <2>2, DeliverType
  <2> QED BY <1>4, <2>1, <2>3 DEF HandleEncryptedMessage, TypeOK, desktopVars
<1>5. ASSUME Disconnect PROVE TypeOK'
  BY <1>5, EmptySeq DEF Disconnect, RejectAll, TypeOK, desktopVars
<1>6. ASSUME OnClose PROVE TypeOK'
  BY <1>6, EmptySeq DEF OnClose, RejectAll, TypeOK
<1>7. ASSUME NEW kind \in FrameKinds, DesktopReply(kind) PROVE TypeOK'
  <2>1. Head(toDesktop) \in Calls /\ Tail(toDesktop) \in Seq(Calls)
    BY <1>7, HeadTailProperties DEF DesktopReply, TypeOK
  <2>2. Append(toExtension, [call |-> Head(toDesktop), kind |-> kind]) \in Seq(Frame)
    BY <2>1, AppendProperties DEF TypeOK
  <2>3. /\ garbled' \in 0 .. MaxGarbled /\ dropped' \in 0 .. MaxDropped
        /\ truncated' \in 0 .. MaxTruncated
    BY <1>7, ConstantsAssumption DEF DesktopReply, TypeOK
  <2> QED BY <1>7, <2>1, <2>2, <2>3 DEF DesktopReply, TypeOK
<1>8. ASSUME DesktopClose PROVE TypeOK'
  BY <1>8, EmptySeq DEF DesktopClose, TypeOK
<1>9. ASSUME UNCHANGED vars PROVE TypeOK'
  BY <1>9 DEF vars, desktopVars, TypeOK
<1> QED BY <1>1, <1>2, <1>3, <1>4, <1>5, <1>6, <1>7, <1>8, <1>9 DEF Next

(* Type correctness: every variable of the channel keeps its type.           *)
THEOREM TypeCorrect == Spec => []TypeOK
  BY TypeInit, TypeNext, PTL DEF Spec
-----------------------------------------------------------------------------
(* A delivery takes the oldest call out of the line and out of its wait, and *)
(* moves everybody else one place up.                                        *)
LEMMA DeliverForgetsNobody ==
  ASSUME TypeOK, NobodyForgotten, NEW f \in Frame, Deliver(f)
  PROVE  NobodyForgotten'
<1>1. CASE receiveResolvers # <<>>
  <2> DEFINE c == Head(receiveResolvers)
             r == receiveResolvers
  <2>1. /\ c \in Calls /\ c = r[1] /\ Len(r) \in Nat /\ Len(r) >= 1
        /\ Tail(r) \in Seq(Calls) /\ Len(Tail(r)) = Len(r) - 1
        /\ \A i \in 1 .. Len(r) - 1 : Tail(r)[i] = r[i + 1]
    BY <1>1, HeadTailProperties, EmptySeq, LenProperties DEF TypeOK
  <2>2. /\ r' = Tail(r)
        /\ phase' = [phase EXCEPT ![c] = "answered"]
             \/ phase' = [phase EXCEPT ![c] = "failed"]
    BY <1>1 DEF Deliver
  <2>3. \A i, j \in 1 .. Len(r) : r[i] = r[j] => i = j
    BY DEF NobodyForgotten
  <2>4. \A d \in Calls : phase[d] = "awaiting" <=> \E i \in 1 .. Len(r) : r[i] = d
    BY DEF NobodyForgotten, Contains
  <2>5. \A i, j \in 1 .. Len(r') : r'[i] = r'[j] => i = j
    BY <2>1, <2>2, <2>3
  <2>6. \A d \in Calls : phase'[d] = "awaiting" <=> d # c /\ phase[d] = "awaiting"
    BY <2>1, <2>2 DEF TypeOK
  <2>7. \A d \in Calls : (\E i \in 1 .. Len(r') : r'[i] = d)
                        <=> d # c /\ \E i \in 1 .. Len(r) : r[i] = d
    <3> SUFFICES ASSUME NEW d \in Calls
                 PROVE (\E i \in 1 .. Len(r) - 1 : r[i + 1] = d)
                       <=> d # c /\ \E i \in 1 .. Len(r) : r[i] = d
      BY <2>1, <2>2
    <3>1. ASSUME NEW i \in 1 .. Len(r) - 1, r[i + 1] = d
          PROVE d # c /\ \E j \in 1 .. Len(r) : r[j] = d
      <4>1. i + 1 \in 1 .. Len(r) /\ 1 \in 1 .. Len(r) /\ i + 1 # 1
        BY <2>1
      <4>2. r[i + 1] # r[1]
        BY <2>3, <4>1
      <4> QED BY <3>1, <4>1, <4>2, <2>1
    <3>2. ASSUME d # c, NEW i \in 1 .. Len(r), r[i] = d
          PROVE \E j \in 1 .. Len(r) - 1 : r[j + 1] = d
      <4>1. i # 1 /\ i - 1 \in 1 .. Len(r) - 1 /\ (i - 1) + 1 = i
        BY <3>2, <2>1
      <4> QED BY <3>2, <4>1
    <3> QED BY <3>1, <3>2
  <2> HIDE DEF c
  <2> QED BY <2>4, <2>5, <2>6, <2>7 DEF NobodyForgotten, Contains
<1>2. CASE receiveResolvers = <<>>
  <2>1. phase' = phase /\ receiveResolvers' = receiveResolvers
    BY <1>2 DEF Deliver
  <2> QED BY <2>1 DEF NobodyForgotten, Contains
<1> QED BY <1>1, <1>2

(* The end of the connection empties the line and everybody's wait.          *)
LEMMA RejectAllForgetsNobody ==
  ASSUME TypeOK, NobodyForgotten, RejectAll
  PROVE  NobodyForgotten'
<1>1. /\ receiveResolvers' = <<>> /\ Len(receiveResolvers') = 0
      /\ \A c \in Calls : phase'[c] # "awaiting"
  BY EmptySeq DEF RejectAll, NobodyForgotten, TypeOK
<1> QED BY <1>1 DEF NobodyForgotten, Contains

(* receive() puts a call that was encrypting at the end of the line, unless  *)
(* a queued response settles it.                                             *)
LEMMA ReceiveForgetsNobody ==
  ASSUME TypeOK, NobodyForgotten, NEW c \in Calls, phase[c] = "encrypting", Receive(c)
  PROVE  NobodyForgotten'
<1>1. CASE messageQueue # <<>>
  <2>1. /\ phase' = [phase EXCEPT ![c] = "answered"]
        /\ receiveResolvers' = receiveResolvers
    BY <1>1 DEF Receive
  <2>2. \A d \in Calls : phase'[d] = "awaiting" <=> phase[d] = "awaiting"
    BY <2>1 DEF TypeOK
  <2> QED BY <2>1, <2>2 DEF NobodyForgotten, Contains
<1>2. CASE messageQueue = <<>>
  <2> DEFINE r == receiveResolvers
  <2>1. /\ phase' = [phase EXCEPT ![c] = "awaiting"] /\ r' = Append(r, c)
        /\ Len(r) \in Nat /\ Len(r') = Len(r) + 1 /\ r'[Len(r) + 1] = c
        /\ \A i \in 1 .. Len(r) : r'[i] = r[i]
    <3>1. phase' = [phase EXCEPT ![c] = "awaiting"] /\ r' = Append(r, c)
      BY <1>2 DEF Receive
    <3>2. r \in Seq(Calls) /\ Len(r) \in Nat
      BY LenProperties DEF TypeOK
    <3>3. /\ Len(Append(r, c)) = Len(r) + 1 /\ Append(r, c)[Len(r) + 1] = c
          /\ \A i \in 1 .. Len(r) : Append(r, c)[i] = r[i]
      BY <3>2, AppendProperties
    <3> QED BY <3>1, <3>2, <3>3
  <2>2. \A i \in 1 .. Len(r) : r[i] # c
    <3>1. ~Contains(r, c)
      BY DEF NobodyForgotten
    <3> QED BY <3>1 DEF Contains
  <2>3. \A i \in 1 .. Len(r') : i \in 1 .. Len(r) \/ i = Len(r) + 1
    BY <2>1
  <2>4. \A i, j \in 1 .. Len(r') : r'[i] = r'[j] => i = j
    BY <2>1, <2>2, <2>3 DEF NobodyForgotten
  <2>5. \A d \in Calls : phase'[d] = "awaiting" <=> d = c \/ phase[d] = "awaiting"
    BY <2>1 DEF TypeOK
  <2>6. \A d \in Calls : (\E i \in 1 .. Len(r') : r'[i] = d)
                        <=> d = c \/ \E i \in 1 .. Len(r) : r[i] = d
    <3>1. Len(r) + 1 \in 1 .. Len(r') /\ \A i \in 1 .. Len(r) : i \in 1 .. Len(r')
      BY <2>1
    <3> QED BY <2>1, <2>3, <3>1
  <2> QED BY <2>4, <2>5, <2>6 DEF NobodyForgotten, Contains
<1> QED BY <1>1, <1>2

(* Any other change of phase leaves those who wait where they are.           *)
LEMMA OthersForgetNobody ==
  ASSUME TypeOK, NobodyForgotten, receiveResolvers' = receiveResolvers,
         \A c \in Calls : phase'[c] = "awaiting" <=> phase[c] = "awaiting"
  PROVE  NobodyForgotten'
  BY DEF NobodyForgotten, Contains

(* Every step leaves each call that waits in the line.                       *)
LEMMA NobodyForgottenNext == TypeOK /\ NobodyForgotten /\ [Next]_vars => NobodyForgotten'
<1> SUFFICES ASSUME TypeOK, NobodyForgotten, [Next]_vars PROVE NobodyForgotten'
  OBVIOUS
<1>1. ASSUME NEW c \in Calls, SendRequestAndReceive(c) PROVE NobodyForgotten'
  BY <1>1, OthersForgetNobody DEF SendRequestAndReceive, TypeOK
<1>2. ASSUME NEW c \in Calls, SendEncrypted(c) PROVE NobodyForgotten'
  <2>1. CASE isConnected
    BY <1>2, <2>1, ReceiveForgetsNobody DEF SendEncrypted
  <2>2. CASE ~isConnected
    BY <1>2, <2>2, OthersForgetNobody DEF SendEncrypted, TypeOK
  <2> QED BY <2>1, <2>2
<1>3. ASSUME OnMessage PROVE NobodyForgotten'
  <2>1. CASE Deliver(Head(toExtension))
    BY <1>3, <2>1, HeadTailProperties, DeliverForgetsNobody DEF OnMessage, TypeOK
  <2>2. CASE UNCHANGED <<phase, receiveResolvers>>
    BY <2>2, OthersForgetNobody
  <2> QED BY <1>3, <2>1, <2>2 DEF OnMessage
<1>4. ASSUME NEW i \in 1 .. Len(decrypting), HandleEncryptedMessage(i)
      PROVE NobodyForgotten'
  <2>1. decrypting[i] \in Frame
    BY ElementOfSeq DEF TypeOK
  <2> QED BY <1>4, <2>1, DeliverForgetsNobody DEF HandleEncryptedMessage
<1>5. ASSUME Disconnect PROVE NobodyForgotten'
  BY <1>5, RejectAllForgetsNobody DEF Disconnect
<1>6. ASSUME OnClose PROVE NobodyForgotten'
  BY <1>6, RejectAllForgetsNobody DEF OnClose
<1>7. ASSUME NEW kind \in FrameKinds, DesktopReply(kind) PROVE NobodyForgotten'
  BY <1>7, OthersForgetNobody DEF DesktopReply
<1>8. ASSUME DesktopClose PROVE NobodyForgotten'
  BY <1>8, OthersForgetNobody DEF DesktopClose
<1>9. ASSUME UNCHANGED vars PROVE NobodyForgotten'
  BY <1>9, OthersForgetNobody DEF vars
<1> QED BY <1>1, <1>2, <1>3, <1>4, <1>5, <1>6, <1>7, <1>8, <1>9 DEF Next

(* Nobody is forgotten: whoever waits in receive() has one place in the line *)
(* from which a response, an error or the close will take it.                *)
THEOREM NobodyIsForgotten == Spec => []NobodyForgotten
<1>1. Init => NobodyForgotten
  <2> SUFFICES ASSUME Init PROVE NobodyForgotten
    OBVIOUS
  <2>1. Len(receiveResolvers) = 0 /\ \A c \in Calls : phase[c] # "awaiting"
    BY EmptySeq DEF Init
  <2> QED BY <2>1 DEF NobodyForgotten, Contains
<1> QED BY <1>1, NobodyForgottenNext, TypeCorrect, PTL DEF Spec
-----------------------------------------------------------------------------
(* Why the queue stays empty: while the connection lives, every response     *)
(* that may still arrive has somebody waiting for one.                       *)
Counted ==
  isConnected =>
    /\ messageQueue = <<>>
    /\ Due <= Len(receiveResolvers)

Lengths == /\ Len(decrypting) \in Nat /\ Len(toExtension) \in Nat
           /\ Len(toDesktop) \in Nat /\ Len(receiveResolvers) \in Nat

(* The lengths of the queues are natural numbers.                            *)
LEMMA LengthsAreNat == TypeOK => Lengths
  BY LenProperties DEF TypeOK, Lengths

(* A sequence that is not empty loses one element with its head.             *)
LEMMA TailIsShorter ==
  ASSUME NEW S, NEW s \in Seq(S), s # <<>>
  PROVE  Len(s) >= 1 /\ Len(Tail(s)) = Len(s) - 1
  BY HeadTailProperties, EmptySeq

(* A sequence with one element more is one longer.                           *)
LEMMA AppendIsLonger ==
  ASSUME NEW S, NEW s \in Seq(S), NEW e \in S
  PROVE  Len(Append(s, e)) = Len(s) + 1
  BY AppendProperties

(* Every step keeps a waiting call for each response that is due: a request  *)
(* and its place in the line are made in one step, and a response takes one  *)
(* of each.                                                                  *)
LEMMA CountedNext == TypeOK /\ Counted /\ [Next]_vars => Counted'
<1> SUFFICES ASSUME TypeOK, Counted, [Next]_vars PROVE Counted'
  OBVIOUS
<1> Lengths
  BY LengthsAreNat
<1>1. ASSUME NEW c \in Calls, SendRequestAndReceive(c) PROVE Counted'
  BY <1>1 DEF SendRequestAndReceive, Counted, Due, desktopVars
<1>2. ASSUME NEW c \in Calls, SendEncrypted(c) PROVE Counted'
  <2>1. CASE isConnected
    <3>1. /\ messageQueue = <<>>
          /\ Due <= Len(receiveResolvers)
      BY <2>1 DEF Counted
    <3>2. /\ messageQueue' = messageQueue
          /\ receiveResolvers' = Append(receiveResolvers, c)
          /\ toDesktop' = Append(toDesktop, c) \/ toDesktop' = toDesktop
          /\ decrypting' = decrypting /\ toExtension' = toExtension
      BY <1>2, <2>1, <3>1 DEF SendEncrypted, Receive
    <3>3. /\ Len(Append(receiveResolvers, c)) = Len(receiveResolvers) + 1
          /\ Len(Append(toDesktop, c)) = Len(toDesktop) + 1
      BY AppendIsLonger DEF TypeOK
    <3> QED BY <3>1, <3>2, <3>3 DEF Counted, Due, Lengths
  <2>2. CASE ~isConnected
    BY <1>2, <2>2 DEF SendEncrypted, Counted
  <2> QED BY <2>1, <2>2
<1>3. ASSUME OnMessage PROVE Counted'
  <2> SUFFICES ASSUME isConnected PROVE Counted'
    BY <1>3 DEF OnMessage, Counted
  <2> DEFINE f == Head(toExtension)
  <2>1. /\ toExtension' = Tail(toExtension)
        /\ UNCHANGED <<isConnected, toDesktop>>
    BY <1>3 DEF OnMessage
  <2>2. /\ Len(toExtension) >= 1 /\ Len(Tail(toExtension)) = Len(toExtension) - 1
        /\ f \in Frame
    BY <1>3, TailIsShorter, HeadTailProperties DEF OnMessage, TypeOK
  <2>3. CASE f.kind # "truncated"
    <3>1. /\ decrypting' = Append(decrypting, f) \/ decrypting' = decrypting
          /\ UNCHANGED <<messageQueue, receiveResolvers>>
      BY <1>3, <2>3 DEF OnMessage
    <3>2. Len(Append(decrypting, f)) = Len(decrypting) + 1
      BY <2>2, AppendIsLonger DEF TypeOK
    <3> HIDE DEF f
    <3> QED BY <2>1, <2>2, <3>1, <3>2 DEF Counted, Due, Lengths
  <2>4. CASE f.kind = "truncated"
    <3>1. decrypting' = decrypting /\ Deliver(f) /\ f.kind # "good"
      BY <1>3, <2>4 DEF OnMessage
    <3>2. receiveResolvers # <<>>
      BY <2>2, EmptySeq DEF Counted, Due, Lengths
    <3>3. /\ messageQueue' = messageQueue /\ receiveResolvers' = Tail(receiveResolvers)
          /\ Len(Tail(receiveResolvers)) = Len(receiveResolvers) - 1
      BY <3>1, <3>2, TailIsShorter DEF Deliver, TypeOK
    <3> HIDE DEF f
    <3> QED BY <2>1, <2>2, <3>1, <3>3 DEF Counted, Due, Lengths
  <2> QED BY <2>3, <2>4
<1>4. ASSUME NEW i \in 1 .. Len(decrypting), HandleEncryptedMessage(i) PROVE Counted'
  <2> SUFFICES ASSUME isConnected PROVE Counted'
    BY <1>4 DEF HandleEncryptedMessage, Counted
  <2>1. /\ Deliver(decrypting[i]) /\ decrypting' = RemoveAt(decrypting, i)
        /\ UNCHANGED <<isConnected, toExtension, toDesktop>>
    BY <1>4 DEF HandleEncryptedMessage, desktopVars
  <2>2. Len(RemoveAt(decrypting, i)) = Len(decrypting) - 1 /\ Len(decrypting) >= 1
    BY RemoveAtType DEF TypeOK, Lengths
  <2>3. receiveResolvers # <<>>
    BY <2>2, EmptySeq DEF Counted, Due, Lengths
  <2>4. /\ messageQueue' = messageQueue /\ receiveResolvers' = Tail(receiveResolvers)
        /\ Len(Tail(receiveResolvers)) = Len(receiveResolvers) - 1
    BY <2>1, <2>3, TailIsShorter DEF Deliver, TypeOK
  <2> QED BY <2>1, <2>2, <2>4 DEF Counted, Due, Lengths
<1>5. ASSUME Disconnect PROVE Counted'
  BY <1>5 DEF Disconnect, Counted
<1>6. ASSUME OnClose PROVE Counted'
  BY <1>6 DEF OnClose, Counted
<1>7. ASSUME NEW kind \in FrameKinds, DesktopReply(kind) PROVE Counted'
  <2> DEFINE f == [call |-> Head(toDesktop), kind |-> kind]
  <2>1. /\ toDesktop' = Tail(toDesktop) /\ toExtension' = Append(toExtension, f)
        /\ UNCHANGED <<isConnected, decrypting, messageQueue, receiveResolvers>>
    BY <1>7 DEF DesktopReply
  <2>2. /\ Len(toDesktop) >= 1 /\ Len(Tail(toDesktop)) = Len(toDesktop) - 1
        /\ Head(toDesktop) \in Calls
    BY <1>7, TailIsShorter, HeadTailProperties DEF DesktopReply, TypeOK
  <2>3. f \in Frame
    BY <2>2
  <2> HIDE DEF f
  <2>4. Len(Append(toExtension, f)) = Len(toExtension) + 1
    BY <2>3, AppendIsLonger DEF TypeOK
  <2>5. Len(toExtension') = Len(toExtension) + 1 /\ Len(toDesktop') = Len(toDesktop) - 1
    BY <2>1, <2>2, <2>4
  <2>6. UNCHANGED <<isConnected, decrypting, messageQueue, receiveResolvers>>
    BY <2>1
  <2> QED BY <2>5, <2>6 DEF Counted, Due, Lengths
<1>8. ASSUME DesktopClose PROVE Counted'
  <2>1. /\ toDesktop' = <<>> /\ toExtension' = <<>>
        /\ UNCHANGED <<isConnected, decrypting, messageQueue, receiveResolvers>>
    BY <1>8 DEF DesktopClose
  <2>2. Len(<<>>) = 0
    BY EmptySeq
  <2> QED BY <2>1, <2>2 DEF Counted, Due, Lengths
<1>9. ASSUME UNCHANGED vars PROVE Counted'
  BY <1>9 DEF vars, desktopVars, Counted, Due
<1> QED BY <1>1, <1>2, <1>3, <1>4, <1>5, <1>6, <1>7, <1>8, <1>9 DEF Next

(* No response is parked while the connection lives, in whatever order the   *)
(* decrypt jobs end and whatever frames are dropped.                         *)
THEOREM QueueIsNeverServed == Spec => []QueueNeverServed
<1>1. Init => Counted
  BY EmptySeq DEF Init, Counted, Due
<1>2. Counted => QueueNeverServed
  BY DEF Counted, QueueNeverServed
<1> QED BY <1>1, <1>2, CountedNext, TypeCorrect, PTL DEF Spec
-----------------------------------------------------------------------------
(* Why calls get their own answers as long as every frame is met in its      *)
(* turn: the line and the frames stay aligned.                               *)

(* The oldest frame leaves with the oldest call.                             *)
LEMMA DeliverInOrder ==
  ASSUME TypeOK, isConnected, inTurn, InOrder, inTurn',
         NEW i \in 1 .. Len(decrypting), HandleEncryptedMessage(i)
  PROVE  InOrder'
<1> Lengths
  BY LengthsAreNat
<1>1. i = 1 /\ Len(decrypting) >= 1
  <2>1. i = 1
    BY Zenon DEF HandleEncryptedMessage
  <2> QED BY <2>1 DEF Lengths
<1>2. /\ Due <= Len(receiveResolvers)
      /\ native = "open" => Due = Len(receiveResolvers)
      /\ Aligned
  BY DEF InOrder
<1>3. Len(receiveResolvers) >= 1
  BY <1>1, <1>2 DEF Due, Lengths
<1>4. receiveResolvers # <<>>
  BY <1>3, EmptySeq
<1>5. /\ receiveResolvers' = Tail(receiveResolvers)
      /\ decrypting' = RemoveAt(decrypting, 1)
      /\ UNCHANGED <<isConnected, native, toExtension, toDesktop>>
  <2>1. Deliver(decrypting[i])
    BY DEF HandleEncryptedMessage
  <2>2. receiveResolvers' = Tail(receiveResolvers)
    BY <2>1, <1>4 DEF Deliver
  <2> QED BY <1>1, <2>2 DEF HandleEncryptedMessage, desktopVars
<1>6. /\ Len(receiveResolvers') = Len(receiveResolvers) - 1
      /\ \A j \in 1 .. Len(receiveResolvers) - 1 :
           receiveResolvers'[j] = receiveResolvers[j + 1]
  BY <1>4, <1>5, HeadTailProperties DEF TypeOK
<1>7. /\ Len(decrypting') = Len(decrypting) - 1
      /\ \A j \in 1 .. Len(decrypting) - 1 : decrypting'[j] = decrypting[j + 1]
  <2>1. 1 \in 1 .. Len(decrypting)
    BY <1>1 DEF Lengths
  <2>2. /\ Len(RemoveAt(decrypting, 1)) = Len(decrypting) - 1
        /\ \A j \in 1 .. Len(decrypting) - 1 :
             RemoveAt(decrypting, 1)[j] = IF j < 1 THEN decrypting[j] ELSE decrypting[j + 1]
    BY <2>1, RemoveAtType DEF TypeOK
  <2>3. \A j \in 1 .. Len(decrypting) - 1 : ~(j < 1)
    BY <1>1 DEF Lengths
  <2> QED BY <1>5, <2>2, <2>3
<1>8. Due' = Due - 1
  <2>1. Len(toExtension') = Len(toExtension) /\ Len(toDesktop') = Len(toDesktop)
    BY <1>5
  <2>2. Len(decrypting') = Len(decrypting) - 1
    BY <1>7
  <2> QED BY <2>1, <2>2 DEF Due, Lengths
<1>9. Aligned'
  <2>1. \A j \in 1 .. Len(decrypting') : receiveResolvers'[j] = decrypting'[j].call
    <3> SUFFICES ASSUME NEW j \in 1 .. Len(decrypting')
                 PROVE  receiveResolvers'[j] = decrypting'[j].call
      OBVIOUS
    <3>1. /\ j \in 1 .. Len(decrypting) - 1 /\ j \in 1 .. Len(receiveResolvers) - 1
          /\ j + 1 \in 1 .. Len(decrypting)
      BY <1>1, <1>2, <1>7 DEF Lengths, Due
    <3> QED BY <3>1, <1>2, <1>6, <1>7 DEF Aligned
  <2>2. \A j \in 1 .. Len(toExtension) :
          receiveResolvers'[Len(decrypting') + j] = toExtension[j].call
    <3> SUFFICES ASSUME NEW j \in 1 .. Len(toExtension)
                 PROVE  receiveResolvers'[Len(decrypting') + j] = toExtension[j].call
      OBVIOUS
    <3>1. /\ Len(decrypting') + j \in 1 .. Len(receiveResolvers) - 1
          /\ (Len(decrypting') + j) + 1 = Len(decrypting) + j
      BY <1>1, <1>2, <1>7 DEF Lengths, Due
    <3> QED BY <3>1, <1>2, <1>6 DEF Aligned
  <2>3. \A j \in 1 .. Len(toDesktop) :
          receiveResolvers'[Len(decrypting') + Len(toExtension) + j] = toDesktop[j]
    <3> SUFFICES ASSUME NEW j \in 1 .. Len(toDesktop)
                 PROVE  receiveResolvers'[Len(decrypting') + Len(toExtension) + j]
                          = toDesktop[j]
      OBVIOUS
    <3>1. /\ Len(decrypting') + Len(toExtension) + j \in 1 .. Len(receiveResolvers) - 1
          /\ (Len(decrypting') + Len(toExtension) + j) + 1
               = Len(decrypting) + Len(toExtension) + j
      BY <1>1, <1>2, <1>7 DEF Lengths, Due
    <3> QED BY <3>1, <1>2, <1>6 DEF Aligned
  <2> QED BY <1>5, <2>1, <2>2, <2>3 DEF Aligned
<1>10. Due \in Nat
  BY DEF Due, Lengths
<1>11. Due' <= Len(receiveResolvers')
  BY <1>2, <1>6, <1>8, <1>10 DEF Lengths
<1>12. native' = "open" => Due' = Len(receiveResolvers')
  BY <1>2, <1>5, <1>6, <1>8, <1>10 DEF Lengths
<1> QED BY <1>9, <1>11, <1>12 DEF InOrder

(* A request that goes out takes the last place in the line.                 *)
LEMMA SendInOrder ==
  ASSUME TypeOK, InOrder, Counted, NEW c \in Calls, SendEncrypted(c)
  PROVE  InOrder'
<1> SUFFICES ASSUME isConnected, inTurn PROVE InOrder'
  BY DEF SendEncrypted, InOrder
<1> Lengths
  BY LengthsAreNat
<1> DEFINE r == receiveResolvers
<1>1. /\ Due <= Len(r) /\ Aligned
      /\ native = "open" => Due = Len(r)
  BY DEF InOrder
<1>2. /\ r' = Append(r, c)
      /\ toDesktop' = IF native = "open" THEN Append(toDesktop, c) ELSE toDesktop
      /\ UNCHANGED <<native, toExtension, decrypting>>
  BY DEF SendEncrypted, Receive, Counted
<1>3. /\ Len(Append(r, c)) = Len(r) + 1 /\ Append(r, c)[Len(r) + 1] = c
      /\ \A j \in 1 .. Len(r) : Append(r, c)[j] = r[j]
  BY AppendProperties DEF TypeOK
<1>4. /\ Len(Append(toDesktop, c)) = Len(toDesktop) + 1
      /\ Append(toDesktop, c)[Len(toDesktop) + 1] = c
      /\ \A j \in 1 .. Len(toDesktop) : Append(toDesktop, c)[j] = toDesktop[j]
  BY AppendProperties DEF TypeOK
<1>5. /\ Due' <= Len(r')
      /\ native' = "open" => Due' = Len(r')
  <2>1. /\ Len(r') = Len(r) + 1 /\ Len(decrypting') = Len(decrypting)
        /\ Len(toExtension') = Len(toExtension) /\ native' = native
    BY <1>2, <1>3
  <2>2. CASE native = "open"
    <3>1. Len(toDesktop') = Len(toDesktop) + 1
      BY <1>2, <1>4, <2>2
    <3> QED BY <2>1, <3>1, <1>1, <2>2 DEF Due, Lengths
  <2>3. CASE native # "open"
    <3>1. Len(toDesktop') = Len(toDesktop)
      BY <1>2, <2>3
    <3> QED BY <2>1, <3>1, <1>1, <2>3 DEF Due, Lengths
  <2> QED BY <2>2, <2>3
<1>6. \A j \in 1 .. Len(r) : r'[j] = r[j]
  BY <1>2, <1>3
<1>7. \A j \in 1 .. Len(decrypting') : r'[j] = decrypting'[j].call
  <2>1. \A j \in 1 .. Len(decrypting) : j \in 1 .. Len(r)
    BY <1>1 DEF Due, Lengths
  <2>2. \A j \in 1 .. Len(decrypting) : r'[j] = decrypting[j].call
    BY <1>1, <1>6, <2>1 DEF Aligned
  <2> QED BY <1>2, <2>2
<1>8. \A j \in 1 .. Len(toExtension') : r'[Len(decrypting') + j] = toExtension'[j].call
  <2>1. \A j \in 1 .. Len(toExtension) : Len(decrypting) + j \in 1 .. Len(r)
    BY <1>1 DEF Due, Lengths
  <2>2. \A j \in 1 .. Len(toExtension) : r'[Len(decrypting) + j] = toExtension[j].call
    BY <1>1, <1>6, <2>1 DEF Aligned
  <2> QED BY <1>2, <2>2
<1>9. \A j \in 1 .. Len(toDesktop') :
         r'[Len(decrypting') + Len(toExtension') + j] = toDesktop'[j]
  <2> DEFINE n == Len(decrypting) + Len(toExtension)
  <2>1. \A j \in 1 .. Len(toDesktop) : n + j \in 1 .. Len(r)
    BY <1>1 DEF Due, Lengths
  <2>2. \A j \in 1 .. Len(toDesktop) : r'[n + j] = toDesktop[j]
    BY <1>1, <1>6, <2>1 DEF Aligned
  <2>3. CASE native = "open"
    <3> SUFFICES ASSUME NEW j \in 1 .. Len(toDesktop) + 1
                 PROVE  r'[n + j] = Append(toDesktop, c)[j]
      BY <1>2, <1>4, <2>3
    <3>1. CASE j \in 1 .. Len(toDesktop)
      BY <3>1, <2>2, <1>4
    <3>2. CASE j = Len(toDesktop) + 1
      <4>1. n + j = Len(r) + 1
        BY <1>1, <2>3, <3>2 DEF Due, Lengths
      <4> QED BY <1>2, <1>3, <1>4, <3>2, <4>1
    <3> QED BY <3>1, <3>2 DEF Lengths
  <2>4. CASE native # "open"
    BY <1>2, <2>2, <2>4
  <2> QED BY <2>3, <2>4
<1>10. Aligned'
  BY <1>2, <1>7, <1>8, <1>9 DEF Aligned
<1> QED BY <1>5, <1>10 DEF InOrder

(* A frame moves from the last that travels to the last that decrypts.       *)
LEMMA OnMessageInOrder ==
  ASSUME TypeOK, InOrder, isConnected, inTurn, OnMessage,
         Head(toExtension).kind \in {"good", "garbled"}
  PROVE  InOrder'
<1> Lengths
  BY LengthsAreNat
<1> DEFINE r == receiveResolvers
           f == Head(toExtension)
<1>1. /\ Due <= Len(r) /\ Aligned
      /\ native = "open" => Due = Len(r)
  BY DEF InOrder
<1>2. /\ f = toExtension[1] /\ f \in Frame /\ Len(toExtension) >= 1
      /\ Len(Tail(toExtension)) = Len(toExtension) - 1
      /\ \A j \in 1 .. Len(toExtension) - 1 : Tail(toExtension)[j] = toExtension[j + 1]
  <2>1. toExtension \in Seq(Frame) /\ toExtension # <<>>
    BY DEF OnMessage, TypeOK
  <2>2. Len(toExtension) >= 1 /\ f = toExtension[1]
    BY <2>1, EmptySeq
  <2> HIDE DEF Frame
  <2>3. Head(toExtension) \in Frame
    BY <2>1, HeadTailProperties
  <2>4. /\ Len(Tail(toExtension)) = Len(toExtension) - 1
        /\ \A j \in 1 .. Len(Tail(toExtension)) : Tail(toExtension)[j] = toExtension[j + 1]
    BY <2>1, HeadTailProperties
  <2> QED BY <2>2, <2>3, <2>4
<1>4. /\ toExtension' = Tail(toExtension) /\ decrypting' = Append(decrypting, f)
      /\ UNCHANGED <<native, toDesktop, receiveResolvers>>
  BY DEF OnMessage
<1>5. /\ Len(Append(decrypting, f)) = Len(decrypting) + 1
      /\ Append(decrypting, f)[Len(decrypting) + 1] = f
      /\ \A j \in 1 .. Len(decrypting) : Append(decrypting, f)[j] = decrypting[j]
  BY <1>2, AppendProperties DEF TypeOK
<1>6. r[Len(decrypting) + 1] = f.call
  BY <1>1, <1>2 DEF Aligned, Lengths
<1> HIDE DEF f
<1>7. Due' = Due
  <2>1. /\ Len(decrypting') = Len(decrypting) + 1
        /\ Len(toExtension') = Len(toExtension) - 1 /\ Len(toDesktop') = Len(toDesktop)
    BY <1>2, <1>4, <1>5
  <2> QED BY <2>1 DEF Due, Lengths
<1>8. \A j \in 1 .. Len(decrypting') : r[j] = decrypting'[j].call
  <2> SUFFICES ASSUME NEW j \in 1 .. Len(decrypting) + 1
               PROVE  r[j] = Append(decrypting, f)[j].call
    BY <1>4, <1>5
  <2>1. CASE j \in 1 .. Len(decrypting)
    BY <2>1, <1>1, <1>5 DEF Aligned
  <2>2. CASE j = Len(decrypting) + 1
    BY <2>2, <1>5, <1>6
  <2> QED BY <2>1, <2>2 DEF Lengths
<1>9. \A j \in 1 .. Len(toExtension') : r[Len(decrypting') + j] = toExtension'[j].call
  <2> SUFFICES ASSUME NEW j \in 1 .. Len(toExtension) - 1
               PROVE  r[(Len(decrypting) + 1) + j] = toExtension[j + 1].call
    BY <1>2, <1>4, <1>5
  <2>1. /\ j + 1 \in 1 .. Len(toExtension)
        /\ (Len(decrypting) + 1) + j = Len(decrypting) + (j + 1)
    BY DEF Lengths
  <2> QED BY <2>1, <1>1 DEF Aligned
<1>10. \A j \in 1 .. Len(toDesktop') :
         r[Len(decrypting') + Len(toExtension') + j] = toDesktop'[j]
  <2>1. Len(decrypting') + Len(toExtension') = Len(decrypting) + Len(toExtension)
    <3>1. /\ Len(decrypting') = Len(decrypting) + 1
          /\ Len(toExtension') = Len(toExtension) - 1
      BY <1>2, <1>4, <1>5
    <3> QED BY <3>1 DEF Lengths
  <2> QED BY <2>1, <1>1, <1>4 DEF Aligned
<1>11. Aligned'
  BY <1>4, <1>8, <1>9, <1>10 DEF Aligned
<1> QED BY <1>1, <1>4, <1>7, <1>11 DEF InOrder

(* A truncated frame that comes while nothing decrypts takes the oldest call *)
(* out of the line, which is the call it is due to.                          *)
LEMMA TruncatedInOrder ==
  ASSUME TypeOK, InOrder, isConnected, inTurn, OnMessage, decrypting = <<>>,
         Head(toExtension).kind = "truncated"
  PROVE  InOrder'
<1> Lengths
  BY LengthsAreNat
<1> DEFINE r == receiveResolvers
<1>1. /\ Due <= Len(r) /\ Aligned
      /\ native = "open" => Due = Len(r)
  BY DEF InOrder
<1>2. /\ Len(toExtension) >= 1 /\ Len(Tail(toExtension)) = Len(toExtension) - 1
      /\ \A j \in 1 .. Len(toExtension) - 1 : Tail(toExtension)[j] = toExtension[j + 1]
  <2>1. toExtension \in Seq(Frame) /\ toExtension # <<>>
    BY DEF OnMessage, TypeOK
  <2> QED BY <2>1, HeadTailProperties, TailIsShorter
<1>3. Len(decrypting) = 0
  BY EmptySeq
<1>4. r # <<>>
  BY <1>1, <1>2, EmptySeq DEF Due, Lengths
<1>5. /\ Len(Tail(r)) = Len(r) - 1
      /\ \A j \in 1 .. Len(r) - 1 : Tail(r)[j] = r[j + 1]
  BY <1>4, HeadTailProperties DEF TypeOK
<1>6. /\ r' = Tail(r) /\ toExtension' = Tail(toExtension)
      /\ UNCHANGED <<native, toDesktop, decrypting>>
  BY <1>4 DEF OnMessage, Deliver
<1>7. /\ Len(r') = Len(r) - 1 /\ Len(toExtension') = Len(toExtension) - 1
      /\ Len(decrypting') = 0 /\ Len(toDesktop') = Len(toDesktop)
  BY <1>2, <1>3, <1>5, <1>6
<1>8. Due = Len(toExtension) + Len(toDesktop) /\ Due' = Due - 1
  BY <1>3, <1>7 DEF Due, Lengths
<1>9. \A j \in 1 .. Len(toExtension') : r'[Len(decrypting') + j] = toExtension'[j].call
  <2> SUFFICES ASSUME NEW j \in 1 .. Len(toExtension) - 1
               PROVE  Tail(r)[0 + j] = Tail(toExtension)[j].call
    BY <1>6, <1>7
  <2>1. /\ j \in 1 .. Len(r) - 1 /\ j + 1 \in 1 .. Len(toExtension)
        /\ 0 + j = j /\ Len(decrypting) + (j + 1) = j + 1
    BY <1>1, <1>3, <1>8 DEF Lengths
  <2>2. r[Len(decrypting) + (j + 1)] = toExtension[j + 1].call
    BY <1>1, <2>1 DEF Aligned
  <2> QED BY <1>2, <1>5, <2>1, <2>2
<1>10. \A j \in 1 .. Len(toDesktop') :
         r'[Len(decrypting') + Len(toExtension') + j] = toDesktop'[j]
  <2> DEFINE n == Len(toExtension)
  <2> SUFFICES ASSUME NEW j \in 1 .. Len(toDesktop)
               PROVE  Tail(r)[(0 + (n - 1)) + j] = toDesktop[j]
    BY <1>6, <1>7
  <2>1. /\ (0 + (n - 1)) + j \in 1 .. Len(r) - 1
        /\ ((0 + (n - 1)) + j) + 1 = Len(decrypting) + n + j
    BY <1>1, <1>2, <1>3, <1>8 DEF Lengths
  <2>2. r[Len(decrypting) + n + j] = toDesktop[j]
    BY <1>1 DEF Aligned
  <2> QED BY <1>5, <2>1, <2>2
<1>11. \A j \in 1 .. Len(decrypting') : r'[j] = decrypting'[j].call
  BY <1>7
<1>12. Aligned'
  BY <1>9, <1>10, <1>11 DEF Aligned
<1>13. Due \in Nat
  BY DEF Due, Lengths
<1> QED BY <1>1, <1>6, <1>7, <1>8, <1>12, <1>13 DEF InOrder, Lengths

(* A frame that arrives leaves the line aligned, or is not in its turn.      *)
LEMMA OnMessageKeepsOrder ==
  ASSUME TypeOK, InOrder, OnMessage
  PROVE  InOrder'
<1> SUFFICES ASSUME isConnected, inTurn, inTurn' PROVE InOrder'
  BY DEF OnMessage, InOrder
<1>1. toExtension \in Seq(Frame) /\ toExtension # <<>>
  BY DEF OnMessage, TypeOK
<1>2. Head(toExtension) \in Frame
  BY <1>1, HeadTailProperties
<1>3. CASE Head(toExtension).kind \in {"good", "garbled"}
  BY <1>3, OnMessageInOrder
<1>4. CASE Head(toExtension).kind = "truncated"
  <2>1. decrypting = <<>>
    BY <1>4 DEF OnMessage
  <2> QED BY <1>4, <2>1, TruncatedInOrder
<1>5. Head(toExtension).kind # "dropped"
  BY DEF OnMessage
<1> QED BY <1>2, <1>3, <1>4, <1>5

(* The desktop answers the oldest of the requests it has.                    *)
LEMMA DesktopReplyInOrder ==
  ASSUME TypeOK, InOrder, NEW kind \in FrameKinds, DesktopReply(kind)
  PROVE  InOrder'
<1> SUFFICES ASSUME isConnected, inTurn PROVE InOrder'
  BY DEF DesktopReply, InOrder
<1> Lengths
  BY LengthsAreNat
<1> DEFINE r == receiveResolvers
           f == [call |-> Head(toDesktop), kind |-> kind]
           n == Len(decrypting) + Len(toExtension)
<1>1. /\ Due <= Len(r) /\ Aligned
      /\ native = "open" => Due = Len(r)
  BY DEF InOrder
<1>2. /\ Head(toDesktop) = toDesktop[1] /\ Head(toDesktop) \in Calls
      /\ Len(toDesktop) >= 1 /\ Len(Tail(toDesktop)) = Len(toDesktop) - 1
      /\ \A j \in 1 .. Len(toDesktop) - 1 : Tail(toDesktop)[j] = toDesktop[j + 1]
  <2>1. toDesktop \in Seq(Calls) /\ toDesktop # <<>>
    BY DEF DesktopReply, TypeOK
  <2>2. Len(toDesktop) >= 1 /\ Head(toDesktop) = toDesktop[1]
    BY <2>1, EmptySeq
  <2>3. /\ Head(toDesktop) \in Calls /\ Len(Tail(toDesktop)) = Len(toDesktop) - 1
        /\ \A j \in 1 .. Len(Tail(toDesktop)) : Tail(toDesktop)[j] = toDesktop[j + 1]
    BY <2>1, HeadTailProperties
  <2> QED BY <2>2, <2>3
<1>3. f \in Frame /\ f.call = toDesktop[1]
  BY <1>2
<1>4. /\ toDesktop' = Tail(toDesktop) /\ toExtension' = Append(toExtension, f)
      /\ UNCHANGED <<native, decrypting, receiveResolvers>>
  BY DEF DesktopReply
<1> HIDE DEF f
<1>5. /\ Len(Append(toExtension, f)) = Len(toExtension) + 1
      /\ Append(toExtension, f)[Len(toExtension) + 1] = f
      /\ \A j \in 1 .. Len(toExtension) : Append(toExtension, f)[j] = toExtension[j]
  BY <1>3, AppendProperties DEF TypeOK
<1>6. /\ Len(toExtension') = Len(toExtension) + 1 /\ Len(decrypting') = Len(decrypting)
      /\ Len(toDesktop') = Len(toDesktop) - 1
  BY <1>2, <1>4, <1>5
<1>7. Due' = Due
  BY <1>6 DEF Due, Lengths
<1>8. \A j \in 1 .. Len(decrypting') : r[j] = decrypting'[j].call
  BY <1>1, <1>4 DEF Aligned
<1>9. \A j \in 1 .. Len(toExtension') : r[Len(decrypting') + j] = toExtension'[j].call
  <2> SUFFICES ASSUME NEW j \in 1 .. Len(toExtension) + 1
               PROVE  r[Len(decrypting) + j] = Append(toExtension, f)[j].call
    BY <1>4, <1>5
  <2>1. CASE j \in 1 .. Len(toExtension)
    BY <2>1, <1>1, <1>5 DEF Aligned
  <2>2. CASE j = Len(toExtension) + 1
    <3>1. Len(decrypting) + j = n + 1 /\ 1 \in 1 .. Len(toDesktop)
      BY <2>2, <1>2 DEF Lengths
    <3>2. r[n + 1] = toDesktop[1]
      BY <3>1, <1>1 DEF Aligned
    <3> QED BY <2>2, <3>1, <3>2, <1>3, <1>5
  <2> QED BY <2>1, <2>2 DEF Lengths
<1>10. \A j \in 1 .. Len(toDesktop') :
         r[Len(decrypting') + Len(toExtension') + j] = toDesktop'[j]
  <2> SUFFICES ASSUME NEW j \in 1 .. Len(toDesktop) - 1
               PROVE  r[(Len(decrypting) + (Len(toExtension) + 1)) + j] = toDesktop[j + 1]
    BY <1>2, <1>4, <1>6
  <2>1. /\ j + 1 \in 1 .. Len(toDesktop)
        /\ (Len(decrypting) + (Len(toExtension) + 1)) + j = n + (j + 1)
    BY DEF Lengths
  <2> QED BY <2>1, <1>1 DEF Aligned
<1>11. Aligned'
  BY <1>4, <1>8, <1>9, <1>10 DEF Aligned
<1> QED BY <1>1, <1>4, <1>7, <1>11 DEF InOrder

(* What the desktop loses when it closes was due to the end of the line.     *)
LEMMA DesktopCloseInOrder ==
  ASSUME TypeOK, InOrder, DesktopClose
  PROVE  InOrder'
<1> SUFFICES ASSUME isConnected, inTurn PROVE InOrder'
  BY DEF DesktopClose, InOrder
<1> Lengths
  BY LengthsAreNat
<1>1. Due <= Len(receiveResolvers) /\ Aligned
  BY DEF InOrder
<1>2. /\ Len(toDesktop') = 0 /\ Len(toExtension') = 0 /\ native' = "closing"
      /\ UNCHANGED <<decrypting, receiveResolvers>>
  BY EmptySeq DEF DesktopClose
<1>3. Due' <= Len(receiveResolvers')
  BY <1>1, <1>2 DEF Due, Lengths
<1>4. Aligned'
  BY <1>1, <1>2 DEF Aligned
<1> QED BY <1>2, <1>3, <1>4 DEF InOrder

OrderInv == InOrder /\ Counted

(* Every step keeps line, frames and requests aligned: what is added is      *)
(* added last to each, and what is taken is the first.                       *)
LEMMA OrderNext ==
  ASSUME TypeOK, OrderInv, [Next]_vars
  PROVE  OrderInv'
<1> USE DEF OrderInv
<1>1. Counted'
  BY CountedNext
<1>2. ASSUME NEW c \in Calls, SendRequestAndReceive(c) PROVE InOrder'
  BY <1>2 DEF SendRequestAndReceive, InOrder, Due, Aligned, desktopVars
<1>3. ASSUME NEW c \in Calls, SendEncrypted(c) PROVE InOrder'
  BY <1>3, SendInOrder
<1>4. ASSUME OnMessage PROVE InOrder'
  BY <1>4, OnMessageKeepsOrder
<1>5. ASSUME NEW i \in 1 .. Len(decrypting), HandleEncryptedMessage(i) PROVE InOrder'
  <2>1. CASE isConnected /\ inTurn'
    <3>1. inTurn
      BY <1>5, <2>1 DEF HandleEncryptedMessage
    <3> QED BY <1>5, <2>1, <3>1, DeliverInOrder
  <2>2. CASE ~(isConnected /\ inTurn')
    BY <1>5, <2>2 DEF HandleEncryptedMessage, InOrder
  <2> QED BY <2>1, <2>2
<1>6. ASSUME Disconnect PROVE InOrder'
  BY <1>6 DEF Disconnect, InOrder
<1>7. ASSUME OnClose PROVE InOrder'
  BY <1>7 DEF OnClose, InOrder
<1>8. ASSUME NEW kind \in FrameKinds, DesktopReply(kind) PROVE InOrder'
  BY <1>8, DesktopReplyInOrder
<1>9. ASSUME DesktopClose PROVE InOrder'
  BY <1>9, DesktopCloseInOrder
<1>10. ASSUME UNCHANGED vars PROVE InOrder'
  BY <1>10 DEF vars, desktopVars, InOrder, Due, Aligned
<1> QED BY <1>1, <1>2, <1>3, <1>4, <1>5, <1>6, <1>7, <1>8, <1>9, <1>10 DEF Next

(* At first there is nothing to align.                                       *)
LEMMA OrderInit == Init => OrderInv
<1> SUFFICES ASSUME Init PROVE OrderInv
  OBVIOUS
<1>1. /\ Len(decrypting) = 0 /\ Len(toExtension) = 0 /\ Len(toDesktop) = 0
      /\ Len(receiveResolvers) = 0 /\ messageQueue = <<>>
  BY EmptySeq DEF Init
<1> QED BY <1>1 DEF OrderInv, InOrder, Due, Aligned, Counted

(* The line, the frames and the desktop's requests stay aligned, as long as  *)
(* every frame is met in its turn.                                           *)
THEOREM LineIsInOrder == Spec => []InOrder
<1>1. TypeOK /\ OrderInv /\ [Next]_vars => OrderInv'
  BY OrderNext
<1>2. OrderInv => InOrder
  BY DEF OrderInv
<1> QED BY <1>1, <1>2, OrderInit, TypeCorrect, PTL DEF Spec
-----------------------------------------------------------------------------
(* On a connection that is gone nobody waits.                                *)
NobodyWhenClosed == ~isConnected => receiveResolvers = <<>>

(* The step that closes the connection empties the line, and none joins it   *)
(* afterwards.                                                               *)
LEMMA NobodyWhenClosedNext == NobodyWhenClosed /\ [Next]_vars => NobodyWhenClosed'
<1> SUFFICES ASSUME NobodyWhenClosed, [Next]_vars PROVE NobodyWhenClosed'
  OBVIOUS
<1> USE DEF NobodyWhenClosed
<1>1. ASSUME NEW c \in Calls, SendRequestAndReceive(c) PROVE NobodyWhenClosed'
  BY <1>1 DEF SendRequestAndReceive
<1>2. ASSUME NEW c \in Calls, SendEncrypted(c) PROVE NobodyWhenClosed'
  BY <1>2 DEF SendEncrypted
<1>3. ASSUME OnMessage PROVE NobodyWhenClosed'
  BY <1>3 DEF OnMessage, Deliver
<1>4. ASSUME NEW i \in 1 .. Len(decrypting), HandleEncryptedMessage(i)
      PROVE NobodyWhenClosed'
  BY <1>4 DEF HandleEncryptedMessage, Deliver
<1>5. ASSUME Disconnect \/ OnClose PROVE NobodyWhenClosed'
  BY <1>5 DEF Disconnect, OnClose, RejectAll
<1>6. ASSUME NEW kind \in FrameKinds, DesktopReply(kind) PROVE NobodyWhenClosed'
  BY <1>6 DEF DesktopReply
<1>7. ASSUME DesktopClose \/ UNCHANGED vars PROVE NobodyWhenClosed'
  BY <1>7 DEF DesktopClose, vars
<1> QED BY <1>1, <1>2, <1>3, <1>4, <1>5, <1>6, <1>7 DEF Next

(* What was out of turn once stays so.                                       *)
LEMMA TurnIsLost == TypeOK /\ [Next]_vars /\ inTurn' => inTurn
  BY DEF Next, vars, SendRequestAndReceive, SendEncrypted, OnMessage,
         HandleEncryptedMessage, Disconnect, OnClose, DesktopReply, DesktopClose, TypeOK

(* A frame that cannot be read answers nobody.                               *)
LEMMA UnreadableAnswersNobody ==
  ASSUME TypeOK, NEW f, f.kind # "good", Deliver(f)
  PROVE  /\ answer' = answer
         /\ \A c \in Calls : phase'[c] = "answered" => phase[c] = "answered"
<1> DEFINE d == Head(receiveResolvers)
<1>1. answer' = answer /\ (phase' = phase \/ phase' = [phase EXCEPT ![d] = "failed"])
  BY DEF Deliver
<1> HIDE DEF d
<1> QED BY <1>1 DEF TypeOK

(* An answer is only ever given by the oldest frame to the oldest call.      *)
LEMMA OwnAnswerNext ==
  ASSUME TypeOK, OrderInv, NobodyWhenClosed, OwnAnswer, [Next]_vars
  PROVE  OwnAnswer'
<1> SUFFICES ASSUME inTurn' PROVE OwnAnswer'
  BY DEF OwnAnswer
<1> inTurn /\ \A c \in Calls : phase[c] = "answered" => answer[c] = c
  BY TurnIsLost DEF OwnAnswer
<1> USE DEF OwnAnswer
<1>1. ASSUME NEW c \in Calls, SendRequestAndReceive(c) PROVE OwnAnswer'
  BY <1>1 DEF SendRequestAndReceive, TypeOK
<1>2. ASSUME NEW c \in Calls, SendEncrypted(c) PROVE OwnAnswer'
  BY <1>2 DEF SendEncrypted, Receive, OrderInv, Counted, TypeOK
<1>3. ASSUME NEW i \in 1 .. Len(decrypting), HandleEncryptedMessage(i) PROVE OwnAnswer'
  <2> DEFINE c == Head(receiveResolvers)
             f == decrypting[i]
  <2>1. Deliver(f)
    BY <1>3 DEF HandleEncryptedMessage
  <2>2. CASE receiveResolvers = <<>>
    BY <2>1, <2>2 DEF Deliver
  <2>3. CASE receiveResolvers # <<>>
    <3>1. i = 1 /\ 1 \in 1 .. Len(decrypting)
      BY <1>3 DEF HandleEncryptedMessage
    <3>2. isConnected /\ Aligned
      BY <2>3 DEF NobodyWhenClosed, OrderInv, InOrder
    <3>3. c = receiveResolvers[1] /\ c \in Calls
      BY <2>3, HeadTailProperties DEF TypeOK
    <3>4. f.call = c
      BY <3>1, <3>2, <3>3 DEF Aligned
    <3>5. \/ /\ phase' = [phase EXCEPT ![c] = "answered"]
             /\ answer' = [answer EXCEPT ![c] = f.call]
          \/ phase' = [phase EXCEPT ![c] = "failed"] /\ answer' = answer
      BY <2>1, <2>3 DEF Deliver
    <3> HIDE DEF c, f
    <3> QED BY <3>3, <3>4, <3>5 DEF TypeOK
  <2> QED BY <2>2, <2>3
<1>4. ASSUME Disconnect \/ OnClose PROVE OwnAnswer'
  BY <1>4 DEF Disconnect, OnClose, RejectAll, TypeOK
<1>5. ASSUME OnMessage PROVE OwnAnswer'
  <2>1. CASE UNCHANGED <<phase, answer>>
    BY <2>1
  <2>2. CASE Head(toExtension).kind = "truncated" /\ Deliver(Head(toExtension))
    BY <2>2, UnreadableAnswersNobody
  <2> QED BY <1>5, <2>1, <2>2 DEF OnMessage
<1>6. ASSUME UNCHANGED <<phase, answer>> PROVE OwnAnswer'
  BY <1>6
<1>7. \/ \E c \in Calls : SendRequestAndReceive(c) \/ SendEncrypted(c)
      \/ \E i \in 1 .. Len(decrypting) : HandleEncryptedMessage(i)
      \/ OnMessage \/ Disconnect \/ OnClose
      \/ UNCHANGED <<phase, answer>>
  BY DEF Next, vars, DesktopReply, DesktopClose
<1> QED BY <1>1, <1>2, <1>3, <1>4, <1>5, <1>6, <1>7

(* Calls get their own answers although no id is compared, for as long as    *)
(* the browser ends decrypt jobs in the order they began and no frame is     *)
(* dropped or fails ahead of those that came before it.                      *)
THEOREM AnswersAreOwn == Spec => []OwnAnswer
<1>1. TypeOK /\ OrderInv /\ [Next]_vars => OrderInv'
  BY OrderNext
<1>2. TypeOK /\ OrderInv /\ NobodyWhenClosed /\ OwnAnswer /\ [Next]_vars => OwnAnswer'
  BY OwnAnswerNext
<1>3. Init => NobodyWhenClosed /\ OwnAnswer
  BY DEF Init, NobodyWhenClosed, OwnAnswer
<1> QED BY <1>1, <1>2, <1>3, OrderInit, NobodyWhenClosedNext, TypeCorrect, PTL DEF Spec
-----------------------------------------------------------------------------
(* Why no response is given twice: a call is in one place at a time of those *)
(* its response passes through. The entries of a sequence are told apart by  *)
(* a key, the call they belong to.                                           *)
USE DEF FrameKinds
HIDE DEF Phases, Frame

CallOf == [f \in Frame |-> f.call]

Itself == [c \in Calls |-> c]

KeySet(s, key) == {key[s[i]] : i \in 1 .. Len(s)}

OnePlace(s, key) == \A i, j \in 1 .. Len(s) : key[s[i]] = key[s[j]] => i = j

(* An entry with a new key keeps the keys apart.                             *)
LEMMA AppendOnePlace ==
  ASSUME NEW S, NEW s \in Seq(S), NEW e \in S, NEW key,
         OnePlace(s, key), key[e] \notin KeySet(s, key)
  PROVE  /\ OnePlace(Append(s, e), key)
         /\ KeySet(Append(s, e), key) = KeySet(s, key) \cup {key[e]}
<1>1. /\ Len(s) \in Nat /\ Len(Append(s, e)) = Len(s) + 1
      /\ \A i \in 1 .. Len(s) : Append(s, e)[i] = s[i]
      /\ Append(s, e)[Len(s) + 1] = e
  BY LenProperties, AppendProperties
<1>2. /\ \A i \in 1 .. Len(s) + 1 : i \in 1 .. Len(s) \/ i = Len(s) + 1
      /\ \A i \in 1 .. Len(s) : i \in 1 .. Len(s) + 1
      /\ Len(s) + 1 \in 1 .. Len(s) + 1
  BY <1>1
<1>3. \A i \in 1 .. Len(s) : key[s[i]] # key[e]
  BY DEF KeySet
<1>4. OnePlace(Append(s, e), key)
  BY <1>1, <1>2, <1>3 DEF OnePlace
<1>5. KeySet(Append(s, e), key) = KeySet(s, key) \cup {key[e]}
  BY <1>1, <1>2 DEF KeySet
<1> QED BY <1>4, <1>5

(* t is s without its i-th entry.                                            *)
Without(t, s, i) ==
  /\ Len(t) = Len(s) - 1
  /\ \A j \in 1 .. Len(s) - 1 : t[j] = IF j < i THEN s[j] ELSE s[j + 1]

(* A sequence without one of its entries loses the key of it and no other.   *)
LEMMA WithoutOnePlace ==
  ASSUME NEW S, NEW s \in Seq(S), NEW t \in Seq(S), NEW i \in 1 .. Len(s), NEW key,
         OnePlace(s, key), Without(t, s, i)
  PROVE  OnePlace(t, key) /\ KeySet(t, key) = KeySet(s, key) \ {key[s[i]]}
<1> DEFINE From(j) == IF j < i THEN j ELSE j + 1
<1>1. Len(s) \in Nat /\ i \in Nat
  BY LenProperties
<1>2. \A j \in 1 .. Len(t) : From(j) \in 1 .. Len(s) /\ From(j) # i /\ t[j] = s[From(j)]
  BY <1>1 DEF Without
<1>3. \A j, k \in 1 .. Len(t) : From(j) = From(k) => j = k
  BY <1>1 DEF Without
<1>4. ASSUME NEW k \in 1 .. Len(s), k # i
      PROVE  \E j \in 1 .. Len(t) : From(j) = k
  <2>1. CASE k < i
    <3>1. k \in 1 .. Len(t) /\ From(k) = k
      BY <1>1, <2>1 DEF Without
    <3> QED BY <3>1
  <2>2. CASE k > i
    <3>1. k - 1 \in 1 .. Len(t) /\ From(k - 1) = k
      BY <1>1, <2>2 DEF Without
    <3> QED BY <3>1
  <2> QED BY <1>1, <1>4, <2>1, <2>2
<1> HIDE DEF From
<1>5. OnePlace(t, key)
  <2> SUFFICES ASSUME NEW j \in 1 .. Len(t), NEW k \in 1 .. Len(t), key[t[j]] = key[t[k]]
               PROVE  j = k
    BY DEF OnePlace
  <2>1. /\ From(j) \in 1 .. Len(s) /\ From(k) \in 1 .. Len(s)
        /\ key[s[From(j)]] = key[s[From(k)]]
    BY <1>2
  <2>2. From(j) = From(k)
    BY <2>1 DEF OnePlace
  <2> QED BY <1>3, <2>2
<1>6. ASSUME NEW j \in 1 .. Len(t) PROVE key[t[j]] \in KeySet(s, key) \ {key[s[i]]}
  BY <1>2 DEF OnePlace, KeySet
<1>7. ASSUME NEW k \in 1 .. Len(s), key[s[k]] # key[s[i]]
      PROVE  key[s[k]] \in KeySet(t, key)
  <2>1. PICK j \in 1 .. Len(t) : From(j) = k
    BY <1>4, <1>7
  <2> QED BY <1>2, <2>1 DEF KeySet
<1>8. KeySet(t, key) \subseteq KeySet(s, key) \ {key[s[i]]}
  BY <1>6 DEF KeySet
<1>9. KeySet(s, key) \ {key[s[i]]} \subseteq KeySet(t, key)
  BY <1>7 DEF KeySet
<1> QED BY <1>5, <1>8, <1>9

(* So does one without its head.                                             *)
LEMMA TailOnePlace ==
  ASSUME NEW S, NEW s \in Seq(S), s # <<>>, NEW key, OnePlace(s, key)
  PROVE  /\ OnePlace(Tail(s), key) /\ Head(s) \in S
         /\ key[Head(s)] \in KeySet(s, key)
         /\ KeySet(Tail(s), key) = KeySet(s, key) \ {key[Head(s)]}
<1> DEFINE t == Tail(s)
<1>1. /\ Head(s) = s[1] /\ Head(s) \in S /\ t \in Seq(S) /\ Len(t) = Len(s) - 1
      /\ \A j \in 1 .. Len(s) - 1 : t[j] = s[j + 1]
      /\ Len(s) \in Nat /\ Len(s) >= 1
  BY HeadTailProperties, LenProperties, TailIsShorter
<1> HIDE DEF t
<1>2. 1 \in 1 .. Len(s)
  BY <1>1
<1>3. Without(t, s, 1) /\ t \in Seq(S)
  BY <1>1 DEF Without
<1>4. OnePlace(t, key) /\ KeySet(t, key) = KeySet(s, key) \ {key[s[1]]}
  BY <1>2, <1>3, WithoutOnePlace
<1>5. key[Head(s)] \in KeySet(s, key) /\ Head(s) = s[1] /\ Head(s) \in S
  BY <1>1, <1>2 DEF KeySet
<1> QED BY <1>4, <1>5 DEF t

(* The empty sequence has no key.                                            *)
LEMMA EmptyOnePlace ==
  ASSUME NEW key
  PROVE  OnePlace(<<>>, key) /\ KeySet(<<>>, key) = {}
  BY EmptySeq DEF OnePlace, KeySet

(* The calls whose responses are asked of the desktop, on their way back,    *)
(* being decrypted, given; and the calls that have sent their request.       *)
Asked == KeySet(toDesktop, Itself)
OnWay == KeySet(toExtension, CallOf)
Read == KeySet(decrypting, CallOf)
Given == {answer[c] : c \in {d \in Calls : phase[d] = "answered"}}
Begun == {c \in Calls : phase[c] \notin {"idle", "encrypting"}}

OneEach ==
  /\ OnePlace(toDesktop, Itself)
  /\ OnePlace(toExtension, CallOf)
  /\ OnePlace(decrypting, CallOf)

Apart ==
  /\ Asked \cap OnWay = {} /\ Asked \cap Read = {} /\ OnWay \cap Read = {}
  /\ Given \cap (Asked \cup OnWay \cup Read) = {}
  /\ Asked \cup OnWay \cup Read \cup Given \subseteq Begun

OnceInv == OneEach /\ Apart /\ NoSharedAnswer

(* No call is answered or comes before its request again.                    *)
LEMMA OthersGiveNothing ==
  ASSUME TypeOK, NoSharedAnswer, answer' = answer,
         \A c \in Calls : /\ phase'[c] = "answered" <=> phase[c] = "answered"
                          /\ c \in Begun => c \in Begun'
  PROVE  Given' = Given /\ Begun \subseteq Begun' /\ NoSharedAnswer'
<1>1. Given' = Given
  BY DEF Given
<1>2. Begun \subseteq Begun'
  BY DEF Begun
<1>3. NoSharedAnswer'
  BY DEF NoSharedAnswer
<1> QED BY <1>1, <1>2, <1>3

(* A call that sends is new to every place: it had not begun.                *)
LEMMA SendOnce ==
  ASSUME TypeOK, OnceInv, Counted, NEW c \in Calls, SendEncrypted(c)
  PROVE  OnceInv'
<1>1. /\ phase[c] = "encrypting" /\ answer' = answer
      /\ \/ phase' = [phase EXCEPT ![c] = "awaiting"]
         \/ phase' = [phase EXCEPT ![c] = "failed"]
      /\ UNCHANGED <<toExtension, decrypting>>
      /\ toDesktop' = toDesktop \/ toDesktop' = Append(toDesktop, c)
  BY DEF SendEncrypted, Receive, Counted
<1>2. Given' = Given /\ Begun \subseteq Begun' /\ NoSharedAnswer' /\ c \in Begun'
      /\ c \notin Begun
  BY <1>1, OthersGiveNothing DEF OnceInv, TypeOK, Begun
<1>3. OnWay' = OnWay /\ Read' = Read
  BY <1>1 DEF OnWay, Read
<1>4. OnePlace(toDesktop, Itself)' /\ (Asked' = Asked \/ Asked' = Asked \cup {c})
  <2>1. CASE toDesktop' = toDesktop
    BY <2>1 DEF OnceInv, OneEach, Asked
  <2>2. CASE toDesktop' = Append(toDesktop, c)
    <3>1. Itself[c] = c /\ c \notin Asked
      BY <1>2 DEF Itself, OnceInv, Apart
    <3>2. /\ OnePlace(Append(toDesktop, c), Itself)
          /\ KeySet(Append(toDesktop, c), Itself) = Asked \cup {c}
      BY <3>1, AppendOnePlace DEF OnceInv, OneEach, TypeOK, Asked
    <3> QED BY <2>2, <3>2 DEF Asked
  <2> QED BY <1>1, <2>1, <2>2
<1>5. OneEach'
  BY <1>1, <1>4 DEF OnceInv, OneEach
<1>6. Apart'
  BY <1>2, <1>3, <1>4 DEF OnceInv, Apart
<1> QED BY <1>2, <1>5, <1>6 DEF OnceInv

(* Failing the head of the line gives no answer to anybody.                  *)
LEMMA UnreadableGivesNothing ==
  ASSUME TypeOK, NobodyForgotten, NoSharedAnswer, NEW f, f.kind # "good", Deliver(f)
  PROVE  Given' = Given /\ Begun \subseteq Begun' /\ NoSharedAnswer'
<1> DEFINE c == Head(receiveResolvers)
<1>1. answer' = answer
  BY DEF Deliver
<1>2. \/ phase' = phase
      \/ c \in Calls /\ phase[c] = "awaiting" /\ phase' = [phase EXCEPT ![c] = "failed"]
  <2>1. CASE receiveResolvers = <<>>
    BY <2>1 DEF Deliver
  <2>2. CASE receiveResolvers # <<>>
    <3>1. c \in Calls /\ c = receiveResolvers[1] /\ 1 \in 1 .. Len(receiveResolvers)
      BY <2>2, HeadTailProperties, TailIsShorter, LenProperties DEF TypeOK
    <3>2. phase[c] = "awaiting"
      BY <3>1 DEF NobodyForgotten, Contains
    <3> QED BY <2>2, <3>1, <3>2 DEF Deliver
  <2> QED BY <2>1, <2>2
<1> HIDE DEF c
<1> QED BY <1>1, <1>2, OthersGiveNothing DEF TypeOK, Begun

(* A frame that arrives takes its call from the way to the decrypt jobs, or  *)
(* is dropped, or fails at once.                                             *)
LEMMA OnMessageOnce ==
  ASSUME TypeOK, NobodyForgotten, OnceInv, OnMessage
  PROVE  OnceInv'
<1> DEFINE f == Head(toExtension)
<1>1. /\ OnePlace(toExtension, CallOf)' /\ f \in Frame /\ CallOf[f] \in OnWay
      /\ OnWay' = OnWay \ {CallOf[f]}
  BY TailOnePlace DEF OnMessage, OnceInv, OneEach, TypeOK, OnWay
<1>2. toDesktop' = toDesktop
  BY DEF OnMessage
<1>3. Asked' = Asked /\ Given' = Given /\ Begun \subseteq Begun' /\ NoSharedAnswer'
  <2>1. CASE UNCHANGED <<phase, answer>>
    BY <1>2, <2>1 DEF Asked, Given, Begun, NoSharedAnswer, OnceInv
  <2>2. CASE f.kind = "truncated" /\ Deliver(f)
    BY <1>2, <2>2, UnreadableGivesNothing DEF Asked, OnceInv
  <2> QED BY <2>1, <2>2 DEF OnMessage
<1>4. OnePlace(decrypting, CallOf)' /\ (Read' = Read \/ Read' = Read \cup {CallOf[f]})
  <2>1. CASE decrypting' = decrypting
    BY <2>1 DEF OnceInv, OneEach, Read
  <2>2. CASE decrypting' = Append(decrypting, f)
    <3>1. CallOf[f] \notin Read
      BY <1>1 DEF OnceInv, Apart
    <3>2. decrypting \in Seq(Frame) /\ OnePlace(decrypting, CallOf)
      BY DEF TypeOK, OnceInv, OneEach
    <3>3. /\ OnePlace(Append(decrypting, f), CallOf)
          /\ KeySet(Append(decrypting, f), CallOf) = Read \cup {CallOf[f]}
      BY <1>1, <3>1, <3>2, AppendOnePlace DEF Read
    <3> QED BY <2>2, <3>3 DEF Read
  <2> QED BY <2>1, <2>2 DEF OnMessage
<1>5. OneEach'
  BY <1>1, <1>2, <1>4 DEF OnceInv, OneEach
<1> HIDE DEF f
<1>6. Apart'
  BY <1>1, <1>3, <1>4 DEF OnceInv, Apart
<1> QED BY <1>3, <1>5, <1>6 DEF OnceInv

(* The answer of the desktop takes its call from the requests to the way.    *)
LEMMA DesktopReplyOnce ==
  ASSUME TypeOK, OnceInv, NEW kind \in FrameKinds, DesktopReply(kind)
  PROVE  OnceInv'
<1> DEFINE c == Head(toDesktop)
           f == [call |-> c, kind |-> kind]
<1>1. /\ OnePlace(toDesktop, Itself)' /\ c \in Calls /\ Itself[c] \in Asked
      /\ Asked' = Asked \ {Itself[c]}
  BY TailOnePlace DEF DesktopReply, OnceInv, OneEach, TypeOK, Asked
<1>2. f \in Frame /\ CallOf[f] = c /\ Itself[c] = c
  BY <1>1 DEF CallOf, Itself, Frame
<1>3. UNCHANGED <<decrypting, phase, answer>>
  BY DEF DesktopReply
<1>4. Read' = Read /\ Given' = Given /\ Begun' = Begun /\ NoSharedAnswer'
  BY <1>3 DEF Read, Given, Begun, NoSharedAnswer, OnceInv
<1>5. OnePlace(toExtension, CallOf)' /\ OnWay' = OnWay \cup {c}
  <2>1. CallOf[f] \notin OnWay
    BY <1>1, <1>2 DEF OnceInv, Apart
  <2>2. toExtension \in Seq(Frame) /\ OnePlace(toExtension, CallOf)
    BY DEF TypeOK, OnceInv, OneEach
  <2>3. /\ OnePlace(Append(toExtension, f), CallOf)
        /\ KeySet(Append(toExtension, f), CallOf) = OnWay \cup {CallOf[f]}
    BY <1>2, <2>1, <2>2, AppendOnePlace DEF OnWay
  <2> QED BY <1>2, <2>3 DEF DesktopReply, OnWay
<1> HIDE DEF c, f
<1>6. OneEach'
  BY <1>1, <1>3, <1>5 DEF OnceInv, OneEach
<1>7. Apart'
  BY <1>1, <1>2, <1>4, <1>5 DEF OnceInv, Apart
<1> QED BY <1>4, <1>6, <1>7 DEF OnceInv

(* A decrypt job that ends gives its response to the head of the line, which *)
(* was not answered before, or to nobody.                                    *)
LEMMA DecryptedOnce ==
  ASSUME TypeOK, OnceInv, NobodyForgotten,
         NEW i \in 1 .. Len(decrypting), HandleEncryptedMessage(i)
  PROVE  OnceInv'
<1> DEFINE f == decrypting[i]
           d == CallOf[f]
           c == Head(receiveResolvers)
<1>1. f \in Frame /\ d = f.call /\ d \in Read
  BY ElementOfSeq DEF TypeOK, CallOf, Read, KeySet
<1>2. OnePlace(decrypting, CallOf)' /\ Read' = Read \ {d}
  <2>1. /\ RemoveAt(decrypting, i) \in Seq(Frame)
        /\ Without(RemoveAt(decrypting, i), decrypting, i)
    BY RemoveAtType DEF TypeOK, Without
  <2>2. decrypting \in Seq(Frame) /\ OnePlace(decrypting, CallOf)
    BY DEF TypeOK, OnceInv, OneEach
  <2>3. /\ OnePlace(RemoveAt(decrypting, i), CallOf)
        /\ KeySet(RemoveAt(decrypting, i), CallOf) = KeySet(decrypting, CallOf) \ {d}
    BY <2>1, <2>2, WithoutOnePlace
  <2> QED BY <2>3 DEF HandleEncryptedMessage, Read
<1>3. UNCHANGED <<toDesktop, toExtension>> /\ Deliver(f)
  BY DEF HandleEncryptedMessage, desktopVars
<1>4. Asked' = Asked /\ OnWay' = OnWay /\ OneEach'
  BY <1>2, <1>3 DEF Asked, OnWay, OneEach, OnceInv
<1>5. CASE receiveResolvers # <<>> /\ f.kind = "good"
  <2>1. c \in Calls /\ phase[c] = "awaiting"
    <3>1. c \in Calls /\ c = receiveResolvers[1] /\ 1 \in 1 .. Len(receiveResolvers)
      BY <1>5, HeadTailProperties, TailIsShorter, LenProperties DEF TypeOK
    <3> QED BY <3>1 DEF NobodyForgotten, Contains
  <2>2. /\ phase' = [phase EXCEPT ![c] = "answered"]
        /\ answer' = [answer EXCEPT ![c] = d]
    BY <1>1, <1>3, <1>5 DEF Deliver
  <2> HIDE DEF c, d
  <2>3. \A e \in Calls : /\ phase'[e] = IF e = c THEN "answered" ELSE phase[e]
                         /\ answer'[e] = IF e = c THEN d ELSE answer[e]
    BY <2>1, <2>2 DEF TypeOK
  <2>4. Given' = Given \cup {d} /\ Begun' = Begun
    BY <2>1, <2>3 DEF Given, Begun
  <2>5. d \notin Given
    BY <1>1 DEF OnceInv, Apart
  <2>6. NoSharedAnswer'
    BY <2>1, <2>3, <2>5 DEF Given, NoSharedAnswer, OnceInv
  <2>7. Apart'
    BY <1>1, <1>2, <1>4, <2>4 DEF OnceInv, Apart
  <2> QED BY <1>4, <2>6, <2>7 DEF OnceInv
<1>6. CASE receiveResolvers = <<>>
  <2>1. UNCHANGED <<phase, answer>>
    BY <1>3, <1>6 DEF Deliver
  <2>2. Given' = Given /\ Begun' = Begun /\ NoSharedAnswer'
    BY <2>1 DEF Given, Begun, NoSharedAnswer, OnceInv
  <2> HIDE DEF c, d
  <2> QED BY <1>2, <1>4, <2>2 DEF OnceInv, Apart
<1>7. CASE f.kind # "good"
  <2>1. Given' = Given /\ Begun \subseteq Begun' /\ NoSharedAnswer'
    BY <1>3, <1>7, UnreadableGivesNothing DEF OnceInv
  <2> HIDE DEF c, d
  <2> QED BY <1>2, <1>4, <2>1 DEF OnceInv, Apart
<1> QED BY <1>5, <1>6, <1>7

(* Every step keeps each response in one place.                              *)
LEMMA OnceNext ==
  TypeOK /\ NobodyForgotten /\ Counted /\ OnceInv /\ [Next]_vars => OnceInv'
<1> SUFFICES ASSUME TypeOK, NobodyForgotten, Counted, OnceInv, [Next]_vars
             PROVE  OnceInv'
  OBVIOUS
<1>1. ASSUME NEW c \in Calls, SendRequestAndReceive(c) PROVE OnceInv'
  <2>1. Given' = Given /\ Begun \subseteq Begun' /\ NoSharedAnswer'
    BY <1>1, OthersGiveNothing DEF SendRequestAndReceive, OnceInv, TypeOK, Begun
  <2>2. UNCHANGED <<toDesktop, toExtension, decrypting>>
    BY <1>1 DEF SendRequestAndReceive, desktopVars
  <2>3. OneEach' /\ Asked' = Asked /\ OnWay' = OnWay /\ Read' = Read
    BY <2>2 DEF OnceInv, OneEach, Asked, OnWay, Read
  <2> QED BY <2>1, <2>3 DEF OnceInv, Apart
<1>2. ASSUME NEW c \in Calls, SendEncrypted(c) PROVE OnceInv'
  BY <1>2, SendOnce
<1>3. ASSUME OnMessage PROVE OnceInv'
  BY <1>3, OnMessageOnce
<1>4. ASSUME NEW i \in 1 .. Len(decrypting), HandleEncryptedMessage(i) PROVE OnceInv'
  BY <1>4, DecryptedOnce
<1>5. ASSUME Disconnect \/ OnClose PROVE OnceInv'
  <2>1. answer' = answer /\ RejectAll /\ decrypting' = decrypting
    BY <1>5 DEF Disconnect, OnClose
  <2>2. Given' = Given /\ Begun \subseteq Begun' /\ NoSharedAnswer'
    BY <2>1, OthersGiveNothing DEF RejectAll, NobodyForgotten, OnceInv, TypeOK, Begun
  <2>3. \/ UNCHANGED <<toDesktop, toExtension>>
        \/ toDesktop' = <<>> /\ toExtension' = <<>>
    BY <1>5 DEF Disconnect, OnClose, desktopVars
  <2>4. /\ OneEach' /\ Read' = Read
        /\ (Asked' = Asked /\ OnWay' = OnWay) \/ (Asked' = {} /\ OnWay' = {})
    BY <2>1, <2>3, EmptyOnePlace DEF OnceInv, OneEach, Asked, OnWay, Read
  <2> QED BY <2>2, <2>4 DEF OnceInv, Apart
<1>6. ASSUME NEW kind \in FrameKinds, DesktopReply(kind) PROVE OnceInv'
  BY <1>6, DesktopReplyOnce
<1>7. ASSUME DesktopClose PROVE OnceInv'
  <2>1. /\ UNCHANGED <<phase, answer, decrypting>>
        /\ toDesktop' = <<>> /\ toExtension' = <<>>
    BY <1>7 DEF DesktopClose
  <2>2. OneEach' /\ Asked' = {} /\ OnWay' = {}
    BY <2>1, EmptyOnePlace DEF OnceInv, OneEach, Asked, OnWay
  <2>3. Read' = Read /\ Given' = Given /\ Begun' = Begun /\ NoSharedAnswer'
    BY <2>1 DEF Read, Given, Begun, NoSharedAnswer, OnceInv
  <2> QED BY <2>2, <2>3 DEF OnceInv, Apart
<1>8. ASSUME UNCHANGED vars PROVE OnceInv'
  BY <1>8 DEF vars, desktopVars, OnceInv, OneEach, Apart, NoSharedAnswer, Asked, OnWay,
              Read, Given, Begun
<1> QED BY <1>1, <1>2, <1>3, <1>4, <1>5, <1>6, <1>7, <1>8 DEF Next

(* No response is given to two calls, in whatever order the decrypt jobs end *)
(* and whatever frames are damaged or dropped.                               *)
THEOREM NobodySharesAnAnswer == Spec => []NoSharedAnswer
<1>1. Init => OnceInv
  <2> SUFFICES ASSUME Init PROVE OnceInv
    OBVIOUS
  <2>1. /\ toDesktop = <<>> /\ toExtension = <<>> /\ decrypting = <<>>
        /\ \A c \in Calls : phase[c] = "idle"
    BY DEF Init
  <2>2. OneEach /\ Asked = {} /\ OnWay = {} /\ Read = {}
    BY <2>1, EmptyOnePlace DEF OneEach, Asked, OnWay, Read
  <2>3. Given = {} /\ NoSharedAnswer
    BY <2>1 DEF Given, NoSharedAnswer
  <2> QED BY <2>2, <2>3 DEF OnceInv, Apart
<1>2. OnceInv => NoSharedAnswer
  BY DEF OnceInv
<1>3. Init => Counted
  BY EmptySeq DEF Init, Counted, Due
<1> QED BY <1>1, <1>2, <1>3, OnceNext, CountedNext, NobodyIsForgotten, TypeCorrect, PTL
        DEF Spec
-----------------------------------------------------------------------------
(* Why the socket implements RequestReply: what a caller sees of each step.  *)
Seen == [c \in Calls |-> Outcome(c)]

Promise == TypeOK /\ NobodyForgotten /\ Counted

(* What a step may do to the faults of the channel: it repairs none.         *)
Faults == (inTurn' => inTurn) /\ (dropped' = 0 => dropped = 0)

(* No step takes inTurn back to TRUE, or the number of dropped frames to 0.  *)
LEMMA FaultsNext == TypeOK /\ [Next]_vars => Faults
<1> SUFFICES ASSUME TypeOK, [Next]_vars PROVE Faults
  OBVIOUS
<1>1. dropped \in 0 .. MaxDropped
  BY DEF TypeOK
<1>2. dropped' = dropped \/ dropped' = dropped + 1
  BY DEF Next, vars, desktopVars, damage, SendRequestAndReceive, SendEncrypted,
         OnMessage, HandleEncryptedMessage, Disconnect, OnClose, DesktopReply,
         DesktopClose
<1>3. dropped' = 0 => dropped = 0
  BY <1>1, <1>2, ConstantsAssumption
<1> QED BY <1>3, TurnIsLost DEF Faults

(* A step that callers do not see: phases move within the wait, or none does.*)
LEMMA SeenSame ==
  ASSUME Faults, answer' = answer,
         \A c \in Calls : \/ phase'[c] = phase[c]
                          \/ phase[c] = "encrypting" /\ phase'[c] = "awaiting"
  PROVE  RR!Next
<1>1. Seen' = Seen
  BY DEF Seen, Outcome
<1> QED BY <1>1 DEF Seen, Faults, RR!Next, RR!FaultsStay

(* Calls that wait or encrypt may fail, any number at once.                  *)
LEMMA SeenFail ==
  ASSUME Faults, answer' = answer, NEW S \in SUBSET Calls,
         \A c \in Calls : IF c \in S
                         THEN /\ phase[c] \in {"encrypting", "awaiting"}
                              /\ phase'[c] = "failed"
                         ELSE phase'[c] = phase[c]
  PROVE  RR!Next
<1>1. CASE S = {}
  BY <1>1, SeenSame
<1>2. CASE S # {}
  <2>1. \A c \in S : Seen[c] = "waiting"
    BY DEF Seen, Outcome
  <2>2. Seen' = [c \in Calls |-> IF c \in S THEN "failed" ELSE Seen[c]]
    BY DEF Seen, Outcome
  <2>3. RR!Fail(S)
    BY <1>2, <2>1, <2>2 DEF RR!Fail, Seen
  <2> QED BY <2>3 DEF RR!Next, RR!FaultsStay, Faults
<1> QED BY <1>1, <1>2

(* A call starts, or fails at once when the connection is gone.              *)
LEMMA SendSeen ==
  ASSUME Promise, Faults, NEW c \in Calls, SendRequestAndReceive(c)
  PROVE  RR!Next
<1>1. /\ phase[c] = "idle" /\ answer' = answer
      /\ phase' = [phase EXCEPT ![c] = IF isConnected THEN "encrypting" ELSE "failed"]
      /\ phase \in [Calls -> Phases]
  BY DEF SendRequestAndReceive, Promise, TypeOK
<1>2. Seen[c] = "idle"
  BY <1>1 DEF Seen, Outcome
<1>3. CASE isConnected
  <2>1. Seen' = [Seen EXCEPT ![c] = "waiting"]
    BY <1>1, <1>3 DEF Seen, Outcome
  <2>2. RR!Ask(c)
    BY <1>1, <1>2, <2>1 DEF RR!Ask, Seen
  <2> QED BY <2>2 DEF RR!Next, RR!FaultsStay, Faults
<1>4. CASE ~isConnected
  <2>1. Seen' = [Seen EXCEPT ![c] = "failed"]
    BY <1>1, <1>4 DEF Seen, Outcome
  <2>2. RR!Refuse(c)
    BY <1>1, <1>2, <2>1 DEF RR!Refuse, Seen
  <2> QED BY <2>2 DEF RR!Next, RR!FaultsStay, Faults
<1> QED BY <1>3, <1>4

(* An encrypted request goes out or its call fails.                          *)
LEMMA SendEncryptedSeen ==
  ASSUME Promise, Faults, NEW c \in Calls, SendEncrypted(c)
  PROVE  RR!Next
<1>1. /\ phase[c] = "encrypting" /\ answer' = answer /\ phase \in [Calls -> Phases]
      /\ \/ phase' = [phase EXCEPT ![c] = "awaiting"]
         \/ phase' = [phase EXCEPT ![c] = "failed"]
  BY DEF SendEncrypted, Receive, Promise, Counted, TypeOK
<1>2. CASE phase' = [phase EXCEPT ![c] = "awaiting"]
  BY <1>1, <1>2, SeenSame
<1>3. CASE phase' = [phase EXCEPT ![c] = "failed"]
  <2>1. {c} \in SUBSET Calls
    OBVIOUS
  <2> QED BY <1>1, <1>3, <2>1, SeenFail
<1> QED BY <1>1, <1>2, <1>3

(* A response is delivered: the abstract channel gives the call an answer    *)
(* that nobody was given, its own while every frame was met in its turn.     *)
LEMMA DeliverSeen ==
  ASSUME Promise, Faults, OwnAnswer', NoSharedAnswer', NEW f, Deliver(f),
         f.kind = "good" => f.call \in Calls
  PROVE  RR!Next
<1> DEFINE c == Head(receiveResolvers)
<1>1. CASE receiveResolvers = <<>>
  BY <1>1, SeenSame DEF Deliver
<1>2. CASE receiveResolvers # <<>>
  <2>1. c \in Calls /\ phase[c] = "awaiting"
    <3>1. c \in Calls /\ c = receiveResolvers[1] /\ 1 \in 1 .. Len(receiveResolvers)
      BY <1>2, HeadTailProperties, TailIsShorter, LenProperties DEF Promise, TypeOK
    <3> QED BY <3>1 DEF Promise, NobodyForgotten, Contains
  <2>2. phase \in [Calls -> Phases] /\ answer \in [Calls -> Calls \cup {NoAnswer}]
    BY DEF Promise, TypeOK
  <2>3. CASE f.kind = "good"
    <3> DEFINE d == f.call
    <3>1. /\ phase' = [phase EXCEPT ![c] = "answered"]
          /\ answer' = [answer EXCEPT ![c] = d] /\ d \in Calls
      BY <1>2, <2>3 DEF Deliver
    <3> HIDE DEF c, d
    <3>2. inTurn' => d = c
      BY <2>1, <2>2, <3>1 DEF OwnAnswer
    <3>3. Seen[c] = "waiting" /\ Seen' = [Seen EXCEPT ![c] = "answered"]
      BY <2>1, <2>2, <3>1 DEF Seen, Outcome
    <3>4. \A e \in Calls : Seen[e] = "answered" => answer[e] # d
      <4> SUFFICES ASSUME NEW e \in Calls, Seen[e] = "answered" PROVE answer[e] # d
        OBVIOUS
      <4>1. phase[e] = "answered" /\ e # c
        BY <2>1 DEF Seen, Outcome
      <4>2. /\ phase'[e] = "answered" /\ phase'[c] = "answered"
            /\ answer'[e] = answer[e] /\ answer'[c] = d
        BY <2>1, <2>2, <3>1, <4>1
      <4> QED BY <2>1, <4>1, <4>2 DEF NoSharedAnswer
    <3>5. d \in Calls \ RR!Given
      BY <3>1, <3>4 DEF RR!Given, Seen
    <3>6. RR!Answer(c)
      BY <3>1, <3>2, <3>3, <3>5 DEF RR!Answer, Seen
    <3> QED BY <2>1, <3>6 DEF RR!Next, RR!FaultsStay, Faults
  <2>4. CASE f.kind # "good"
    <3>1. phase' = [phase EXCEPT ![c] = "failed"] /\ answer' = answer
      BY <1>2, <2>4 DEF Deliver
    <3> HIDE DEF c
    <3>2. {c} \in SUBSET Calls
      BY <2>1
    <3> QED BY <2>1, <2>2, <3>1, <3>2, SeenFail
  <2> QED BY <2>3, <2>4
<1> QED BY <1>1, <1>2

(* Every step is one of the abstract channel, or none that callers see.      *)
LEMMA StepSeen ==
  ASSUME Promise, Faults, OwnAnswer', NoSharedAnswer', [Next]_vars
  PROVE  RR!Next
<1>1. ASSUME NEW c \in Calls, SendRequestAndReceive(c) PROVE RR!Next
  BY <1>1, SendSeen
<1>2. ASSUME NEW c \in Calls, SendEncrypted(c) PROVE RR!Next
  BY <1>2, SendEncryptedSeen
<1>3. ASSUME NEW i \in 1 .. Len(decrypting), HandleEncryptedMessage(i)
      PROVE  RR!Next
  <2>1. decrypting[i] \in Frame
    BY ElementOfSeq DEF Promise, TypeOK
  <2>2. decrypting[i].call \in Calls
    BY <2>1 DEF Frame
  <2> QED BY <1>3, <2>2, DeliverSeen DEF HandleEncryptedMessage
<1>4. ASSUME Disconnect \/ OnClose PROVE RR!Next
  <2> DEFINE S == {c \in Calls : Contains(receiveResolvers, c)}
  <2>1. /\ answer' = answer /\ S \in SUBSET Calls
        /\ phase' = [c \in Calls |-> IF Contains(receiveResolvers, c) THEN "failed"
                                     ELSE phase[c]]
    BY <1>4 DEF Disconnect, OnClose, RejectAll
  <2>2. \A c \in Calls : IF c \in S THEN phase[c] = "awaiting" /\ phase'[c] = "failed"
                         ELSE phase'[c] = phase[c]
    BY <2>1 DEF Promise, NobodyForgotten
  <2> HIDE DEF S
  <2> QED BY <2>1, <2>2, SeenFail
<1>5. ASSUME OnMessage PROVE RR!Next
  <2>1. CASE UNCHANGED <<phase, answer>>
    BY <2>1, SeenSame
  <2>2. CASE Head(toExtension).kind = "truncated" /\ Deliver(Head(toExtension))
    BY <2>2, DeliverSeen
  <2> QED BY <1>5, <2>1, <2>2 DEF OnMessage
<1>6. ASSUME UNCHANGED <<phase, answer>> PROVE RR!Next
  BY <1>6, SeenSame
<1>7. \/ \E c \in Calls : SendRequestAndReceive(c) \/ SendEncrypted(c)
      \/ \E i \in 1 .. Len(decrypting) : HandleEncryptedMessage(i)
      \/ OnMessage \/ Disconnect \/ OnClose
      \/ UNCHANGED <<phase, answer>>
  BY DEF Next, vars, DesktopReply, DesktopClose
<1> QED BY <1>1, <1>2, <1>3, <1>4, <1>5, <1>6, <1>7

(* The socket implements the safety of RequestReply, with no hypothesis on   *)
(* the callers, the desktop, the browser or the user: each step is one the   *)
(* abstract channel may take, with the faults it has by then, or one that no *)
(* caller sees.                                                              *)
THEOREM ImplementsSafely == Spec => RR!Spec
<1>1. Init => RR!Init /\ Counted
  <2>1. Init => Counted
    BY EmptySeq DEF Init, Counted, Due
  <2>2. Init => RR!Init
    BY DEF Init, RR!Init, Outcome
  <2> QED BY <2>1, <2>2
<1>2. TypeOK /\ NobodyForgotten /\ Counted /\ OwnAnswer' /\ NoSharedAnswer' /\ [Next]_vars
        => [RR!Next]_(RR!vars)
  BY StepSeen, FaultsNext DEF Promise
<1>3. Spec => []OwnAnswer /\ []NoSharedAnswer
  BY AnswersAreOwn, NobodySharesAnAnswer
<1> QED BY <1>1, <1>2, <1>3, CountedNext, NobodyIsForgotten, TypeCorrect, PTL
        DEF Spec, RR!Spec
=============================================================================
