------------------------ MODULE ExtensionServerProofs ------------------------
(***************************************************************************)
(* What holds of the desktop's extension server for any number of servers, *)
(* connections and requests.                                               *)
(***************************************************************************)
EXTENDS ExtensionServer, FiniteSetTheorems, TLAPS

(* The tail of a sequence is one shorter.                                    *)
LEMMA TailShorter ==
  ASSUME NEW S, NEW q \in Seq(S), q # <<>>
  PROVE  Tail(q) \in Seq(S) /\ Len(Tail(q)) = Len(q) - 1 /\ Len(q) \in Nat
OBVIOUS

(* A sequence with one element more is one longer.                           *)
LEMMA AppendLonger ==
  ASSUME NEW S, NEW q \in Seq(S), NEW e \in S
  PROVE  /\ Append(q, e) \in Seq(S) /\ Append(q, e) # <<>>
         /\ Len(Append(q, e)) = Len(q) + 1 /\ Len(q) \in Nat
OBVIOUS

(* The servers and connections start in their types.                         *)
LEMMA TypeInit == Init => TypeOK
<1> SUFFICES ASSUME Init PROVE TypeOK
  OBVIOUS
<1> USE ConstantsAssumption DEF Init
<1>1. \A c \in Clients : dialogs[c] + Len(inbox[c]) <= sent
  <2>1. Len(<<>>) = 0
    OBVIOUS
  <2> QED BY <2>1
<1>2. inbox \in [Clients -> Seq(Requests)]
  OBVIOUS
<1> QED BY <1>1, <1>2 DEF TypeOK, ServerStates, Stages, SessionStages
-----------------------------------------------------------------------------
(* Type correctness is inductive as it stands: one lemma for each group of   *)
(* actions that change the same variables.                                   *)
LEMMA ServerTypes ==
  ASSUME TypeOK, StopExtensionServer \/ \E s \in Servers : StartExtensionServer(s)
  PROVE  TypeOK'
<1>1. AfterStop \in [Servers -> ServerStates]
  BY DEF TypeOK, AfterStop, ServerStates
<1>2. /\ server' \in [Servers -> ServerStates]
      /\ current' \in Servers \cup {null}
      /\ UNCHANGED <<sessionVars, pairingVars, peerVars, userVars>>
  BY <1>1 DEF StopExtensionServer, StartExtensionServer, ServerStates
<1> QED BY <1>2 DEF TypeOK, sessionVars, pairingVars, peerVars, userVars

(* A step of a connection that only moves it on.                             *)
LEMMA SessionTypes ==
  ASSUME TypeOK, NEW c \in Clients,
         UNCHANGED <<serverVars, pairingVars, peerVars, userVars>>,
         slot' \in [Servers -> Clients \cup {null}],
         home' \in [Clients -> Servers \cup {null}],
         isPaired' \in [Clients -> BOOLEAN],
         reply' \in [Clients -> {"none", "paired", "error", "vault"}],
         NEW t \in Stages \ {"received"}, stage' = [stage EXCEPT ![c] = t]
  PROVE  TypeOK'
BY DEF TypeOK, serverVars, pairingVars, peerVars, userVars

(* The end of a connection keeps what it writes in its type.                 *)
LEMMA EndTypes ==
  ASSUME TypeOK, NEW c \in Clients, End(c)
  PROVE  /\ slot' \in [Servers -> Clients \cup {null}]
         /\ home' \in [Clients -> Servers \cup {null}]
         /\ isPaired' \in [Clients -> BOOLEAN]
         /\ reply' \in [Clients -> {"none", "paired", "error", "vault"}]
         /\ stage' = [stage EXCEPT ![c] = "closed"]
         /\ "closed" \in Stages \ {"received"}
BY DEF End, TypeOK, Stages

(* So does the decision on a pairing.                                        *)
LEMMA DecidedTypes ==
  ASSUME TypeOK, NEW c \in Clients, NEW paired \in BOOLEAN, Decided(c, paired)
  PROVE  /\ isPaired' \in [Clients -> BOOLEAN]
         /\ reply' \in [Clients -> {"none", "paired", "error", "vault"}]
         /\ stage' = [stage EXCEPT ![c] = "answering"]
         /\ "answering" \in Stages \ {"received"}
BY DEF Decided, TypeOK, Stages, SessionStages

(* A frame is received: a bad one ends its connection.                       *)
LEMMA ReceiveTypes ==
  ASSUME TypeOK, NEW c \in Clients, Receive(c)
  PROVE  TypeOK'
<1>1. /\ inbox[c] \in Seq(Requests) /\ inbox[c] # <<>>
      /\ UNCHANGED <<current, server, tcs, answer, peer, sent, dialogs, allowed, allows>>
  BY DEF TypeOK, Receive, serverVars, pairingVars, userVars
<1>2. CASE Head(inbox[c]) = "bad"
  <2>1. End(c) /\ inbox' = [inbox EXCEPT ![c] = Tail(@)]
    BY <1>2 DEF Receive
  <2>2. /\ Tail(inbox[c]) \in Seq(Requests)
        /\ Len(Tail(inbox[c])) = Len(inbox[c]) - 1 /\ Len(inbox[c]) \in Nat
    BY <1>1, TailShorter
  <2>3. /\ inbox' \in [Clients -> Seq(Requests)]
        /\ inbox'[c] = Tail(inbox[c])
        /\ \A d \in Clients \ {c} : inbox'[d] = inbox[d]
    BY <2>1, <2>2 DEF TypeOK
  <2>4. \A d \in Clients : dialogs'[d] + Len(inbox'[d]) <= sent'
    <3>1. /\ dialogs' = dialogs /\ sent' = sent
          /\ dialogs[c] \in Nat /\ sent \in Int
          /\ \A d \in Clients : dialogs[d] + Len(inbox[d]) <= sent
      BY <1>1, ConstantsAssumption DEF TypeOK
    <3>2. dialogs'[c] + Len(inbox'[c]) <= sent'
      BY <2>2, <2>3, <3>1
    <3> QED BY <2>3, <3>1, <3>2
  <2>5. stage' \in [Clients -> Stages]
    BY <2>1, EndTypes DEF TypeOK
  <2>6. \A d \in Clients : stage'[d] = "received" => inbox'[d] # <<>>
    BY <2>1, <2>3, EndTypes DEF TypeOK
  <2> QED BY <1>1, <2>1, <2>3, <2>4, <2>5, <2>6, EndTypes DEF TypeOK
<1>3. CASE Head(inbox[c]) # "bad"
  <2>1. stage' = [stage EXCEPT ![c] = "received"] /\ UNCHANGED <<slot, home, isPaired, reply, inbox>>
    BY <1>3 DEF Receive
  <2> QED BY <1>1, <2>1 DEF TypeOK, Stages, SessionStages
<1> QED BY <1>2, <1>3

(* A request that is handled leaves the inbox, answered or asked of the      *)
(* user.                                                                     *)
LEMMA HandleRequestTypes ==
  ASSUME TypeOK, NEW c \in Clients, HandleRequest(c)
  PROVE  TypeOK'
<1>1. /\ inbox[c] \in Seq(Requests) /\ inbox[c] # <<>>
      /\ inbox' = [inbox EXCEPT ![c] = Tail(@)]
      /\ UNCHANGED <<slot, home, peer, sent, current, server>>
  BY DEF TypeOK, HandleRequest, serverVars
<1>2. /\ Tail(inbox[c]) \in Seq(Requests)
      /\ Len(Tail(inbox[c])) = Len(inbox[c]) - 1 /\ Len(inbox[c]) \in Nat
  BY <1>1, TailShorter
<1>3. /\ inbox' \in [Clients -> Seq(Requests)]
      /\ inbox'[c] = Tail(inbox[c])
      /\ \A d \in Clients \ {c} : inbox'[d] = inbox[d]
  BY <1>1, <1>2 DEF TypeOK
<1>4. CASE Head(inbox[c]) = "pair"
  <2>1. Ask(c)
    BY <1>4 DEF HandleRequest
  <2>2. /\ dialogs' \in [Clients -> Nat]
        /\ dialogs'[c] = dialogs[c] \/ dialogs'[c] = dialogs[c] + 1
        /\ \A d \in Clients \ {c} : dialogs'[d] = dialogs[d]
    BY <2>1 DEF Ask, TypeOK
  <2>3. \A d \in Clients : dialogs'[d] + Len(inbox'[d]) <= sent'
    BY <1>1, <1>2, <1>3, <2>2 DEF TypeOK
  <2>4. /\ stage' \in [Clients -> Stages]
        /\ \A d \in Clients : stage'[d] = "received" => inbox'[d] # <<>>
    BY <2>1, <1>3 DEF Ask, TypeOK, Stages, SessionStages
  <2>5. /\ tcs' \in [Servers -> Clients \cup {null}]
        /\ answer' \in [Clients -> {"none", "yes", "no"}]
        /\ UNCHANGED <<isPaired, reply, allowed, allows>>
    BY <2>1 DEF Ask, TypeOK
  <2> QED BY <1>1, <1>3, <2>2, <2>3, <2>4, <2>5 DEF TypeOK
<1>5. CASE Head(inbox[c]) # "pair"
  <2>1. Serve(c)
    BY <1>5 DEF HandleRequest
  <2>2. \A d \in Clients : dialogs'[d] + Len(inbox'[d]) <= sent'
    BY <1>1, <1>2, <1>3, <2>1 DEF Serve, userVars, TypeOK
  <2>3. /\ stage' \in [Clients -> Stages]
        /\ \A d \in Clients : stage'[d] = "received" => inbox'[d] # <<>>
    BY <2>1, <1>3 DEF Serve, TypeOK, Stages, SessionStages
  <2>4. /\ reply' \in [Clients -> {"none", "paired", "error", "vault"}]
        /\ UNCHANGED <<isPaired, tcs, answer, dialogs, allowed, allows>>
    BY <2>1 DEF Serve, pairingVars, userVars, TypeOK
  <2> QED BY <1>1, <1>3, <2>2, <2>3, <2>4 DEF TypeOK
<1> QED BY <1>4, <1>5

(* The user answers a dialog.                                                *)
LEMMA AnswerTypes ==
  ASSUME TypeOK, NEW c \in Clients, NEW confirmed \in BOOLEAN, AnswerDialog(c, confirmed)
  PROVE  TypeOK'
<1>1. answer' \in [Clients -> {"none", "yes", "no"}]
  BY DEF AnswerDialog, ConfirmPair, TypeOK
<1>2. /\ dialogs' \in [Clients -> Nat]
      /\ \A d \in Clients : dialogs'[d] <= dialogs[d]
  BY DEF AnswerDialog, TypeOK
<1>3. UNCHANGED <<tcs, serverVars, sessionVars, peerVars>>
  BY DEF AnswerDialog
<1>4. allowed' \subseteq Clients /\ allows' \in Nat
  BY DEF AnswerDialog, TypeOK
<1>5. \A d \in Clients : Len(inbox[d]) \in Nat
  BY DEF TypeOK
<1>6. \A d \in Clients : dialogs'[d] + Len(inbox'[d]) <= sent'
  BY <1>2, <1>3, <1>5 DEF TypeOK, peerVars
<1> QED BY <1>1, <1>2, <1>3, <1>4, <1>6 DEF TypeOK, serverVars, sessionVars, peerVars

(* The peer sends within its bound.                                          *)
LEMMA PeerSendsTypes ==
  ASSUME TypeOK, NEW c \in Clients, NEW r \in Requests, PeerSends(c, r)
  PROVE  TypeOK'
<1>1. /\ inbox[c] \in Seq(Requests)
      /\ inbox' = [inbox EXCEPT ![c] = Append(@, r)]
      /\ sent' = sent + 1 /\ sent < MaxRequests
      /\ UNCHANGED <<peer, serverVars, sessionVars, pairingVars, userVars>>
  BY DEF TypeOK, PeerSends
<1>2. /\ Append(inbox[c], r) \in Seq(Requests) /\ Append(inbox[c], r) # <<>>
      /\ Len(Append(inbox[c], r)) = Len(inbox[c]) + 1 /\ Len(inbox[c]) \in Nat
  BY <1>1, AppendLonger
<1>3. /\ inbox' \in [Clients -> Seq(Requests)]
      /\ inbox'[c] = Append(inbox[c], r)
      /\ \A d \in Clients \ {c} : inbox'[d] = inbox[d]
  BY <1>1, <1>2 DEF TypeOK
<1>4. sent' \in 0 .. MaxRequests /\ sent' = sent + 1
  BY <1>1, ConstantsAssumption DEF TypeOK
<1>5. \A d \in Clients : dialogs'[d] + Len(inbox'[d]) <= sent'
  BY <1>1, <1>2, <1>3, <1>4 DEF TypeOK, userVars
<1>6. \A d \in Clients : stage'[d] = "received" => inbox'[d] # <<>>
  BY <1>1, <1>2, <1>3 DEF TypeOK, sessionVars
<1> QED BY <1>1, <1>3, <1>4, <1>5, <1>6
        DEF TypeOK, serverVars, sessionVars, pairingVars, userVars

(* Every step keeps the types.                                               *)
LEMMA TypeNext == TypeOK /\ [Next]_vars => TypeOK'
<1> SUFFICES ASSUME TypeOK, [Next]_vars PROVE TypeOK'
  OBVIOUS
<1>1. CASE StopExtensionServer
  BY <1>1, ServerTypes
<1>2. ASSUME NEW s \in Servers, StartExtensionServer(s) PROVE TypeOK'
  BY <1>2, ServerTypes
<1>3. ASSUME NEW c \in Clients, NEW s \in Servers, Accept(c, s) PROVE TypeOK'
  <2>1. "accepted" \in Stages \ {"received"}
    BY DEF Stages
  <2> QED BY <1>3, <2>1, SessionTypes DEF Accept, TypeOK
<1>4. ASSUME NEW c \in Clients, Admit(c) PROVE TypeOK'
  <2>1. slot' = slot \/ \E s \in {home[c]} : slot' = [slot EXCEPT ![s] = c]
    BY <1>4 DEF Admit
  <2>2. slot' \in [Servers -> Clients \cup {null}]
    BY <2>1 DEF TypeOK
  <2>3. \/ stage' = [stage EXCEPT ![c] = "exchange"]
        \/ stage' = [stage EXCEPT ![c] = "refused"]
        \/ stage' = [stage EXCEPT ![c] = "leaked"]
    BY <1>4 DEF Admit
  <2>4. {"exchange", "refused", "leaked"} \subseteq Stages \ {"received"}
    BY DEF Stages, SessionStages
  <2>5. UNCHANGED <<home, isPaired, reply>>
        /\ UNCHANGED <<serverVars, pairingVars, peerVars, userVars>>
    BY <1>4 DEF Admit
  <2> QED BY <2>2, <2>3, <2>4, <2>5, SessionTypes DEF TypeOK
<1>5. ASSUME NEW c \in Clients,
             BadKey(c) \/ EndOfStream(c) \/ WriteFails(c) \/ Cancelled(c)
      PROVE  TypeOK'
  <2>1. End(c) /\ UNCHANGED <<serverVars, pairingVars, peerVars, userVars>>
    BY <1>5 DEF BadKey, EndOfStream, WriteFails, Cancelled
  <2> QED BY <2>1, EndTypes, SessionTypes
<1>6. ASSUME NEW c \in Clients, ExchangeKeys(c) \/ Written(c) PROVE TypeOK'
  <2>1. "reading" \in Stages \ {"received"}
    BY DEF Stages, SessionStages
  <2> QED BY <1>6, <2>1, SessionTypes DEF ExchangeKeys, Written, TypeOK
<1>7. ASSUME NEW c \in Clients, Receive(c) PROVE TypeOK'
  BY <1>7, ReceiveTypes
<1>8. ASSUME NEW c \in Clients, HandleRequest(c) PROVE TypeOK'
  BY <1>8, HandleRequestTypes
<1>9. ASSUME NEW c \in Clients, Confirmed(c) \/ PairTimesOut(c) PROVE TypeOK'
  <2>1. PICK paired \in BOOLEAN : Decided(c, paired)
    <3>1. (answer[c] = "yes") \in BOOLEAN /\ FALSE \in BOOLEAN
      OBVIOUS
    <3>2. Decided(c, answer[c] = "yes") \/ Decided(c, FALSE)
      BY <1>9 DEF Confirmed, PairTimesOut
    <3> QED BY <3>1, <3>2
  <2>2. UNCHANGED <<slot, home>> /\ UNCHANGED <<serverVars, pairingVars, peerVars, userVars>>
    BY <1>9 DEF Confirmed, PairTimesOut
  <2>3. /\ isPaired' \in [Clients -> BOOLEAN]
        /\ reply' \in [Clients -> {"none", "paired", "error", "vault"}]
        /\ stage' = [stage EXCEPT ![c] = "answering"]
        /\ "answering" \in Stages \ {"received"}
    BY <2>1, DecidedTypes
  <2>4. /\ slot' \in [Servers -> Clients \cup {null}]
        /\ home' \in [Clients -> Servers \cup {null}]
    BY <2>2 DEF TypeOK
  <2> QED BY <2>2, <2>3, <2>4, SessionTypes
<1>10. ASSUME NEW c \in Clients, NEW b \in BOOLEAN, AnswerDialog(c, b) PROVE TypeOK'
  BY <1>10, AnswerTypes
<1>11. ASSUME NEW c \in Clients, NEW r \in Requests, PeerSends(c, r) PROVE TypeOK'
  BY <1>11, PeerSendsTypes
<1>12. ASSUME NEW c \in Clients, PeerLeaves(c) PROVE TypeOK'
  <2>1. peer' \in [Clients -> {"open", "gone"}]
    BY <1>12 DEF PeerLeaves, TypeOK
  <2>2. UNCHANGED <<inbox, sent, serverVars, sessionVars, pairingVars, userVars>>
    BY <1>12 DEF PeerLeaves
  <2> QED BY <2>1, <2>2 DEF TypeOK, serverVars, sessionVars, pairingVars, userVars
<1>13. CASE UNCHANGED vars
  BY <1>13 DEF TypeOK, vars
<1> QED BY <1>1, <1>2, <1>3, <1>4, <1>5, <1>6, <1>7, <1>8, <1>9, <1>10, <1>11, <1>12, <1>13
        DEF Next, Handle

(* The variables keep their types, and a connection never has more dialogs   *)
(* and unhandled requests than it sent.                                      *)
THEOREM TypeCorrect == Spec => []TypeOK
BY TypeInit, TypeNext, PTL DEF Spec
-----------------------------------------------------------------------------
(* Why the slot is exclusive: besides that, every connection that was        *)
(* accepted knows its server, and a server that never ran has none.          *)
HomeKnown == \A c \in Clients : stage[c] # "away" => home[c] \in Servers

NeverRanIsEmpty ==
  \A s \in Servers : server[s] \in {"new", "failed"} =>
     slot[s] = null /\ \A c \in Clients : home[c] # s

SlotHeld ==
  \A s \in Servers, c \in Clients : server[s] = "running" =>
     (slot[s] = c <=> stage[c] \in SessionStages /\ home[c] = s)

SlotInv == TypeOK /\ HomeKnown /\ NeverRanIsEmpty /\ SlotHeld

(* At first every slot is empty and nobody is accepted.                      *)
LEMMA SlotInit == Init => SlotInv
<1> SUFFICES ASSUME Init PROVE SlotInv
  OBVIOUS
<1>1. TypeOK
  BY TypeInit
<1>2. HomeKnown /\ NeverRanIsEmpty /\ SlotHeld
  BY ConstantsAssumption DEF Init, HomeKnown, NeverRanIsEmpty, SlotHeld
<1> QED BY <1>1, <1>2 DEF SlotInv

(* A step that moves connections only within a session, or outside one.      *)
LEMMA SlotKept ==
  ASSUME SlotInv, UNCHANGED <<server, slot, home>>,
         \A d \in Clients : /\ stage'[d] \in SessionStages <=> stage[d] \in SessionStages
                            /\ stage[d] = "away" => stage'[d] = "away"
  PROVE  HomeKnown' /\ NeverRanIsEmpty' /\ SlotHeld'
BY DEF SlotInv, HomeKnown, NeverRanIsEmpty, SlotHeld

(* A server that starts has an empty slot, and one that stops runs no more.  *)
LEMMA SlotStart ==
  ASSUME SlotInv, StopExtensionServer \/ \E s \in Servers : StartExtensionServer(s)
  PROVE  HomeKnown' /\ NeverRanIsEmpty' /\ SlotHeld'
<1>1. UNCHANGED <<slot, home, stage>>
  BY DEF StopExtensionServer, StartExtensionServer, sessionVars
<1>2. ASSUME NEW s \in Servers
      PROVE  /\ server'[s] \in {"new", "failed"} => server[s] \in {"new", "failed"}
             /\ server'[s] = "running" => server[s] \in {"new", "running"}
  BY DEF StopExtensionServer, StartExtensionServer, AfterStop, SlotInv, TypeOK, ServerStates
<1>3. HomeKnown' /\ NeverRanIsEmpty'
  BY <1>1, <1>2 DEF SlotInv, HomeKnown, NeverRanIsEmpty
<1>4. ASSUME NEW s \in Servers, NEW c \in Clients, server'[s] = "running"
      PROVE  slot[s] = c <=> stage[c] \in SessionStages /\ home[c] = s
  <2>1. CASE server[s] = "running"
    BY <2>1 DEF SlotInv, SlotHeld
  <2>2. CASE server[s] = "new"
    BY <2>2, ConstantsAssumption DEF SlotInv, NeverRanIsEmpty
  <2> QED BY <1>2, <1>4, <2>1, <2>2
<1> QED BY <1>1, <1>3, <1>4 DEF SlotHeld

(* A connection is accepted by one server and has no session yet.            *)
LEMMA SlotAccept ==
  ASSUME SlotInv, NEW c \in Clients, NEW s \in Servers, Accept(c, s)
  PROVE  HomeKnown' /\ NeverRanIsEmpty' /\ SlotHeld'
<1>1. /\ UNCHANGED <<server, slot>>
      /\ server[s] = "running" /\ stage[c] = "away"
      /\ stage'[c] = "accepted" /\ home'[c] = s
      /\ \A d \in Clients \ {c} : stage'[d] = stage[d] /\ home'[d] = home[d]
  BY DEF Accept, SlotInv, TypeOK, serverVars
<1>2. stage[c] \notin SessionStages /\ stage'[c] \notin SessionStages
  BY <1>1 DEF SessionStages
<1> QED BY <1>1, <1>2 DEF SlotInv, HomeKnown, NeverRanIsEmpty, SlotHeld

(* A connection takes the slot if it is free, or never gets one.             *)
LEMMA SlotAdmit ==
  ASSUME SlotInv, NEW c \in Clients, Admit(c)
  PROVE  HomeKnown' /\ NeverRanIsEmpty' /\ SlotHeld'
<1>1. /\ UNCHANGED <<server, home>> /\ stage[c] = "accepted"
      /\ \A d \in Clients \ {c} : stage'[d] = stage[d]
      /\ home[c] \in Servers
  BY DEF Admit, SlotInv, TypeOK, HomeKnown, serverVars
<1>2. stage[c] \notin SessionStages
  BY <1>1 DEF SessionStages
<1>3. CASE server[home[c]] = "running" /\ slot[home[c]] = null
  <2>1. slot' = [slot EXCEPT ![home[c]] = c] /\ stage'[c] = "exchange"
    BY <1>1, <1>3 DEF Admit, Running, SlotInv, TypeOK
  <2>2. \A s \in Servers : slot'[s] = IF s = home[c] THEN c ELSE slot[s]
    BY <2>1 DEF SlotInv, TypeOK
  <2>3. stage'[c] \in SessionStages
    BY <2>1 DEF SessionStages
  <2>4. \A d \in Clients : server[home[c]] = "running" => slot[home[c]] # d
    BY <1>3, ConstantsAssumption
  <2>5. HomeKnown' /\ NeverRanIsEmpty'
    BY <1>1, <1>3, <2>2 DEF SlotInv, HomeKnown, NeverRanIsEmpty
  <2>6. SlotHeld'
    BY <1>1, <1>2, <1>3, <2>2, <2>3, <2>4 DEF SlotInv, SlotHeld
  <2> QED BY <2>5, <2>6
<1>4. CASE ~(server[home[c]] = "running" /\ slot[home[c]] = null)
  <2>1. slot' = slot /\ stage'[c] \in {"refused", "leaked"}
    BY <1>1, <1>4 DEF Admit, Running, SlotInv, TypeOK
  <2>2. stage'[c] \notin SessionStages
    BY <2>1 DEF SessionStages
  <2> QED BY <1>1, <1>2, <2>1, <2>2, SlotKept
<1> QED BY <1>3, <1>4

(* A connection that ends gives its slot back.                               *)
LEMMA SlotEnd ==
  ASSUME SlotInv, NEW c \in Clients, End(c), server' = server,
         stage[c] \in SessionStages
  PROVE  HomeKnown' /\ NeverRanIsEmpty' /\ SlotHeld'
<1>1. /\ home' = home /\ stage'[c] = "closed"
      /\ \A d \in Clients \ {c} : stage'[d] = stage[d]
  BY DEF End, SlotInv, TypeOK
<1>2. stage[c] # "away" /\ stage'[c] \notin SessionStages
  BY <1>1 DEF SessionStages
<1>3. home[c] \in Servers
  BY <1>2 DEF SlotInv, HomeKnown
<1>4. \A s \in Servers :
         slot'[s] = IF s = home[c] /\ server[s] = "running" THEN null ELSE slot[s]
  BY <1>3 DEF End, Running, SlotInv, TypeOK
<1>5. HomeKnown' /\ NeverRanIsEmpty'
  BY <1>1, <1>2, <1>4 DEF SlotInv, HomeKnown, NeverRanIsEmpty
<1>6. ASSUME NEW s \in Servers, NEW d \in Clients, server[s] = "running"
      PROVE  slot'[s] = d <=> stage'[d] \in SessionStages /\ home[d] = s
  <2>1. slot[s] = d <=> stage[d] \in SessionStages /\ home[d] = s
    BY <1>6 DEF SlotInv, SlotHeld
  <2>2. slot[s] = c <=> home[c] = s
    BY <1>6 DEF SlotInv, SlotHeld
  <2> QED BY <1>1, <1>2, <1>4, <1>6, <2>1, <2>2, ConstantsAssumption
<1>7. SlotHeld'
  BY <1>1, <1>6 DEF SlotHeld
<1> QED BY <1>5, <1>7

(* Every step keeps the slots to the connections that hold them.             *)
LEMMA SlotNext == SlotInv /\ [Next]_vars => SlotInv'
<1> SUFFICES ASSUME SlotInv, [Next]_vars
             PROVE  HomeKnown' /\ NeverRanIsEmpty' /\ SlotHeld'
  BY TypeNext DEF SlotInv
<1> USE DEF serverVars, sessionVars
<1>1. CASE StopExtensionServer \/ \E s \in Servers : StartExtensionServer(s)
  BY <1>1, SlotStart
<1>2. CASE \E c \in Clients, s \in Servers : Accept(c, s)
  BY <1>2, SlotAccept
<1>3. CASE \E c \in Clients : Admit(c)
  BY <1>3, SlotAdmit
<1>4. ASSUME NEW c \in Clients,
             BadKey(c) \/ EndOfStream(c) \/ WriteFails(c) \/ Cancelled(c)
      PROVE  HomeKnown' /\ NeverRanIsEmpty' /\ SlotHeld'
  <2>1. End(c) /\ server' = server /\ stage[c] \in SessionStages
    BY <1>4 DEF BadKey, EndOfStream, WriteFails, Cancelled, SessionStages
  <2> QED BY <2>1, SlotEnd
<1>5. ASSUME NEW c \in Clients, Receive(c)
      PROVE  HomeKnown' /\ NeverRanIsEmpty' /\ SlotHeld'
  <2>1. server' = server /\ stage[c] \in SessionStages
    BY <1>5 DEF Receive, SessionStages
  <2>2. CASE End(c)
    BY <2>1, <2>2, SlotEnd
  <2>3. CASE stage' = [stage EXCEPT ![c] = "received"] /\ UNCHANGED <<slot, home>>
    <3>1. \A d \in Clients : /\ stage'[d] \in SessionStages <=> stage[d] \in SessionStages
                             /\ stage[d] = "away" => stage'[d] = "away"
      BY <2>1, <2>3 DEF SlotInv, TypeOK, SessionStages
    <3> QED BY <2>1, <2>3, <3>1, SlotKept
  <2> QED BY <1>5, <2>2, <2>3 DEF Receive
<1>6. ASSUME NEW c \in Clients,
             \/ ExchangeKeys(c) \/ HandleRequest(c) \/ Confirmed(c) \/ PairTimesOut(c)
             \/ Written(c)
      PROVE  HomeKnown' /\ NeverRanIsEmpty' /\ SlotHeld'
  <2>1. /\ UNCHANGED <<server, slot, home>> /\ stage[c] \in SessionStages
        /\ \/ stage' = [stage EXCEPT ![c] = "reading"]
           \/ stage' = [stage EXCEPT ![c] = "asking"]
           \/ stage' = [stage EXCEPT ![c] = "answering"]
    BY <1>6 DEF ExchangeKeys, HandleRequest, Ask, Serve, Confirmed, PairTimesOut, Decided,
         Written, SessionStages
  <2>2. \A d \in Clients : /\ stage'[d] \in SessionStages <=> stage[d] \in SessionStages
                           /\ stage[d] = "away" => stage'[d] = "away"
    BY <2>1 DEF SlotInv, TypeOK, SessionStages
  <2> QED BY <2>1, <2>2, SlotKept
<1>7. CASE \E c \in Clients :
             \/ \E b \in BOOLEAN : AnswerDialog(c, b)
             \/ \E r \in Requests : PeerSends(c, r)
             \/ PeerLeaves(c)
  BY <1>7, SlotKept DEF AnswerDialog, PeerSends, PeerLeaves
<1>8. CASE UNCHANGED vars
  BY <1>8, SlotKept DEF vars
<1> QED BY <1>1, <1>2, <1>3, <1>4, <1>5, <1>6, <1>7, <1>8 DEF Next, Handle

(* A running server serves the connection that holds its slot and no other,  *)
(* however connections come, fail and are refused, and servers are restarted.*)
THEOREM SlotIsExclusive == Spec => []SlotExclusive
<1>1. SlotInv => SlotExclusive
  BY ConstantsAssumption DEF SlotInv, TypeOK, SlotHeld, SlotExclusive, InSession
<1> QED BY <1>1, SlotInit, SlotNext, PTL DEF Spec
-----------------------------------------------------------------------------
(* Why what is served was confirmed: until the first request isPaired is     *)
(* FALSE, and wherever the loop is but in a confirmation, TRUE means that    *)
(* the last confirmation said so.                                            *)
PairedIsAnswered ==
  \A c \in Clients :
     /\ stage[c] \in {"away", "accepted", "exchange"} => ~isPaired[c]
     /\ stage[c] \in {"reading", "received", "answering"} /\ isPaired[c]
          => answer[c] = "yes"

VaultIsPaired ==
  \A c \in Clients : stage[c] = "answering" /\ reply[c] = "vault" => isPaired[c]

ServedInv == TypeOK /\ PairedIsAnswered /\ VaultIsPaired

(* At first nobody is paired.                                                *)
LEMMA ServedInit == Init => ServedInv
BY TypeInit DEF Init, ServedInv, PairedIsAnswered, VaultIsPaired

(* A connection moves on and learns nothing new.                             *)
LEMMA ServedMove ==
  ASSUME ServedInv, NEW c \in Clients, UNCHANGED <<isPaired, answer, reply>>,
         NEW t, t # "answering", stage' = [stage EXCEPT ![c] = t],
         \/ t \notin {"away", "accepted", "exchange", "reading", "received"}
         \/ stage[c] \in {"away", "accepted", "exchange"}
         \/ stage[c] \in {"reading", "received", "answering"} /\ t \in {"reading", "received"}
  PROVE  PairedIsAnswered' /\ VaultIsPaired'
BY DEF ServedInv, TypeOK, PairedIsAnswered, VaultIsPaired

(* Every step makes vault data only for who is paired, and pairs only who    *)
(* was confirmed.                                                            *)
LEMMA ServedNext == ServedInv /\ [Next]_vars => ServedInv'
<1> SUFFICES ASSUME ServedInv, [Next]_vars
             PROVE  PairedIsAnswered' /\ VaultIsPaired'
  BY TypeNext DEF ServedInv
<1>1. CASE UNCHANGED <<stage, isPaired, answer, reply>>
  BY <1>1 DEF ServedInv, PairedIsAnswered, VaultIsPaired
<1>2. CASE \/ StopExtensionServer \/ \E s \in Servers : StartExtensionServer(s)
           \/ \E c \in Clients, r \in Requests : PeerSends(c, r)
           \/ \E c \in Clients : PeerLeaves(c)
           \/ UNCHANGED vars
  BY <1>1, <1>2 DEF StopExtensionServer, StartExtensionServer, PeerSends, PeerLeaves, vars,
       sessionVars, pairingVars
<1>3. ASSUME NEW c \in Clients, NEW s \in Servers, Accept(c, s)
      PROVE  PairedIsAnswered' /\ VaultIsPaired'
  BY <1>3, ServedMove DEF Accept, pairingVars
<1>4. ASSUME NEW c \in Clients, Admit(c)
      PROVE  PairedIsAnswered' /\ VaultIsPaired'
  <2>1. stage[c] = "accepted" /\ UNCHANGED <<isPaired, answer, reply>>
    BY <1>4 DEF Admit, pairingVars
  <2>2. \/ stage' = [stage EXCEPT ![c] = "exchange"]
        \/ stage' = [stage EXCEPT ![c] = "refused"]
        \/ stage' = [stage EXCEPT ![c] = "leaked"]
    BY <1>4 DEF Admit
  <2> QED BY <2>1, <2>2, ServedMove
<1>5. ASSUME NEW c \in Clients, End(c), UNCHANGED answer
      PROVE  PairedIsAnswered' /\ VaultIsPaired'
  BY <1>5, ServedMove DEF End
<1>6. ASSUME NEW c \in Clients,
             BadKey(c) \/ EndOfStream(c) \/ WriteFails(c) \/ Cancelled(c)
      PROVE  PairedIsAnswered' /\ VaultIsPaired'
  BY <1>5, <1>6 DEF BadKey, EndOfStream, WriteFails, Cancelled, pairingVars
<1>7. ASSUME NEW c \in Clients, Receive(c)
      PROVE  PairedIsAnswered' /\ VaultIsPaired'
  <2>1. UNCHANGED answer /\ stage[c] = "reading"
    BY <1>7 DEF Receive, pairingVars
  <2>2. CASE End(c)
    BY <1>5, <2>1, <2>2
  <2>3. CASE stage' = [stage EXCEPT ![c] = "received"] /\ UNCHANGED <<isPaired, reply>>
    BY <2>1, <2>3, ServedMove
  <2> QED BY <1>7, <2>2, <2>3 DEF Receive
<1>8. ASSUME NEW c \in Clients, ExchangeKeys(c) \/ Written(c)
      PROVE  PairedIsAnswered' /\ VaultIsPaired'
  BY <1>8, ServedMove DEF ExchangeKeys, Written, pairingVars
<1>9. ASSUME NEW c \in Clients, HandleRequest(c), Ask(c)
      PROVE  PairedIsAnswered' /\ VaultIsPaired'
  BY <1>9 DEF Ask, ServedInv, TypeOK, PairedIsAnswered, VaultIsPaired
<1>10. ASSUME NEW c \in Clients, HandleRequest(c), Serve(c)
       PROVE  PairedIsAnswered' /\ VaultIsPaired'
  <2>1. /\ stage[c] = "received" /\ UNCHANGED <<isPaired, answer>>
        /\ stage' = [stage EXCEPT ![c] = "answering"]
        /\ reply' = [reply EXCEPT ![c] = IF isPaired[c] THEN "vault" ELSE "error"]
    BY <1>10 DEF HandleRequest, Serve, pairingVars
  <2> QED BY <2>1 DEF ServedInv, TypeOK, PairedIsAnswered, VaultIsPaired
<1>11. ASSUME NEW c \in Clients, NEW paired \in BOOLEAN, Decided(c, paired),
              UNCHANGED answer, paired => answer[c] = "yes"
       PROVE  PairedIsAnswered' /\ VaultIsPaired'
  BY <1>11 DEF Decided, ServedInv, TypeOK, PairedIsAnswered, VaultIsPaired
<1>12. ASSUME NEW c \in Clients, Confirmed(c)
       PROVE  PairedIsAnswered' /\ VaultIsPaired'
  <2>1. (answer[c] = "yes") \in BOOLEAN
    OBVIOUS
  <2> QED BY <1>11, <1>12, <2>1 DEF Confirmed, pairingVars
<1>13. ASSUME NEW c \in Clients, PairTimesOut(c)
       PROVE  PairedIsAnswered' /\ VaultIsPaired'
  BY <1>11, <1>13 DEF PairTimesOut, pairingVars
<1>14. ASSUME NEW c \in Clients, NEW b \in BOOLEAN, AnswerDialog(c, b)
       PROVE  PairedIsAnswered' /\ VaultIsPaired'
  <2>1. UNCHANGED <<stage, isPaired, reply>>
    BY <1>14 DEF AnswerDialog, sessionVars
  <2>2. \A d \in Clients : answer[d] = "yes" => answer'[d] = "yes"
    BY <1>14 DEF AnswerDialog, ConfirmPair, ServedInv, TypeOK
  <2> QED BY <2>1, <2>2 DEF ServedInv, PairedIsAnswered, VaultIsPaired
<1> QED BY <1>2, <1>3, <1>4, <1>6, <1>7, <1>8, <1>9, <1>10, <1>12, <1>13, <1>14
        DEF Next, Handle, HandleRequest

(* No response with vault data is made for a connection whose last pairing   *)
(* request the user has not allowed.                                         *)
THEOREM OnlyConfirmedAreServed == Spec => []ServedAreConfirmed
<1>1. ServedInv => ServedAreConfirmed
  BY DEF ServedInv, PairedIsAnswered, VaultIsPaired, ServedAreConfirmed
<1> QED BY <1>1, ServedInit, ServedNext, PTL DEF Spec
-----------------------------------------------------------------------------
(* Why one click pairs one connection: a click that may still pair one is    *)
(* the result of a confirmation it waits for, and a new confirmation has no  *)
(* result yet.                                                               *)
Granted ==
  {c \in Clients : isPaired[c] \/ (stage[c] = "asking" /\ answer[c] = "yes")}

ClicksInv == TypeOK /\ Cardinality(Granted) <= allows

(* At first nothing is granted.                                              *)
LEMMA ClicksInit == Init => ClicksInv
<1> SUFFICES ASSUME Init PROVE Cardinality(Granted) <= allows
  BY TypeInit DEF ClicksInv
<1>1. Granted = {}
  BY DEF Init, Granted
<1>2. allows = 0
  BY DEF Init
<1> QED BY <1>1, <1>2, FS_EmptySet

(* Whatever is not a click grants nothing.                                   *)
LEMMA NothingGranted ==
  ASSUME TypeOK, [Next]_vars,
         ~ \E c \in Clients, b \in BOOLEAN : AnswerDialog(c, b)
  PROVE  Granted' \subseteq Granted /\ allows' = allows
<1>1. ASSUME UNCHANGED <<isPaired, answer, allows>>,
             NEW c \in Clients, NEW t, t # "asking", stage' = [stage EXCEPT ![c] = t]
      PROVE  Granted' \subseteq Granted /\ allows' = allows
  BY <1>1 DEF Granted, TypeOK
<1>2. CASE UNCHANGED <<isPaired, answer, allows, stage>>
  BY <1>2 DEF Granted
<1>3. CASE \/ StopExtensionServer \/ \E s \in Servers : StartExtensionServer(s)
           \/ \E c \in Clients, r \in Requests : PeerSends(c, r)
           \/ \E c \in Clients : PeerLeaves(c)
           \/ UNCHANGED vars
  BY <1>2, <1>3 DEF StopExtensionServer, StartExtensionServer, PeerSends, PeerLeaves, vars,
       sessionVars, pairingVars, userVars
<1>4. ASSUME NEW c \in Clients,
             (\E s \in Servers : Accept(c, s)) \/ ExchangeKeys(c) \/ Written(c)
      PROVE  Granted' \subseteq Granted /\ allows' = allows
  BY <1>1, <1>4 DEF Accept, ExchangeKeys, Written, pairingVars, userVars
<1>5. ASSUME NEW c \in Clients, Admit(c)
      PROVE  Granted' \subseteq Granted /\ allows' = allows
  <2>1. /\ UNCHANGED <<isPaired, answer, allows>>
        /\ \/ stage' = [stage EXCEPT ![c] = "exchange"]
           \/ stage' = [stage EXCEPT ![c] = "refused"]
           \/ stage' = [stage EXCEPT ![c] = "leaked"]
    BY <1>5 DEF Admit, pairingVars, userVars
  <2> QED BY <1>1, <2>1
<1>6. ASSUME NEW c \in Clients,
             BadKey(c) \/ EndOfStream(c) \/ WriteFails(c) \/ Cancelled(c)
      PROVE  Granted' \subseteq Granted /\ allows' = allows
  BY <1>1, <1>6 DEF BadKey, EndOfStream, WriteFails, Cancelled, End, pairingVars, userVars
<1>7. ASSUME NEW c \in Clients, Receive(c)
      PROVE  Granted' \subseteq Granted /\ allows' = allows
  <2>1. /\ UNCHANGED <<isPaired, answer, allows>>
        /\ \/ stage' = [stage EXCEPT ![c] = "closed"]
           \/ stage' = [stage EXCEPT ![c] = "received"]
    BY <1>7 DEF Receive, End, pairingVars, userVars
  <2> QED BY <1>1, <2>1
<1>8. ASSUME NEW c \in Clients, HandleRequest(c)
      PROVE  Granted' \subseteq Granted /\ allows' = allows
  <2>1. CASE Ask(c)
    BY <2>1 DEF Ask, Granted, TypeOK
  <2>2. CASE Serve(c)
    BY <1>1, <2>2 DEF Serve, pairingVars, userVars
  <2> QED BY <1>8, <2>1, <2>2 DEF HandleRequest
<1>9. ASSUME NEW c \in Clients, Confirmed(c)
      PROVE  Granted' \subseteq Granted /\ allows' = allows
  BY <1>9 DEF Confirmed, Decided, Granted, TypeOK, pairingVars, userVars
<1>10. ASSUME NEW c \in Clients, PairTimesOut(c)
       PROVE  Granted' \subseteq Granted /\ allows' = allows
  BY <1>10 DEF PairTimesOut, Decided, Granted, TypeOK, pairingVars, userVars
<1> QED BY <1>3, <1>4, <1>5, <1>6, <1>7, <1>8, <1>9, <1>10 DEF Next, Handle

(* A click counts one, and grants at most the connection that is pending.    *)
LEMMA OneGranted ==
  ASSUME TypeOK, NEW c \in Clients, NEW b \in BOOLEAN, AnswerDialog(c, b)
  PROVE  \/ Granted' \subseteq Granted /\ allows' >= allows
         \/ allows' = allows + 1 /\ \E d \in Clients : Granted' \subseteq Granted \cup {d}
<1>1. UNCHANGED <<stage, isPaired>>
  BY DEF AnswerDialog, sessionVars
<1>2. CASE answer' = answer
  BY <1>1, <1>2 DEF AnswerDialog, Granted, TypeOK
<1>3. CASE answer' # answer
  <2>1. PICK d \in Clients : answer' = [answer EXCEPT ![d] = IF b THEN "yes" ELSE "no"]
    <3>1. current # null /\ tcs[current] # null
      BY <1>3 DEF AnswerDialog, ConfirmPair
    <3>2. tcs[current] \in Clients
      BY <3>1 DEF TypeOK
    <3>3. answer' = [answer EXCEPT ![tcs[current]] = IF b THEN "yes" ELSE "no"]
      BY <1>3, <3>1 DEF AnswerDialog, ConfirmPair
    <3> QED BY <3>2, <3>3
  <2>2. CASE b
    BY <1>1, <2>1, <2>2 DEF AnswerDialog, Granted, TypeOK
  <2>3. CASE ~b
    BY <1>1, <2>1, <2>3 DEF AnswerDialog, Granted, TypeOK
  <2> QED BY <2>2, <2>3
<1> QED BY <1>2, <1>3

(* Every step grants no more than was clicked.                               *)
LEMMA ClicksNext == ClicksInv /\ [Next]_vars => ClicksInv'
<1> SUFFICES ASSUME ClicksInv, [Next]_vars PROVE Cardinality(Granted') <= allows'
  BY TypeNext DEF ClicksInv
<1>1. TypeOK /\ Cardinality(Granted) <= allows /\ allows \in Nat /\ allows' \in Nat
  BY TypeNext DEF ClicksInv, TypeOK
<1>2. IsFiniteSet(Granted)
  BY ConstantsAssumption, FS_Subset DEF Granted
<1>3. Cardinality(Granted) \in Nat
  BY <1>2, FS_CardinalityType
<1>4. CASE Granted' \subseteq Granted /\ allows' >= allows
  <2>1. Cardinality(Granted') <= Cardinality(Granted)
    BY <1>2, <1>4, FS_Subset
  <2>2. Cardinality(Granted') \in Nat
    BY <1>2, <1>4, FS_Subset, FS_CardinalityType
  <2> QED BY <1>1, <1>3, <1>4, <2>1, <2>2
<1>5. ASSUME NEW d \in Clients, Granted' \subseteq Granted \cup {d}, allows' = allows + 1
      PROVE  Cardinality(Granted') <= allows'
  <2>1. /\ IsFiniteSet(Granted \cup {d})
        /\ Cardinality(Granted \cup {d}) <= Cardinality(Granted) + 1
    <3>1. /\ IsFiniteSet(Granted \cup {d})
          /\ Cardinality(Granted \cup {d}) =
               IF d \in Granted THEN Cardinality(Granted) ELSE Cardinality(Granted) + 1
      BY <1>2, FS_AddElement
    <3> QED BY <1>3, <3>1
  <2>2. /\ Cardinality(Granted') <= Cardinality(Granted \cup {d})
        /\ Cardinality(Granted') \in Nat /\ Cardinality(Granted \cup {d}) \in Nat
    BY <1>5, <2>1, FS_Subset, FS_CardinalityType
  <2> QED BY <1>1, <1>3, <1>5, <2>1, <2>2
<1>6. \/ Granted' \subseteq Granted /\ allows' >= allows
      \/ allows' = allows + 1 /\ \E d \in Clients : Granted' \subseteq Granted \cup {d}
  BY <1>1, NothingGranted, OneGranted
<1> QED BY <1>4, <1>5, <1>6

(* The paired connections are never more than the user's clicks on "allow",  *)
(* for any number of connections, servers and dialogs.                       *)
THEOREM OneClickOnePairing == Spec => []OneAllowOnePairing
<1>1. ClicksInv => OneAllowOnePairing
  <2> SUFFICES ASSUME ClicksInv PROVE OneAllowOnePairing
    OBVIOUS
  <2>1. IsFiniteSet(Granted) /\ {c \in Clients : isPaired[c]} \subseteq Granted
    BY ConstantsAssumption, FS_Subset DEF Granted
  <2>2. Cardinality({c \in Clients : isPaired[c]}) <= Cardinality(Granted)
    BY <2>1, FS_Subset
  <2>3. Cardinality({c \in Clients : isPaired[c]}) \in Nat /\ Cardinality(Granted) \in Nat
    BY <2>1, FS_Subset, FS_CardinalityType
  <2> QED BY <2>2, <2>3 DEF ClicksInv, TypeOK, OneAllowOnePairing
<1> QED BY <1>1, ClicksInit, ClicksNext, PTL DEF Spec
=============================================================================
