---------------------- MODULE ExtensionBackgroundProofs ----------------------
(***************************************************************************)
(* Proofs about ExtensionBackground, for any number of objects, calls and  *)
(* retries.                                                                *)
(***************************************************************************)
EXTENDS ExtensionBackground, SequenceTheorems, TLAPS

(* TypeOK in the parts that actions leave alone together.                    *)
SocketTypes ==
  /\ stage \in [Sockets -> Stages]
  /\ native \in [Sockets -> Natives]
  /\ held \in [Sockets -> BOOLEAN]
  /\ keyed \in [Sockets -> BOOLEAN]

CallTypes ==
  /\ sent \in [Sockets -> Seq(Calls)]
  /\ receiveResolvers \in [Sockets -> Seq(Calls)]
  /\ phase \in [Calls -> Phases]
  /\ via \in [Calls -> Sockets \cup {NoSocket}]

StateTypes ==
  /\ connectionState \in ConnectionStates
  /\ serverFingerprint \in Sockets \cup {NoSocket}
  /\ isPaired \in BOOLEAN /\ vaultLoaded \in BOOLEAN
  /\ ws \in Sockets \cup {NoSocket}

RetryTypes ==
  /\ pinging \in BOOLEAN
  /\ reconnectAttempts \in 0 .. MAX_RECONNECT_ATTEMPTS + 1
  /\ timers \in Nat
  /\ storedPaired \in BOOLEAN

(* The parts of a step that several actions share keep the types.            *)
LEMMA DoConnectType ==
  ASSUME StateTypes, SocketTypes, DoConnect
  PROVE  StateTypes' /\ SocketTypes'
  BY DEF DoConnect, StateTypes, SocketTypes, Stages, ConnectionStates

(* reject() ends calls, which leaves their phases in the type.               *)
LEMMA RejectType ==
  ASSUME CallTypes, NEW S, Reject(S)
  PROVE  /\ phase' \in [Calls -> Phases]
         /\ via' \in [Calls -> Sockets \cup {NoSocket}]
  BY DEF CallTypes, Reject, Phases

(* A retry is scheduled while attempts are left, so the count stays in       *)
(* bounds.                                                                   *)
LEMMA ScheduleRetryType ==
  ASSUME RetryTypes, ScheduleRetry
  PROVE  /\ reconnectAttempts' \in 0 .. MAX_RECONNECT_ATTEMPTS + 1
         /\ timers' \in Nat
  BY ConstantsAssumption DEF RetryTypes, ScheduleRetry

(* The close callback of an object keeps what it writes in its type.         *)
LEMMA ClosedType ==
  ASSUME RetryTypes, CallTypes, SocketTypes, NEW s \in Sockets, Closed(s)
  PROVE  /\ RetryTypes' /\ CallTypes'
         /\ native' \in [Sockets -> Natives]
         /\ held' \in [Sockets -> BOOLEAN]
         /\ keyed' \in [Sockets -> BOOLEAN]
<1>1. <<>> \in Seq(Calls)
  BY EmptySeq
<1>2. /\ native' \in [Sockets -> Natives] /\ held' \in [Sockets -> BOOLEAN]
      /\ keyed' \in [Sockets -> BOOLEAN]
  BY DEF Closed, SocketTypes, Natives
<1>3. CallTypes'
  BY <1>1, RejectType DEF Closed, CallTypes
<1>4. RetryTypes'
  BY ScheduleRetryType DEF Closed, RetryTypes, StartsPing
<1> QED BY <1>2, <1>3, <1>4

(* Closing the object of ws keeps the objects and the calls in their types.  *)
LEMMA CloseWsType ==
  ASSUME StateTypes, SocketTypes, CallTypes, CloseWs
  PROVE  SocketTypes' /\ CallTypes'
<1>1. CASE ws = NoSocket
  BY <1>1 DEF CloseWs, SocketTypes, CallTypes, socketVars, callVars
<1>2. CASE ws # NoSocket
  <2>1. ws \in Sockets /\ CloseSocket(ws)
    BY <1>2 DEF CloseWs, StateTypes
  <2>2. <<>> \in Seq(Calls)
    BY EmptySeq
  <2>3. SocketTypes'
    BY <2>1 DEF CloseSocket, SocketTypes, Natives
  <2>4. CallTypes'
    BY <2>1, <2>2, RejectType DEF CloseSocket, CallTypes
  <2> QED BY <2>3, <2>4
<1> QED BY <1>1, <1>2

(* A rejected connect() keeps the state and the stages in their types.       *)
LEMMA RejectedType ==
  ASSUME StateTypes, SocketTypes, NEW s \in Sockets, ConnectRejected(s)
  PROVE  StateTypes' /\ stage' \in [Sockets -> Stages]
  BY DEF ConnectRejected, StateTypes, SocketTypes, Stages, ConnectionStates

(* TypeOK, in parts.                                                         *)
Parts == StateTypes /\ RetryTypes /\ SocketTypes /\ CallTypes

(* Each action keeps the types, the user's first.                            *)
LEMMA UserStepType ==
  ASSUME Parts, UserStep
  PROVE  Parts'
<1> USE DEF Parts
<1>1. ASSUME UserConnect PROVE Parts'
  <2>1. RetryTypes' /\ CallTypes'
    BY <1>1 DEF UserConnect, RetryTypes, CallTypes, callVars
  <2>2. StateTypes' /\ SocketTypes'
    BY <1>1, DoConnectType
    DEF UserConnect, StateTypes, SocketTypes, stateVars, socketVars
  <2> QED BY <2>1, <2>2
<1>2. ASSUME RejectPairing PROVE Parts'
  <2>1. SocketTypes' /\ CallTypes'
    BY <1>2, CloseWsType DEF RejectPairing
  <2>2. StateTypes' /\ RetryTypes'
    BY <1>2 DEF RejectPairing, StateTypes, RetryTypes, ConnectionStates, StartsPing
  <2> QED BY <2>1, <2>2
<1>3. ASSUME DoDisconnect PROVE Parts'
  <2>1. SocketTypes' /\ CallTypes'
    BY <1>3, CloseWsType DEF DoDisconnect
  <2>2. StateTypes' /\ pinging' \in BOOLEAN
    BY <1>3 DEF DoDisconnect, StateTypes, ConnectionStates, StartsPing
  <2>3. reconnectAttempts' \in 0 .. MAX_RECONNECT_ATTEMPTS + 1
    BY <1>3, ConstantsAssumption DEF DoDisconnect
  <2>4. timers' = timers /\ storedPaired' = storedPaired
    BY <1>3 DEF DoDisconnect
  <2> QED BY <2>1, <2>2, <2>3, <2>4 DEF RetryTypes
<1>4. ASSUME ResetPairing PROVE Parts'
  BY <1>4 DEF ResetPairing, StateTypes, RetryTypes, SocketTypes, CallTypes,
              stateVars, socketVars, callVars
<1>5. ASSUME NEW c \in Confirms, ConfirmPairing(c) PROVE Parts'
  BY <1>5 DEF ConfirmPairing, StateTypes, RetryTypes, SocketTypes, CallTypes,
              socketVars, ConnectionStates, Phases, Calls
<1> QED BY <1>1, <1>2, <1>3, <1>4, <1>5 DEF UserStep

(* What happens to one object keeps the types.                               *)
LEMMA SocketStepType ==
  ASSUME Parts, NEW s \in Sockets, SocketStep(s)
  PROVE  Parts'
<1> USE DEF Parts
<1>1. ASSUME KeyGenerated(s) PROVE Parts'
  BY <1>1 DEF KeyGenerated, StateTypes, RetryTypes, SocketTypes, CallTypes, Stages,
              stateVars, callVars
<1>2. ASSUME SocketOpened(s) PROVE Parts'
  BY <1>2 DEF SocketOpened, StateTypes, RetryTypes, SocketTypes, CallTypes, Stages,
              Natives, stateVars, callVars
<1>3. ASSUME ServerKey(s) PROVE Parts'
  BY <1>3 DEF ServerKey, StateTypes, RetryTypes, SocketTypes, CallTypes, Stages,
              stateVars, callVars
<1>4. ASSUME HandshakeDone(s) PROVE Parts'
  <2>1. RetryTypes'
    BY <1>4, ConstantsAssumption DEF HandshakeDone, RetryTypes
  <2>2. StateTypes' /\ SocketTypes' /\ CallTypes'
    BY <1>4 DEF HandshakeDone, StateTypes, SocketTypes, CallTypes, Stages,
                ConnectionStates, callVars
  <2> QED BY <2>1, <2>2
<1>5. ASSUME HandshakeFails(s) \/ PairTimeout(s) PROVE Parts'
  <2>1. StateTypes' /\ stage' \in [Sockets -> Stages]
    BY <1>5, RejectedType DEF HandshakeFails, PairTimeout
  <2>2. RetryTypes' /\ CallTypes'
    BY <1>5 DEF HandshakeFails, PairTimeout, RetryTypes, CallTypes, callVars
  <2>3. /\ native' \in [Sockets -> Natives] /\ held' \in [Sockets -> BOOLEAN]
        /\ keyed' \in [Sockets -> BOOLEAN]
    BY <1>5 DEF HandshakeFails, PairTimeout, SocketTypes, Natives
  <2> QED BY <2>1, <2>2, <2>3 DEF SocketTypes
<1>6. ASSUME ConnectionRefused(s) PROVE Parts'
  <2>1. StateTypes' /\ stage' \in [Sockets -> Stages]
    BY <1>6, RejectedType DEF ConnectionRefused
  <2> QED BY <1>6, <2>1, ClosedType DEF ConnectionRefused, SocketTypes
<1>7. ASSUME OnClose(s) PROVE Parts'
  <2>1. StateTypes' /\ stage' \in [Sockets -> Stages]
    BY <1>7 DEF OnClose, StateTypes, SocketTypes, ConnectionStates
  <2> QED BY <1>7, <2>1, ClosedType DEF OnClose, SocketTypes
<1>8. ASSUME Respond(s) PROVE Parts'
  <2>1. Head(sent[s]) \in Calls /\ Tail(sent[s]) \in Seq(Calls)
    BY <1>8, HeadTailProperties DEF Respond, CallTypes
  <2>2. receiveResolvers[s] # <<>> => /\ Head(receiveResolvers[s]) \in Calls
                                      /\ Tail(receiveResolvers[s]) \in Seq(Calls)
    BY HeadTailProperties DEF CallTypes
  <2>3. StateTypes' /\ SocketTypes'
    BY <1>8 DEF Respond, StateTypes, SocketTypes, socketVars
  <2>4. RetryTypes'
    BY <1>8 DEF Respond, RetryTypes, StartsPing
  <2>5. CallTypes'
    <3>1. sent' \in [Sockets -> Seq(Calls)]
      BY <1>8, <2>1 DEF Respond, CallTypes
    <3>2. receiveResolvers' \in [Sockets -> Seq(Calls)]
      BY <1>8, <2>2 DEF Respond, CallTypes
    <3>3. /\ phase' \in [Calls -> Phases]
          /\ via' \in [Calls -> Sockets \cup {NoSocket}]
      BY <1>8, RejectType DEF Respond, CallTypes
    <3> QED BY <3>1, <3>2, <3>3 DEF CallTypes
  <2> QED BY <2>3, <2>4, <2>5
<1>9. ASSUME Collect(s) PROVE Parts'
  <2>1. <<>> \in Seq(Calls)
    BY EmptySeq
  <2>2. StateTypes' /\ RetryTypes' /\ SocketTypes'
    BY <1>9 DEF Collect, StateTypes, RetryTypes, SocketTypes, Stages, Natives
  <2>3. CallTypes'
    BY <1>9, <2>1, RejectType DEF Collect, CallTypes
  <2> QED BY <2>2, <2>3
<1> QED BY <1>1, <1>2, <1>3, <1>4, <1>5, <1>6, <1>7, <1>8, <1>9 DEF SocketStep

(* What one call does keeps the types.                                       *)
LEMMA CallStepType ==
  ASSUME Parts, NEW c \in Calls, CallStep(c)
  PROVE  Parts'
<1> USE DEF Parts
<1>1. ASSUME PairingLookedUp(c) PROVE Parts'
  BY <1>1 DEF PairingLookedUp, StateTypes, RetryTypes, SocketTypes, CallTypes, Phases,
              stateVars, socketVars
<1>2. ASSUME KnownPairingSaved(c) PROVE Parts'
  BY <1>2 DEF KnownPairingSaved, StateTypes, RetryTypes, SocketTypes, CallTypes, Phases,
              ConnectionStates, socketVars
<1>3. ASSUME NewPairingSaved(c) PROVE Parts'
  BY <1>3 DEF NewPairingSaved, StateTypes, RetryTypes, SocketTypes, CallTypes, Phases,
              ConnectionStates, socketVars
<1>4. ASSUME SendEncrypted(c) PROVE Parts'
  <2>1. \A s \in Sockets : /\ Append(sent[s], c) \in Seq(Calls)
                           /\ Append(receiveResolvers[s], c) \in Seq(Calls)
    BY AppendProperties DEF CallTypes
  <2>2. sent' \in [Sockets -> Seq(Calls)]
    BY <1>4, <2>1 DEF SendEncrypted, CallTypes
  <2>3. receiveResolvers' \in [Sockets -> Seq(Calls)]
    BY <1>4, <2>1 DEF SendEncrypted, CallTypes, StateTypes
  <2>4. /\ phase' \in [Calls -> Phases]
        /\ via' \in [Calls -> Sockets \cup {NoSocket}]
    BY <1>4, RejectType DEF SendEncrypted, CallTypes, Phases
  <2>5. RetryTypes'
    BY <1>4 DEF SendEncrypted, RetryTypes, StartsPing
  <2>6. StateTypes' /\ SocketTypes'
    BY <1>4 DEF SendEncrypted, StateTypes, SocketTypes, stateVars, socketVars
  <2> QED BY <2>2, <2>3, <2>4, <2>5, <2>6 DEF CallTypes
<1> QED BY <1>1, <1>2, <1>3, <1>4 DEF CallStep

(* Every step keeps the types.                                               *)
LEMMA TypeNext == TypeOK /\ [Next]_vars => TypeOK'
<1> SUFFICES ASSUME Parts, [Next]_vars PROVE Parts'
  BY DEF Parts, TypeOK, StateTypes, RetryTypes, SocketTypes, CallTypes
<1> USE DEF Parts
<1>1. ASSUME TryReconnect PROVE Parts'
  <2>1. StateTypes' /\ SocketTypes'
    BY <1>1, DoConnectType
    DEF TryReconnect, StateTypes, SocketTypes, stateVars, socketVars
  <2>2. CallTypes'
    BY <1>1 DEF TryReconnect, CallTypes, callVars
  <2>3. timers' \in Nat
    BY <1>1 DEF TryReconnect, RetryTypes
  <2>4. UNCHANGED <<pinging, reconnectAttempts, storedPaired>>
    BY <1>1 DEF TryReconnect
  <2> QED BY <2>1, <2>2, <2>3, <2>4 DEF RetryTypes
<1>2. ASSUME NEW c \in Fetches \cup Pings, StartCall(c) PROVE Parts'
  BY <1>2 DEF StartCall, StateTypes, RetryTypes, SocketTypes, CallTypes, Phases, Calls,
              stateVars, socketVars
<1>3. ASSUME WorkerRestart PROVE Parts'
  <2>1. <<>> \in Seq(Calls)
    BY EmptySeq
  <2>2. StateTypes' /\ SocketTypes'
    BY <1>3 DEF WorkerRestart, StateTypes, SocketTypes, ConnectionStates, Stages, Natives
  <2>3. CallTypes'
    BY <1>3, <2>1 DEF WorkerRestart, CallTypes, Phases
  <2>4. RetryTypes'
    <3>1. reconnectAttempts' \in 0 .. MAX_RECONNECT_ATTEMPTS + 1
      BY <1>3, ConstantsAssumption DEF WorkerRestart
    <3> QED BY <1>3, <3>1 DEF WorkerRestart, RetryTypes
  <2> QED BY <2>2, <2>3, <2>4
<1>4. ASSUME UNCHANGED vars PROVE Parts'
  BY <1>4 DEF vars, StateTypes, RetryTypes, SocketTypes, CallTypes, stateVars,
              socketVars, callVars
<1> QED BY <1>1, <1>2, <1>3, <1>4, UserStepType, SocketStepType, CallStepType DEF Next

(* The worker starts in its types.                                           *)
LEMMA TypeInit == Init => TypeOK
<1> SUFFICES ASSUME Init PROVE TypeOK
  OBVIOUS
<1>1. <<>> \in Seq(Calls)
  BY EmptySeq
<1>2. reconnectAttempts \in 0 .. MAX_RECONNECT_ATTEMPTS + 1
  BY ConstantsAssumption DEF Init
<1> QED BY <1>1, <1>2 DEF Init, TypeOK, ConnectionStates, Stages, Natives, Phases

(* Type correctness of the background worker; in particular the attempts     *)
(* counted never pass their limit by more than one.                          *)
THEOREM TypeCorrect == Spec => []TypeOK
  BY TypeInit, TypeNext, PTL DEF Spec
-----------------------------------------------------------------------------
Connecting == connectionState = "connecting"

Pending == ws # NoSocket /\ IsPending(ws)

(* A new attempt is pending.                                                 *)
LEMMA DoConnectPends ==
  ASSUME TypeOK, DoConnect
  PROVE  Pending'
<1>1. PICK s \in Sockets : stage' = [stage EXCEPT ![s] = "generating"] /\ ws' = s
  BY DEF DoConnect
<1>2. stage'[s] = "generating" /\ s # NoSocket
  BY <1>1, ConstantsAssumption DEF TypeOK
<1> QED BY <1>1, <1>2 DEF Pending, IsPending, Generating

(* What happens to an object while the state stays CONNECTING leaves the     *)
(* object of ws pending: a step of its own takes it further, or changes the  *)
(* state; a step of another object does not touch it.                        *)
LEMMA SocketStepPends ==
  ASSUME TypeOK, ConnectingIsPending, NEW s \in Sockets, SocketStep(s), Connecting'
  PROVE  Pending'
<1> USE DEF Connecting, Pending, IsPending, Generating
<1>1. ASSUME KeyGenerated(s) PROVE Pending'
  BY <1>1 DEF KeyGenerated, ConnectingIsPending, TypeOK, stateVars
<1>2. ASSUME SocketOpened(s) PROVE Pending'
  BY <1>2 DEF SocketOpened, ConnectingIsPending, TypeOK, stateVars
<1>3. ASSUME ServerKey(s) PROVE Pending'
  BY <1>3 DEF ServerKey, ConnectingIsPending, TypeOK, stateVars
<1>4. ~ HandshakeDone(s)
  BY DEF HandshakeDone
<1>5. ~ (HandshakeFails(s) \/ PairTimeout(s) \/ ConnectionRefused(s) \/ OnClose(s))
  BY DEF HandshakeFails, PairTimeout, ConnectionRefused, ConnectRejected, OnClose
<1>6. ASSUME Respond(s) PROVE Pending'
  BY <1>6 DEF Respond, ConnectingIsPending, socketVars
<1>7. ASSUME Collect(s) PROVE Pending'
  BY <1>7 DEF Collect, ConnectingIsPending, TypeOK
<1> QED BY <1>1, <1>2, <1>3, <1>4, <1>5, <1>6, <1>7 DEF SocketStep

(* Every step keeps CONNECTING with an attempt that is pending.              *)
LEMMA PendingNext == TypeOK /\ ConnectingIsPending /\ [Next]_vars => ConnectingIsPending'
<1> SUFFICES ASSUME TypeOK, ConnectingIsPending, [Next]_vars, Connecting'
             PROVE  Pending'
  BY DEF ConnectingIsPending, Connecting, Pending, IsPending
<1>1. ASSUME UserStep PROVE Pending'
  <2>1. ASSUME UserConnect PROVE Pending'
    <3>1. CASE Connecting
      BY <2>1, <3>1 DEF UserConnect, ConnectingIsPending, Connecting, Pending, IsPending,
                        socketVars
    <3>2. CASE ~Connecting
      BY <2>1, <3>2, DoConnectPends DEF UserConnect, Connecting
    <3> QED BY <3>1, <3>2
  <2>2. ~ (RejectPairing \/ DoDisconnect)
    BY DEF RejectPairing, DoDisconnect, Connecting
  <2>3. ASSUME ResetPairing \/ \E c \in Confirms : ConfirmPairing(c) PROVE Pending'
    BY <2>3 DEF ResetPairing, ConfirmPairing, ConnectingIsPending, Connecting, Pending,
                IsPending, stateVars, socketVars
  <2> QED BY <1>1, <2>1, <2>2, <2>3 DEF UserStep
<1>2. ASSUME TryReconnect PROVE Pending'
  <2>1. CASE connectionState = "disconnected"
    BY <1>2, <2>1, DoConnectPends DEF TryReconnect
  <2>2. CASE connectionState # "disconnected"
    BY <1>2, <2>2 DEF TryReconnect, ConnectingIsPending, Connecting, Pending, IsPending,
                      stateVars, socketVars
  <2> QED BY <2>1, <2>2
<1>3. ASSUME NEW s \in Sockets, SocketStep(s) PROVE Pending'
  BY <1>3, SocketStepPends
<1>4. ASSUME NEW c \in Calls, CallStep(c) PROVE Pending'
  <2>1. UNCHANGED <<connectionState, ws, socketVars>>
    BY <1>4 DEF CallStep, PairingLookedUp, KnownPairingSaved, NewPairingSaved,
                SendEncrypted, Connecting, stateVars
  <2> QED BY <2>1 DEF ConnectingIsPending, Connecting, Pending, IsPending, socketVars
<1>5. ASSUME NEW c \in Fetches \cup Pings, StartCall(c) PROVE Pending'
  BY <1>5 DEF StartCall, ConnectingIsPending, Connecting, Pending, IsPending,
              stateVars, socketVars
<1>6. ~ WorkerRestart
  BY DEF WorkerRestart, Connecting
<1>7. ASSUME UNCHANGED vars PROVE Pending'
  BY <1>7 DEF vars, ConnectingIsPending, Connecting, Pending, IsPending,
              stateVars, socketVars
<1> QED BY <1>1, <1>2, <1>3, <1>4, <1>5, <1>6, <1>7 DEF Next

(* CONNECTING never outlives its attempt: whatever older objects, retries,   *)
(* stale handlers and the user do, the state that makes doConnect return     *)
(* early is only ever seen with an attempt that will still end it.           *)
THEOREM NeverStuckConnecting == Spec => []ConnectingIsPending
<1>1. Init => ConnectingIsPending
  BY DEF Init, ConnectingIsPending
<1> QED BY <1>1, PendingNext, TypeCorrect, PTL DEF Spec
-----------------------------------------------------------------------------
(* Nobody starts or stops to wait, and the lines stay as they are.           *)
Quiet ==
  /\ UNCHANGED receiveResolvers
  /\ \A c \in Calls : phase'[c] = "awaiting" <=> phase[c] = "awaiting"

(* When nobody starts or stops to wait, everybody keeps the one place.       *)
LEMMA QuietWaits ==
  ASSUME WaitsOnce, Quiet
  PROVE  WaitsOnce'
  BY DEF WaitsOnce, Quiet

(* The line of one object is dropped and those who waited in it are rejected.*)
Dropped(s) ==
  /\ receiveResolvers' = [receiveResolvers EXCEPT ![s] = <<>>]
  /\ Reject(ToSet(receiveResolvers[s]))

(* A line that is dropped leaves nobody of it waiting, and the others where  *)
(* they are.                                                                 *)
LEMMA DroppedWaits ==
  ASSUME TypeOK, WaitsOnce, NEW s \in Sockets, Dropped(s)
  PROVE  WaitsOnce'
<1>1. /\ receiveResolvers'[s] = <<>> /\ Len(<<>>) = 0 /\ ToSet(<<>>) = {}
      /\ \A t \in Sockets \ {s} : receiveResolvers'[t] = receiveResolvers[t]
  BY DEF Dropped, TypeOK, ToSet
<1> SUFFICES ASSUME NEW c \in Calls
             PROVE  /\ phase'[c] = "awaiting"
                         <=> \E t \in Sockets : c \in ToSet(receiveResolvers'[t])
                    /\ \A t, u \in Sockets :
                         \A i \in 1 .. Len(receiveResolvers'[t]),
                            j \in 1 .. Len(receiveResolvers'[u]) :
                           receiveResolvers'[t][i] = c /\ receiveResolvers'[u][j] = c
                             => t = u /\ i = j
  BY DEF WaitsOnce
<1>2. \A t \in Sockets : /\ DOMAIN receiveResolvers[t] = 1 .. Len(receiveResolvers[t])
                         /\ Len(receiveResolvers[t]) \in Nat
  BY DEF TypeOK
<1>3. CASE c \in ToSet(receiveResolvers[s])
  <2>1. phase'[c] = "idle"
    BY <1>3 DEF Dropped, Reject
  <2>2. \A t \in Sockets \ {s} : c \notin ToSet(receiveResolvers[t])
    BY <1>2, <1>3 DEF WaitsOnce, ToSet
  <2>3. \A t \in Sockets : c \notin ToSet(receiveResolvers'[t])
    BY <1>1, <2>2
  <2>4. \A t \in Sockets : \A i \in 1 .. Len(receiveResolvers'[t]) : receiveResolvers'[t][i] # c
    BY <1>1, <1>2, <2>2 DEF ToSet
  <2> QED BY <2>1, <2>3, <2>4
<1>4. CASE c \notin ToSet(receiveResolvers[s])
  <2>1. phase'[c] = phase[c]
    BY <1>4 DEF Dropped, Reject
  <2>2. (\E t \in Sockets : c \in ToSet(receiveResolvers'[t]))
          <=> \E t \in Sockets : c \in ToSet(receiveResolvers[t])
    BY <1>1, <1>4
  <2>3. \A t \in Sockets : \A i \in 1 .. Len(receiveResolvers'[t]) :
           t # s /\ receiveResolvers'[t] = receiveResolvers[t]
    BY <1>1
  <2> QED BY <2>1, <2>2, <2>3 DEF WaitsOnce
<1> QED BY <1>3, <1>4

(* A call that waited nowhere joins a line.                                  *)
LEMMA JoinedWaits ==
  ASSUME TypeOK, WaitsOnce, NEW s \in Sockets, NEW c \in Calls, phase[c] # "awaiting",
         receiveResolvers' = [receiveResolvers EXCEPT ![s] = Append(@, c)],
         phase' = [phase EXCEPT ![c] = "awaiting"]
  PROVE  WaitsOnce'
<1> DEFINE n == Len(receiveResolvers[s])
<1>1. /\ n \in Nat /\ Len(receiveResolvers'[s]) = n + 1
      /\ receiveResolvers'[s][n + 1] = c
      /\ \A i \in 1 .. n : receiveResolvers'[s][i] = receiveResolvers[s][i]
      /\ \A t \in Sockets \ {s} : receiveResolvers'[t] = receiveResolvers[t]
      /\ \A i \in 1 .. n + 1 : i \in 1 .. n \/ i = n + 1
      /\ 1 .. n \subseteq 1 .. n + 1 /\ n + 1 \in 1 .. n + 1
  BY DEF TypeOK
<1>2. \A t \in Sockets : /\ DOMAIN receiveResolvers[t] = 1 .. Len(receiveResolvers[t])
                         /\ DOMAIN receiveResolvers'[t] = 1 .. Len(receiveResolvers'[t])
  <2>1. receiveResolvers' \in [Sockets -> Seq(Calls)]
    BY AppendProperties DEF TypeOK
  <2> QED BY <2>1 DEF TypeOK
<1>3. \A d \in Calls : phase'[d] = IF d = c THEN "awaiting" ELSE phase[d]
  BY DEF TypeOK
<1>4. \A t \in Sockets : \A i \in 1 .. Len(receiveResolvers[t]) : receiveResolvers[t][i] # c
  BY <1>2 DEF WaitsOnce, ToSet
<1>5. \A t \in Sockets : \A i \in 1 .. Len(receiveResolvers'[t]) :
         \/ t = s /\ i = n + 1 /\ receiveResolvers'[t][i] = c
         \/ /\ i \in 1 .. Len(receiveResolvers[t])
            /\ receiveResolvers'[t][i] = receiveResolvers[t][i]
            /\ receiveResolvers'[t][i] # c
  BY <1>1, <1>4
<1>6. ASSUME NEW d \in Calls
      PROVE  phase'[d] = "awaiting" <=> \E t \in Sockets : d \in ToSet(receiveResolvers'[t])
  <2>1. CASE d = c
    BY <1>1, <1>2, <1>3, <2>1 DEF ToSet
  <2>2. CASE d # c
    <3>1. ASSUME NEW t \in Sockets
          PROVE  d \in ToSet(receiveResolvers'[t]) <=> d \in ToSet(receiveResolvers[t])
      <4>1. CASE t = s
        BY <1>1, <1>2, <2>2, <4>1 DEF ToSet
      <4>2. CASE t # s
        BY <1>1, <4>2
      <4> QED BY <4>1, <4>2
    <3> QED BY <1>3, <2>2, <3>1 DEF WaitsOnce
  <2> QED BY <2>1, <2>2
<1>7. ASSUME NEW d \in Calls, NEW t \in Sockets, NEW u \in Sockets,
             NEW i \in 1 .. Len(receiveResolvers'[t]),
             NEW j \in 1 .. Len(receiveResolvers'[u]),
             receiveResolvers'[t][i] = d, receiveResolvers'[u][j] = d
      PROVE  t = u /\ i = j
  BY <1>5, <1>7 DEF WaitsOnce
<1> QED BY <1>6, <1>7 DEF WaitsOnce

(* The oldest of a line is settled.                                          *)
LEMMA SettledWaits ==
  ASSUME TypeOK, WaitsOnce, NEW s \in Sockets, receiveResolvers[s] # <<>>,
         receiveResolvers' = [receiveResolvers EXCEPT ![s] = Tail(@)],
         Reject({Head(receiveResolvers[s])})
  PROVE  WaitsOnce'
<1> DEFINE n == Len(receiveResolvers[s])
           c == Head(receiveResolvers[s])
<1>1. /\ n \in Nat /\ n > 0 /\ c \in Calls /\ c = receiveResolvers[s][1]
      /\ Len(Tail(receiveResolvers[s])) = n - 1
      /\ Tail(receiveResolvers[s]) \in Seq(Calls)
      /\ \A i \in 1 .. n - 1 : Tail(receiveResolvers[s])[i] = receiveResolvers[s][i + 1]
  BY HeadTailProperties DEF TypeOK
<1>2. /\ receiveResolvers'[s] = Tail(receiveResolvers[s])
      /\ \A t \in Sockets \ {s} : receiveResolvers'[t] = receiveResolvers[t]
      /\ receiveResolvers' \in [Sockets -> Seq(Calls)]
  BY <1>1 DEF TypeOK
<1>3. \A t \in Sockets : /\ DOMAIN receiveResolvers[t] = 1 .. Len(receiveResolvers[t])
                         /\ DOMAIN receiveResolvers'[t] = 1 .. Len(receiveResolvers'[t])
  BY <1>2 DEF TypeOK
<1>4. \A d \in Calls : phase'[d] = IF d = c THEN "idle" ELSE phase[d]
  BY DEF Reject
<1>5. \A t \in Sockets : \A i \in 1 .. Len(receiveResolvers[t]) :
         receiveResolvers[t][i] = c => t = s /\ i = 1
  <2>1. 1 \in 1 .. n
    BY <1>1
  <2> QED BY <1>1, <2>1 DEF WaitsOnce
(* What is left in a line was there before, one place further back in that   *)
(* of s, and is not the call that was settled.                               *)
<1>6. ASSUME NEW t \in Sockets, NEW i \in 1 .. Len(receiveResolvers'[t])
      PROVE  LET k == IF t = s THEN i + 1 ELSE i
             IN  /\ k \in 1 .. Len(receiveResolvers[t])
                 /\ receiveResolvers'[t][i] = receiveResolvers[t][k]
                 /\ receiveResolvers'[t][i] # c
  <2>1. CASE t = s
    <3>1. i \in 1 .. n - 1 /\ i + 1 \in 1 .. n /\ i + 1 # 1
      BY <1>1, <1>2, <2>1
    <3> QED BY <1>1, <1>2, <1>5, <2>1, <3>1
  <2>2. CASE t # s
    BY <1>2, <1>5, <2>2
  <2> QED BY <2>1, <2>2
<1>7. ASSUME NEW d \in Calls, d # c, NEW t \in Sockets
      PROVE  d \in ToSet(receiveResolvers'[t]) <=> d \in ToSet(receiveResolvers[t])
  <2>1. CASE t = s
    <3>1. ASSUME NEW i \in 1 .. n, receiveResolvers[s][i] = d
          PROVE  i - 1 \in 1 .. n - 1 /\ receiveResolvers'[s][i - 1] = d
      <4>1. i # 1
        BY <1>1, <1>7, <3>1
      <4>2. i - 1 \in 1 .. n - 1 /\ (i - 1) + 1 = i
        BY <1>1, <4>1
      <4> QED BY <1>1, <1>2, <3>1, <4>2
    <3>2. /\ DOMAIN receiveResolvers'[s] = 1 .. n - 1
          /\ DOMAIN receiveResolvers[s] = 1 .. n
      BY <1>1, <1>2, <1>3
    <3>3. ASSUME NEW i \in 1 .. n - 1, receiveResolvers'[s][i] = d
          PROVE  i + 1 \in 1 .. n /\ receiveResolvers[s][i + 1] = d
      BY <1>1, <1>2, <3>3
    <3> QED BY <2>1, <3>1, <3>2, <3>3 DEF ToSet
  <2>2. CASE t # s
    BY <1>2, <2>2
  <2> QED BY <2>1, <2>2
<1>8. ASSUME NEW d \in Calls
      PROVE  phase'[d] = "awaiting" <=> \E t \in Sockets : d \in ToSet(receiveResolvers'[t])
  <2>1. CASE d = c
    BY <1>3, <1>4, <1>6, <2>1 DEF ToSet
  <2>2. CASE d # c
    BY <1>4, <1>7, <2>2 DEF WaitsOnce
  <2> QED BY <2>1, <2>2
<1>9. ASSUME NEW d \in Calls, NEW t \in Sockets, NEW u \in Sockets,
             NEW i \in 1 .. Len(receiveResolvers'[t]),
             NEW j \in 1 .. Len(receiveResolvers'[u]),
             receiveResolvers'[t][i] = d, receiveResolvers'[u][j] = d
      PROVE  t = u /\ i = j
  <2> DEFINE k == IF t = s THEN i + 1 ELSE i
             l == IF u = s THEN j + 1 ELSE j
  <2>1. /\ k \in 1 .. Len(receiveResolvers[t]) /\ receiveResolvers[t][k] = d
        /\ l \in 1 .. Len(receiveResolvers[u]) /\ receiveResolvers[u][l] = d
    BY <1>6, <1>9
  <2>2. t = u /\ k = l
    BY <2>1 DEF WaitsOnce
  <2>3. i \in Int /\ j \in Int
    OBVIOUS
  <2> QED BY <2>2, <2>3
<1> QED BY <1>8, <1>9 DEF WaitsOnce

(* Closing the object of ws drops its line, or there is none.                *)
LEMMA CloseWsWaits ==
  ASSUME TypeOK, WaitsOnce, CloseWs
  PROVE  WaitsOnce'
<1>1. CASE ws = NoSocket
  BY <1>1, QuietWaits DEF CloseWs, callVars, Quiet
<1>2. CASE ws # NoSocket
  BY <1>2, DroppedWaits DEF CloseWs, CloseSocket, Dropped, TypeOK
<1> QED BY <1>1, <1>2

(* A step of an object drops its line, settles its oldest call, or is quiet. *)
LEMMA SocketStepWaits ==
  ASSUME TypeOK, WaitsOnce, NEW s \in Sockets, SocketStep(s)
  PROVE  WaitsOnce'
<1>1. ASSUME \/ KeyGenerated(s) \/ SocketOpened(s) \/ ServerKey(s)
             \/ HandshakeDone(s) \/ HandshakeFails(s) \/ PairTimeout(s)
      PROVE  WaitsOnce'
  <2>1. UNCHANGED callVars
    BY <1>1 DEF KeyGenerated, SocketOpened, ServerKey, HandshakeDone, HandshakeFails,
                PairTimeout
  <2> QED BY <2>1, QuietWaits DEF callVars, Quiet
<1>2. ASSUME ConnectionRefused(s) \/ OnClose(s) \/ Collect(s) PROVE WaitsOnce'
  <2>1. Dropped(s)
    BY <1>2 DEF ConnectionRefused, OnClose, Collect, Closed, Dropped
  <2> QED BY <2>1, DroppedWaits
<1>3. ASSUME Respond(s) PROVE WaitsOnce'
  <2>1. CASE receiveResolvers[s] = <<>>
    BY <1>3, <2>1, QuietWaits DEF Respond, Quiet
  <2>2. CASE receiveResolvers[s] # <<>>
    BY <1>3, <2>2, SettledWaits DEF Respond
  <2> QED BY <2>1, <2>2
<1> QED BY <1>1, <1>2, <1>3 DEF SocketStep

(* A step of a call puts it in one line, or is quiet.                        *)
LEMMA CallStepWaits ==
  ASSUME TypeOK, WaitsOnce, NEW c \in Calls, CallStep(c)
  PROVE  WaitsOnce'
<1>1. ASSUME PairingLookedUp(c) \/ KnownPairingSaved(c) \/ NewPairingSaved(c)
      PROVE  WaitsOnce'
  <2>1. Quiet
    BY <1>1 DEF PairingLookedUp, KnownPairingSaved, NewPairingSaved, Quiet, TypeOK
  <2> QED BY <2>1, QuietWaits
<1>2. ASSUME SendEncrypted(c) PROVE WaitsOnce'
  <2>1. CASE held[via[c]] /\ ws # NoSocket
    <3>1. ws \in Sockets
      BY <2>1 DEF TypeOK
    <3>2. /\ phase[c] # "awaiting"
          /\ receiveResolvers' = [receiveResolvers EXCEPT ![ws] = Append(@, c)]
          /\ phase' = [phase EXCEPT ![c] = "awaiting"]
      BY <1>2, <2>1 DEF SendEncrypted
    <3> QED BY <3>1, <3>2, JoinedWaits
  <2>2. CASE ~(held[via[c]] /\ ws # NoSocket)
    <3>1. Quiet
      BY <1>2, <2>2 DEF SendEncrypted, Reject, Quiet, TypeOK
    <3> QED BY <3>1, QuietWaits
  <2> QED BY <2>1, <2>2
<1> QED BY <1>1, <1>2 DEF CallStep

(* Every step keeps the one place of each call that waits.                   *)
LEMMA WaitsOnceNext == TypeOK /\ WaitsOnce /\ [Next]_vars => WaitsOnce'
<1> SUFFICES ASSUME TypeOK, WaitsOnce, [Next]_vars PROVE WaitsOnce'
  OBVIOUS
<1>1. ASSUME UserStep PROVE WaitsOnce'
  <2>1. ASSUME UserConnect \/ ResetPairing PROVE WaitsOnce'
    BY <2>1, QuietWaits DEF UserConnect, ResetPairing, callVars, Quiet
  <2>2. ASSUME RejectPairing \/ DoDisconnect PROVE WaitsOnce'
    BY <2>2, CloseWsWaits DEF RejectPairing, DoDisconnect
  <2>3. ASSUME NEW c \in Confirms, ConfirmPairing(c) PROVE WaitsOnce'
    <3>1. Quiet
      BY <2>3 DEF ConfirmPairing, Quiet, TypeOK, Calls
    <3> QED BY <3>1, QuietWaits
  <2> QED BY <1>1, <2>1, <2>2, <2>3 DEF UserStep
<1>2. ASSUME TryReconnect PROVE WaitsOnce'
  BY <1>2, QuietWaits DEF TryReconnect, callVars, Quiet
<1>3. ASSUME NEW s \in Sockets, SocketStep(s) PROVE WaitsOnce'
  BY <1>3, SocketStepWaits
<1>4. ASSUME NEW c \in Calls, CallStep(c) PROVE WaitsOnce'
  BY <1>4, CallStepWaits
<1>5. ASSUME NEW c \in Fetches \cup Pings, StartCall(c) PROVE WaitsOnce'
  <2>1. Quiet
    BY <1>5 DEF StartCall, Quiet, TypeOK, Calls
  <2> QED BY <2>1, QuietWaits
<1>6. ASSUME WorkerRestart PROVE WaitsOnce'
  BY <1>6 DEF WorkerRestart, WaitsOnce, ToSet
<1>7. ASSUME UNCHANGED vars PROVE WaitsOnce'
  BY <1>7, QuietWaits DEF vars, callVars, Quiet
<1> QED BY <1>1, <1>2, <1>3, <1>4, <1>5, <1>6, <1>7 DEF Next

(* Every call that waits has its one place in one line, although send() and  *)
(* receive() may use different objects and lines are dropped with theirs.    *)
THEOREM EveryCallWaitsOnce == Spec => []WaitsOnce
<1>1. Init => WaitsOnce
  BY DEF Init, WaitsOnce, ToSet
<1> QED BY <1>1, WaitsOnceNext, TypeCorrect, PTL DEF Spec
-----------------------------------------------------------------------------
(* An object that is free, or whose native socket has closed, holds no       *)
(* socket to send on, and no response to it is due.                          *)
SpentIsSilent ==
  \A s \in Sockets : stage[s] = "unused" \/ native[s] = "closed"
                      => ~held[s] /\ sent[s] = <<>>

ParkInv == CurrentNeverParks /\ SpentIsSilent

(* No line or request changes and no object becomes spent.                   *)
LEMMA ObjectsParkNothing ==
  ASSUME TypeOK, ParkInv, UNCHANGED <<sent, receiveResolvers>>,
         ws' = ws \/ ws' = NoSocket,
         \A s \in Sockets :
           stage'[s] = "unused" \/ native'[s] = "closed"
             => (stage[s] = "unused" \/ native[s] = "closed") /\ held'[s] = held[s]
  PROVE  ParkInv'
  BY DEF ParkInv, CurrentNeverParks, SpentIsSilent

(* ws takes an unused object, on which nothing is due.                       *)
LEMMA DoConnectParksNothing ==
  ASSUME TypeOK, ParkInv, DoConnect, UNCHANGED <<sent, receiveResolvers>>
  PROVE  ParkInv'
<1>1. PICK s \in Sockets : /\ stage[s] = "unused" /\ ws' = s
                           /\ stage' = [stage EXCEPT ![s] = "generating"]
  BY DEF DoConnect
<1>2. Len(<<>>) = 0 /\ sent[s] = <<>> /\ Len(receiveResolvers[s]) \in Nat
  BY <1>1 DEF ParkInv, SpentIsSilent, TypeOK
<1>3. SpentIsSilent'
  BY <1>1 DEF DoConnect, ParkInv, SpentIsSilent, TypeOK
<1> QED BY <1>1, <1>2, <1>3 DEF ParkInv, CurrentNeverParks

(* An object that closes has nothing left to send on or to answer.           *)
LEMMA ClosedParksNothing ==
  ASSUME TypeOK, ParkInv, NEW s \in Sockets, Closed(s), ws' = ws \/ ws' = NoSocket,
         \A t \in Sockets : stage'[t] = "unused" => stage[t] = "unused"
  PROVE  ParkInv'
<1>1. SpentIsSilent'
  BY DEF Closed, ParkInv, SpentIsSilent, TypeOK
<1>2. CurrentNeverParks'
  <2>1. \A t \in Sockets : \/ sent'[t] = sent[t] /\ receiveResolvers'[t] = receiveResolvers[t]
                           \/ sent'[t] = <<>> /\ receiveResolvers'[t] = <<>>
    BY DEF Closed, TypeOK
  <2>2. Len(<<>>) <= Len(<<>>)
    OBVIOUS
  <2> QED BY <2>1, <2>2 DEF ParkInv, CurrentNeverParks, TypeOK
<1> QED BY <1>1, <1>2 DEF ParkInv

(* When ws is closed it is dropped as well.                                  *)
LEMMA CloseWsParksNothing ==
  ASSUME TypeOK, ParkInv, CloseWs, ws' = NoSocket
  PROVE  ParkInv'
<1>1. CurrentNeverParks'
  BY DEF CurrentNeverParks
<1>2. CASE ws = NoSocket
  BY <1>1, <1>2 DEF CloseWs, ParkInv, SpentIsSilent, socketVars, callVars
<1>3. CASE ws # NoSocket
  <2>1. CloseSocket(ws) /\ ws \in Sockets
    BY <1>3 DEF CloseWs, TypeOK
  <2>2. SpentIsSilent'
    BY <2>1 DEF CloseSocket, ParkInv, SpentIsSilent, TypeOK
  <2> QED BY <1>1, <2>2 DEF ParkInv
<1> QED BY <1>2, <1>3

(* What happens to one object parks no response on that of ws: a response    *)
(* that comes takes one request and at most one call off.                    *)
LEMMA SocketStepParksNothing ==
  ASSUME TypeOK, ParkInv, NEW s \in Sockets, SocketStep(s)
  PROVE  ParkInv'
<1>1. ASSUME KeyGenerated(s) \/ ServerKey(s) \/ HandshakeDone(s) \/ HandshakeFails(s)
      PROVE  ParkInv'
  <2>1. UNCHANGED <<sent, receiveResolvers, native, held>>
    BY <1>1 DEF KeyGenerated, ServerKey, HandshakeDone, HandshakeFails, callVars
  <2>2. ws' = ws \/ ws' = NoSocket
    BY <1>1 DEF KeyGenerated, ServerKey, HandshakeDone, HandshakeFails, ConnectRejected
  <2>3. \A t \in Sockets : stage'[t] = "unused" => stage[t] = "unused"
    BY <1>1 DEF KeyGenerated, ServerKey, HandshakeDone, HandshakeFails, ConnectRejected,
                TypeOK
  <2> QED BY <2>1, <2>2, <2>3, ObjectsParkNothing
<1>2. ASSUME SocketOpened(s) PROVE ParkInv'
  <2>1. /\ stage'[s] = "waiting" /\ native'[s] = "live"
        /\ \A t \in Sockets \ {s} : /\ stage'[t] = stage[t] /\ native'[t] = native[t]
                                    /\ held'[t] = held[t]
    BY <1>2 DEF SocketOpened, TypeOK
  <2>2. UNCHANGED <<sent, receiveResolvers, ws>>
    BY <1>2 DEF SocketOpened, callVars
  <2>3. \A t \in Sockets :
          stage'[t] = "unused" \/ native'[t] = "closed"
            => (stage[t] = "unused" \/ native[t] = "closed") /\ held'[t] = held[t]
    BY <2>1
  <2> QED BY <2>2, <2>3, ObjectsParkNothing
<1>3. ASSUME PairTimeout(s) PROVE ParkInv'
  <2>1. \A t \in Sockets : /\ stage'[t] = "unused" => stage[t] = "unused"
                           /\ native'[t] = "closed" => native[t] = "closed"
    BY <1>3 DEF PairTimeout, ConnectRejected, TypeOK
  <2>2. UNCHANGED <<sent, receiveResolvers, held>> /\ ws' = NoSocket
    BY <1>3 DEF PairTimeout, ConnectRejected, callVars
  <2> QED BY <2>1, <2>2, ObjectsParkNothing
<1>4. ASSUME ConnectionRefused(s) PROVE ParkInv'
  BY <1>4, ClosedParksNothing DEF ConnectionRefused, ConnectRejected, TypeOK
<1>5. ASSUME OnClose(s) PROVE ParkInv'
  BY <1>5, ClosedParksNothing DEF OnClose
<1>6. ASSUME Respond(s) PROVE ParkInv'
  <2>1. /\ Len(sent'[s]) = Len(sent[s]) - 1 /\ Len(sent[s]) \in Nat /\ Len(sent[s]) > 0
        /\ \A t \in Sockets \ {s} : /\ sent'[t] = sent[t]
                                    /\ receiveResolvers'[t] = receiveResolvers[t]
    BY <1>6, HeadTailProperties DEF Respond, TypeOK
  <2>2. SpentIsSilent'
    BY <1>6 DEF Respond, ParkInv, SpentIsSilent, TypeOK, socketVars
  <2>3. CASE ws = s
    <3>1. /\ s # NoSocket /\ Len(<<>>) = 0 /\ Len(receiveResolvers[s]) \in Nat
          /\ Len(sent[s]) <= Len(receiveResolvers[s])
      BY <2>3, ConstantsAssumption DEF ParkInv, CurrentNeverParks, TypeOK
    <3>2. receiveResolvers[s] # <<>>
      BY <2>1, <3>1
    <3>3. Len(receiveResolvers'[s]) = Len(receiveResolvers[s]) - 1
      BY <1>6, <3>2, HeadTailProperties DEF Respond, TypeOK
    <3>4. ws' = s
      BY <1>6, <2>3 DEF Respond
    <3> QED BY <2>1, <2>2, <3>1, <3>3, <3>4 DEF ParkInv, CurrentNeverParks
  <2>4. CASE ws # s
    BY <1>6, <2>1, <2>2, <2>4 DEF Respond, ParkInv, CurrentNeverParks, TypeOK
  <2> QED BY <2>3, <2>4
<1>7. ASSUME Collect(s) PROVE ParkInv'
  BY <1>7 DEF Collect, ParkInv, CurrentNeverParks, SpentIsSilent, TypeOK
<1> QED BY <1>1, <1>2, <1>3, <1>4, <1>5, <1>6, <1>7 DEF SocketStep

(* A request is sent on the object of a call, and the call waits on that of  *)
(* ws: what is due on ws grows only with its line.                           *)
LEMMA SendParksNothing ==
  ASSUME TypeOK, ParkInv, NEW c \in Calls, SendEncrypted(c)
  PROVE  ParkInv'
<1> DEFINE s == via[c]
<1>1. \A t \in Sockets :
        \/ sent'[t] = sent[t]
        \/ t = s /\ held[s] /\ native[s] = "live" /\ Len(sent'[t]) = Len(sent[t]) + 1
  BY DEF SendEncrypted, TypeOK
<1>2. UNCHANGED <<ws, stage, native, held>>
  BY DEF SendEncrypted, socketVars
<1>3. SpentIsSilent'
  BY <1>1, <1>2 DEF ParkInv, SpentIsSilent
<1>4. ASSUME ws # NoSocket PROVE Len(sent'[ws]) <= Len(receiveResolvers'[ws])
  <2>1. /\ ws \in Sockets /\ Len(sent[ws]) \in Nat /\ Len(receiveResolvers[ws]) \in Nat
        /\ Len(sent[ws]) <= Len(receiveResolvers[ws])
    BY <1>4 DEF ParkInv, CurrentNeverParks, TypeOK
  <2>2. CASE held[s]
    <3>1. Len(receiveResolvers'[ws]) = Len(receiveResolvers[ws]) + 1
      BY <1>4, <2>1, <2>2 DEF SendEncrypted, TypeOK
    <3> QED BY <1>1, <2>1, <3>1
  <2>3. CASE ~held[s]
    <3>1. receiveResolvers' = receiveResolvers
      BY <2>3 DEF SendEncrypted
    <3> QED BY <1>1, <2>1, <2>3, <3>1
  <2> QED BY <2>2, <2>3
<1> QED BY <1>2, <1>3, <1>4 DEF ParkInv, CurrentNeverParks

(* Every step keeps the object of ws without a parked response.              *)
LEMMA ParkNext == TypeOK /\ ParkInv /\ [Next]_vars => ParkInv'
<1> SUFFICES ASSUME TypeOK, ParkInv, [Next]_vars PROVE ParkInv'
  OBVIOUS
<1> DEFINE Same == UNCHANGED <<sent, receiveResolvers, ws, stage, native, held>>
<1>1. Same => ParkInv'
  BY ObjectsParkNothing
<1>2. ASSUME UserStep PROVE ParkInv'
  <2>1. ASSUME UserConnect PROVE ParkInv'
    BY <2>1, <1>1, DoConnectParksNothing DEF UserConnect, socketVars, callVars
  <2>2. ASSUME RejectPairing \/ DoDisconnect PROVE ParkInv'
    BY <2>2, CloseWsParksNothing DEF RejectPairing, DoDisconnect
  <2>3. ASSUME ResetPairing \/ \E c \in Confirms : ConfirmPairing(c) PROVE ParkInv'
    BY <2>3, <1>1 DEF ResetPairing, ConfirmPairing, socketVars, callVars
  <2> QED BY <1>2, <2>1, <2>2, <2>3 DEF UserStep
<1>3. ASSUME TryReconnect PROVE ParkInv'
  BY <1>3, <1>1, DoConnectParksNothing DEF TryReconnect, socketVars, callVars
<1>4. ASSUME NEW s \in Sockets, SocketStep(s) PROVE ParkInv'
  BY <1>4, SocketStepParksNothing
<1>5. ASSUME NEW c \in Calls, CallStep(c) PROVE ParkInv'
  <2>1. ASSUME PairingLookedUp(c) \/ KnownPairingSaved(c) \/ NewPairingSaved(c)
        PROVE  ParkInv'
    BY <2>1, <1>1 DEF PairingLookedUp, KnownPairingSaved, NewPairingSaved, socketVars
  <2> QED BY <1>5, <2>1, SendParksNothing DEF CallStep
<1>6. ASSUME NEW c \in Fetches \cup Pings, StartCall(c) PROVE ParkInv'
  BY <1>6, <1>1 DEF StartCall, socketVars
<1>7. ASSUME WorkerRestart PROVE ParkInv'
  BY <1>7 DEF WorkerRestart, ParkInv, CurrentNeverParks, SpentIsSilent
<1>8. ASSUME UNCHANGED vars PROVE ParkInv'
  BY <1>8, <1>1 DEF vars, socketVars, callVars
<1> QED BY <1>2, <1>3, <1>4, <1>5, <1>6, <1>7, <1>8 DEF Next

(* No response is parked on the object that ws holds, from whichever object  *)
(* its request was sent: no later call can take it for its own.              *)
THEOREM NothingIsParked == Spec => []CurrentNeverParks
<1>1. Init => ParkInv
  BY DEF Init, ParkInv, CurrentNeverParks, SpentIsSilent
<1>2. ParkInv => CurrentNeverParks
  BY DEF ParkInv
<1> QED BY <1>1, <1>2, ParkNext, TypeCorrect, PTL DEF Spec
=============================================================================
