------------------------- MODULE ExtensionBackground ------------------------
(***************************************************************************)
(* The service worker of the browser extension: background/index.ts with   *)
(* the life cycle of its ExtensionWebSocket objects (websocket-client.ts), *)
(* pairing.ts and state.ts.                                                *)
(*                                                                         *)
(* The worker keeps one global `ws`, but nothing closes an object when ws  *)
(* is overwritten, no callback asks whether its object is still ws, and    *)
(* no handler asks after an await whether the world is still the one it    *)
(* left. So every object, every handler and every timer is modelled, each  *)
(* action being the code that runs between two suspensions.                *)
(*                                                                         *)
(* The popup, the settings and the onboarding page outlive the worker and    *)
(* send what their last drawn buttons offer, so a user message may find the  *)
(* worker in any state.                                                      *)
(*                                                                         *)
(* How requests and responses pair up on one object is ExtensionSocket's   *)
(* subject; here responses arrive in order and undamaged.                  *)
(***************************************************************************)
EXTENDS Integers, Sequences, SequencesExt, FiniteSets

CONSTANTS
  Sockets,        \* bound: ExtensionWebSocket objects in memory at a time
  Confirms,       \* bound: confirm_pairing handlers at a time
  Fetches,        \* bound: get_vault handlers at a time
  Pings,          \* bound: sendPing calls at a time (the other requests likewise)
  NoSocket,       \* null
  MAX_RECONNECT_ATTEMPTS,
  MaxPending      \* bound: unclosed objects and pending retries at which the
                  \* user stops asking for more

Calls == Confirms \cup Fetches \cup Pings

ASSUME ConstantsAssumption ==
  /\ NoSocket \notin Sockets
  /\ Confirms \cap Fetches = {} /\ Confirms \cap Pings = {} /\ Fetches \cap Pings = {}
  /\ MAX_RECONNECT_ATTEMPTS \in Nat \ {0}
  /\ MaxPending \in Nat \ {0}

VARIABLES
  connectionState,    \* state.connectionState
  serverFingerprint,  \* state.serverFingerprint: the object that learnt it
  isPaired,           \* state.isPaired
  vaultLoaded,        \* state.vaultItems is not empty
  ws,                 \* the global ws
  pinging,            \* pingInterval # null
  reconnectAttempts,
  timers,             \* reconnect timers that have not fired
  storedPaired,       \* isExtensionPaired in chrome.storage.local
  stage,              \* stage[s]: where connect() of object s stands
  native,             \* native[s]: the browser's WebSocket behind s
  held,               \* held[s]: this.ws # null in s
  keyed,              \* keyed[s]: this.keyPair # null in s
  sent,               \* sent[s]: calls whose request the desktop has from s
  receiveResolvers,   \* receiveResolvers[s]: calls waiting in receive() of s
  phase,              \* phase[c]: where the handler or call c stands
  via                 \* via[c]: the object through which c is sending

stateVars == <<connectionState, serverFingerprint, isPaired, vaultLoaded>>
socketVars == <<stage, native, held, keyed>>
callVars == <<sent, receiveResolvers, phase, via>>
vars == <<stateVars, ws, pinging, reconnectAttempts, timers, storedPaired,
          socketVars, callVars>>

ConnectionStates == {"disconnected", "connecting", "pairing", "connected"}
Stages == {"unused", "generating", "exporting", "waiting", "deriving", "open", "failed"}
Natives == {"none", "live", "closing", "closed"}
Phases == {"idle", "lookup", "saveKnown", "saveNew", "encrypting", "awaiting"}

TypeOK ==
  /\ connectionState \in ConnectionStates
  /\ serverFingerprint \in Sockets \cup {NoSocket}
  /\ isPaired \in BOOLEAN /\ vaultLoaded \in BOOLEAN
  /\ ws \in Sockets \cup {NoSocket}
  /\ pinging \in BOOLEAN
  /\ reconnectAttempts \in 0 .. MAX_RECONNECT_ATTEMPTS + 1
  /\ timers \in Nat
  /\ storedPaired \in BOOLEAN
  /\ stage \in [Sockets -> Stages]
  /\ native \in [Sockets -> Natives]
  /\ held \in [Sockets -> BOOLEAN]
  /\ keyed \in [Sockets -> BOOLEAN]
  /\ sent \in [Sockets -> Seq(Calls)]
  /\ receiveResolvers \in [Sockets -> Seq(Calls)]
  /\ phase \in [Calls -> Phases]
  /\ via \in [Calls -> Sockets \cup {NoSocket}]

Init ==
  /\ connectionState = "disconnected" /\ serverFingerprint = NoSocket
  /\ isPaired = FALSE /\ vaultLoaded = FALSE
  /\ ws = NoSocket /\ pinging = FALSE /\ reconnectAttempts = 0 /\ timers = 0
  /\ storedPaired \in BOOLEAN
  /\ stage = [s \in Sockets |-> "unused"]
  /\ native = [s \in Sockets |-> "none"]
  /\ held = [s \in Sockets |-> FALSE]
  /\ keyed = [s \in Sockets |-> FALSE]
  /\ sent = [s \in Sockets |-> <<>>]
  /\ receiveResolvers = [s \in Sockets |-> <<>>]
  /\ phase = [c \in Calls |-> "idle"]
  /\ via = [c \in Calls |-> NoSocket]

(* The isConnected getter, for an object that may be null.                   *)
IsConnected(s) == s # NoSocket /\ stage[s] = "open" /\ held[s]
-----------------------------------------------------------------------------
(* doConnect up to its first await. Only CONNECTING stops it: whatever ws    *)
(* held before is dropped without being closed.                              *)
DoConnect ==
  /\ connectionState # "connecting"
  /\ connectionState' = "connecting"
  /\ \E s \in Sockets :
       /\ stage[s] = "unused"
       /\ stage' = [stage EXCEPT ![s] = "generating"]
       /\ ws' = s
  /\ UNCHANGED <<serverFingerprint, isPaired, vaultLoaded, native, held, keyed>>

Unclosed == {s \in Sockets : stage[s] # "unused" /\ native[s] # "closed"}

(* 'connect' from the popup, or from the onboarding page, whose button is    *)
(* live whatever the state of the connection.                                *)
UserConnect ==
  /\ Cardinality(Unclosed) + timers < MaxPending
  /\ IF connectionState = "connecting"
     THEN UNCHANGED <<stateVars, ws, socketVars>>
     ELSE DoConnect
  /\ UNCHANGED <<pinging, reconnectAttempts, timers, storedPaired, callVars>>

(* setTimeout(tryReconnect, RECONNECT_DELAY_MS) fires; LOCKED never occurs.  *)
TryReconnect ==
  /\ timers > 0
  /\ timers' = timers - 1
  /\ IF connectionState = "disconnected"
     THEN DoConnect
     ELSE UNCHANGED <<stateVars, ws, socketVars>>
  /\ UNCHANGED <<pinging, reconnectAttempts, storedPaired, callVars>>

(* connect(): generateKey has ended ...                                      *)
KeyGenerated(s) ==
  /\ stage[s] = "generating"
  /\ stage' = [stage EXCEPT ![s] = "exporting"]
  /\ keyed' = [keyed EXCEPT ![s] = TRUE]
  /\ UNCHANGED <<stateVars, ws, pinging, reconnectAttempts, timers, storedPaired,
                 native, held, callVars>>

(* ... then exportKey, and the native WebSocket is created.                  *)
SocketOpened(s) ==
  /\ stage[s] = "exporting"
  /\ stage' = [stage EXCEPT ![s] = "waiting"]
  /\ native' = [native EXCEPT ![s] = "live"]
  /\ held' = [held EXCEPT ![s] = TRUE]
  /\ UNCHANGED <<stateVars, ws, pinging, reconnectAttempts, timers, storedPaired,
                 keyed, callVars>>

(* The desktop's public key arrives: the pairing timeout is cleared and the  *)
(* key agreement starts. disconnect() has removed the handler.               *)
ServerKey(s) ==
  /\ stage[s] = "waiting" /\ native[s] = "live" /\ held[s]
  /\ stage' = [stage EXCEPT ![s] = "deriving"]
  /\ UNCHANGED <<stateVars, ws, pinging, reconnectAttempts, timers, storedPaired,
                 native, held, keyed, callVars>>

(* connect() resolves and doConnect goes on, whatever ws is by now.          *)
HandshakeDone(s) ==
  /\ stage[s] = "deriving" /\ keyed[s] /\ held[s]
  /\ stage' = [stage EXCEPT ![s] = "open"]
  /\ connectionState' = "pairing"
  /\ serverFingerprint' = s
  /\ reconnectAttempts' = 0
  /\ UNCHANGED <<isPaired, vaultLoaded, ws, pinging, timers, storedPaired,
                 native, held, keyed, callVars>>

(* The catch block only drops ws.                                            *)
MutRejectedSilently(s) ==
  /\ stage' = [stage EXCEPT ![s] = "failed"]
  /\ ws' = NoSocket
  /\ UNCHANGED stateVars

(* The catch of doConnect: it forgets ws, be it this object or a later one.  *)
ConnectRejected(s) ==
  /\ stage' = [stage EXCEPT ![s] = "failed"]
  /\ connectionState' = "disconnected"
  /\ ws' = NoSocket
  /\ UNCHANGED <<serverFingerprint, isPaired, vaultLoaded>>

(* The key agreement throws: this.keyPair or this.ws was cleared meanwhile,  *)
(* or the peer's key was malformed. The native socket is not closed.         *)
HandshakeFails(s) ==
  /\ stage[s] = "deriving"
  /\ ConnectRejected(s)
  /\ UNCHANGED <<pinging, reconnectAttempts, timers, storedPaired, native, held,
                 keyed, callVars>>

(* PAIR_TIMEOUT_MS passes without a key; the close event comes later.        *)
PairTimeout(s) ==
  /\ stage[s] = "waiting" /\ native[s] # "closed"
  /\ ConnectRejected(s)
  /\ native' = [native EXCEPT ![s] = IF held[s] THEN "closing" ELSE @]
  /\ UNCHANGED <<pinging, reconnectAttempts, timers, storedPaired, held, keyed,
                 callVars>>
-----------------------------------------------------------------------------
(* The promises of the calls in S are rejected, and their continuations run: *)
(* a confirm_pairing handler reports the failure and still starts the ping.  *)
Reject(S) ==
  /\ phase' = [c \in Calls |-> IF c \in S THEN "idle" ELSE phase[c]]
  /\ via' = [c \in Calls |-> IF c \in S THEN NoSocket ELSE via[c]]

StartsPing(S) == S \cap Confirms # {}

(* The limit is checked but the attempt is not counted.                      *)
MutRetryUncounted ==
  /\ timers' = IF reconnectAttempts < MAX_RECONNECT_ATTEMPTS THEN timers + 1 ELSE timers
  /\ UNCHANGED reconnectAttempts

(* The attempt is counted but the limit is not checked.                      *)
MutRetryUnlimited ==
  /\ timers' = timers + 1
  /\ reconnectAttempts' = reconnectAttempts + 1

(* doConnect's onDisconnect callback schedules a retry while any is left.    *)
ScheduleRetry ==
  IF reconnectAttempts < MAX_RECONNECT_ATTEMPTS
  THEN /\ reconnectAttempts' = reconnectAttempts + 1
       /\ timers' = timers + 1
  ELSE UNCHANGED <<reconnectAttempts, timers>>

(* onclose of s, up to the callback's setState.                              *)
Closed(s) ==
  /\ native' = [native EXCEPT ![s] = "closed"]
  /\ held' = [held EXCEPT ![s] = FALSE]
  /\ keyed' = [keyed EXCEPT ![s] = FALSE]
  /\ sent' = [sent EXCEPT ![s] = <<>>]
  /\ receiveResolvers' = [receiveResolvers EXCEPT ![s] = <<>>]
  /\ Reject(ToSet(receiveResolvers[s]))
  /\ pinging' = (pinging \/ StartsPing(ToSet(receiveResolvers[s])))
  /\ ScheduleRetry
  /\ UNCHANGED storedPaired

(* The connection ends, before or after the handshake: the state becomes     *)
(* DISCONNECTED even if s is not ws. Before the handshake, a clean close     *)
(* does not reject connect(): doConnect then never continues.                *)
OnClose(s) ==
  /\ native[s] \in {"live", "closing"}
  /\ Closed(s)
  /\ connectionState' = "disconnected"
  /\ UNCHANGED <<serverFingerprint, isPaired, vaultLoaded, ws, stage>>

(* The connection fails before the handshake: the error event rejects        *)
(* connect(), and the close event of the same task follows.                  *)
ConnectionRefused(s) ==
  /\ stage[s] = "waiting" /\ native[s] \in {"live", "closing"}
  /\ ConnectRejected(s)
  /\ Closed(s)

(* disconnect() that forgets to reject whoever waits.                        *)
MutCloseSocket(s) ==
  /\ native' = [native EXCEPT ![s] = IF held[s] /\ @ = "live" THEN "closing" ELSE @]
  /\ held' = [held EXCEPT ![s] = FALSE]
  /\ keyed' = [keyed EXCEPT ![s] = FALSE]
  /\ receiveResolvers' = [receiveResolvers EXCEPT ![s] = <<>>]
  /\ UNCHANGED <<stage, sent, phase, via>>

(* disconnect() of s.                                                        *)
CloseSocket(s) ==
  /\ native' = [native EXCEPT ![s] = IF held[s] /\ @ = "live" THEN "closing" ELSE @]
  /\ held' = [held EXCEPT ![s] = FALSE]
  /\ keyed' = [keyed EXCEPT ![s] = FALSE]
  /\ receiveResolvers' = [receiveResolvers EXCEPT ![s] = <<>>]
  /\ Reject(ToSet(receiveResolvers[s]))
  /\ UNCHANGED <<stage, sent>>

CloseWs ==
  IF ws = NoSocket THEN UNCHANGED <<socketVars, callVars>> ELSE CloseSocket(ws)

WaitingOnWs == IF ws = NoSocket THEN {} ELSE ToSet(receiveResolvers[ws])
-----------------------------------------------------------------------------
(* 'reject_pairing' (and 'confirm_pairing' with confirmed false).            *)
RejectPairing ==
  /\ CloseWs
  /\ ws' = NoSocket
  /\ connectionState' = "disconnected"
  /\ pinging' = (pinging \/ StartsPing(WaitingOnWs))
  /\ UNCHANGED <<serverFingerprint, isPaired, vaultLoaded, reconnectAttempts, timers,
                 storedPaired>>

(* 'disconnect': stop the ping, forbid new retries, close, clear the vault.  *)
(* A handler rejected by the close resumes afterwards.                       *)
DoDisconnect ==
  /\ CloseWs
  /\ ws' = NoSocket
  /\ connectionState' = "disconnected"
  /\ vaultLoaded' = FALSE
  /\ reconnectAttempts' = MAX_RECONNECT_ATTEMPTS + 1
  /\ pinging' = StartsPing(WaitingOnWs)
  /\ UNCHANGED <<serverFingerprint, isPaired, timers, storedPaired>>

(* The settings page removes the stored pairing after 'disconnect'.          *)
ResetPairing ==
  /\ storedPaired' = FALSE
  /\ UNCHANGED <<stateVars, ws, pinging, reconnectAttempts, timers, socketVars,
                 callVars>>

(* 'confirm_pairing' up to the await of chrome.storage.                      *)
ConfirmPairing(c) ==
  /\ phase[c] = "idle"
  /\ IF ws = NoSocket
     THEN /\ connectionState' = "disconnected"
          /\ UNCHANGED phase
     ELSE /\ phase' = [phase EXCEPT ![c] = "lookup"]
          /\ UNCHANGED connectionState
  /\ UNCHANGED <<serverFingerprint, isPaired, vaultLoaded, ws, pinging,
                 reconnectAttempts, timers, storedPaired, socketVars, sent,
                 receiveResolvers, via>>

(* isAlreadyPaired() answers.                                                *)
PairingLookedUp(c) ==
  /\ phase[c] = "lookup"
  /\ phase' = [phase EXCEPT ![c] = IF storedPaired THEN "saveKnown" ELSE "saveNew"]
  /\ UNCHANGED <<stateVars, ws, pinging, reconnectAttempts, timers, storedPaired,
                 socketVars, sent, receiveResolvers, via>>

(* savePairingState(true) ends for a browser that was paired before.         *)
KnownPairingSaved(c) ==
  /\ phase[c] = "saveKnown"
  /\ storedPaired' = TRUE
  /\ connectionState' = "connected"
  /\ pinging' = TRUE
  /\ phase' = [phase EXCEPT ![c] = "idle"]
  /\ UNCHANGED <<serverFingerprint, isPaired, vaultLoaded, ws, reconnectAttempts,
                 timers, socketVars, sent, receiveResolvers, via>>

(* It ends for a new one: the handler goes on to fetch the vault, or, with   *)
(* no connection, reports that and starts the ping.                          *)
NewPairingSaved(c) ==
  /\ phase[c] = "saveNew"
  /\ storedPaired' = TRUE
  /\ connectionState' = "connected"
  /\ isPaired' = TRUE
  /\ IF IsConnected(ws)
     THEN /\ phase' = [phase EXCEPT ![c] = "encrypting"]
          /\ via' = [via EXCEPT ![c] = ws]
          /\ UNCHANGED pinging
     ELSE /\ phase' = [phase EXCEPT ![c] = "idle"]
          /\ pinging' = TRUE
          /\ UNCHANGED via
  /\ UNCHANGED <<serverFingerprint, vaultLoaded, ws, reconnectAttempts, timers,
                 socketVars, sent, receiveResolvers>>
-----------------------------------------------------------------------------
(* 'get_vault' and the other requests, or the ping interval, reach           *)
(* sendRequestAndReceive; without a connection they fail at once.            *)
StartCall(c) ==
  /\ phase[c] = "idle"
  /\ c \in Pings => pinging
  /\ IsConnected(ws)
  /\ phase' = [phase EXCEPT ![c] = "encrypting"]
  /\ via' = [via EXCEPT ![c] = ws]
  /\ UNCHANGED <<stateVars, ws, pinging, reconnectAttempts, timers, storedPaired,
                 socketVars, sent, receiveResolvers>>

(* A ping that does not wait for its pong.                                   *)
MutSendEncrypted(c) ==
  LET s == via[c] IN
  /\ phase[c] = "encrypting"
  /\ sent' = IF held[s] /\ native[s] = "live"
             THEN [sent EXCEPT ![s] = Append(@, c)] ELSE sent
  /\ IF held[s] /\ ws # NoSocket /\ c \notin Pings
     THEN /\ receiveResolvers' = [receiveResolvers EXCEPT ![ws] = Append(@, c)]
          /\ phase' = [phase EXCEPT ![c] = "awaiting"]
          /\ via' = [via EXCEPT ![c] = NoSocket]
          /\ UNCHANGED pinging
     ELSE /\ Reject({c})
          /\ pinging' = (pinging \/ StartsPing({c}))
          /\ UNCHANGED receiveResolvers
  /\ UNCHANGED <<stateVars, ws, reconnectAttempts, timers, storedPaired, socketVars>>

(* send() ends on the object the call began with, and `return ws.receive()`  *)
(* takes whatever ws is now. No this.ws, or no ws: an exception.             *)
SendEncrypted(c) ==
  LET s == via[c] IN
  /\ phase[c] = "encrypting"
  /\ sent' = IF held[s] /\ native[s] = "live"
             THEN [sent EXCEPT ![s] = Append(@, c)] ELSE sent
  /\ IF held[s] /\ ws # NoSocket
     THEN /\ receiveResolvers' = [receiveResolvers EXCEPT ![ws] = Append(@, c)]
          /\ phase' = [phase EXCEPT ![c] = "awaiting"]
          /\ via' = [via EXCEPT ![c] = NoSocket]
          /\ UNCHANGED pinging
     ELSE /\ Reject({c})
          /\ pinging' = (pinging \/ StartsPing({c}))
          /\ UNCHANGED receiveResolvers
  /\ UNCHANGED <<stateVars, ws, reconnectAttempts, timers, storedPaired, socketVars>>

(* The response to the oldest request on s arrives and goes to the oldest    *)
(* receive() of s. The type is checked, the id is not: the vault is replaced *)
(* if a 'vault' response reaches a caller that asked for the vault. With     *)
(* nobody waiting it is queued on s, from where no later call takes it.      *)
(* Not here: a response that is still being decrypted when s closes is       *)
(* queued on s after onclose emptied the queue. Only a call that sent on     *)
(* another object and then found s in ws could take it; here it waits on s.  *)
Respond(s) ==
  /\ stage[s] = "open" /\ held[s] /\ sent[s] # <<>>
  /\ sent' = [sent EXCEPT ![s] = Tail(@)]
  /\ IF receiveResolvers[s] = <<>>
     THEN UNCHANGED <<receiveResolvers, phase, via, pinging, vaultLoaded>>
     ELSE LET c == Head(receiveResolvers[s]) IN
          /\ receiveResolvers' = [receiveResolvers EXCEPT ![s] = Tail(@)]
          /\ Reject({c})
          /\ pinging' = (pinging \/ StartsPing({c}))
          /\ \/ /\ c \notin Pings /\ Head(sent[s]) \notin Pings
                /\ vaultLoaded' \in BOOLEAN
             \/ UNCHANGED vaultLoaded
  /\ UNCHANGED <<connectionState, serverFingerprint, isPaired, ws, reconnectAttempts,
                 timers, storedPaired, socketVars>>
-----------------------------------------------------------------------------
(* The browser stops the service worker and starts it afresh: what is not in *)
(* chrome.storage is gone, sockets and timers included.                      *)
WorkerRestart ==
  /\ connectionState' = "disconnected" /\ serverFingerprint' = NoSocket
  /\ isPaired' = FALSE /\ vaultLoaded' = FALSE
  /\ ws' = NoSocket /\ pinging' = FALSE /\ reconnectAttempts' = 0 /\ timers' = 0
  /\ stage' = [s \in Sockets |-> "unused"]
  /\ native' = [s \in Sockets |-> "none"]
  /\ held' = [s \in Sockets |-> FALSE]
  /\ keyed' = [s \in Sockets |-> FALSE]
  /\ sent' = [s \in Sockets |-> <<>>]
  /\ receiveResolvers' = [s \in Sockets |-> <<>>]
  /\ phase' = [c \in Calls |-> "idle"]
  /\ via' = [c \in Calls |-> NoSocket]
  /\ UNCHANGED storedPaired

(* An object that nothing can reach any more is collected, and with it the   *)
(* calls that wait on it in vain; the model can then use their names again.  *)
Collect(s) ==
  /\ native[s] = "closed" /\ stage[s] # "deriving" /\ ws # s
  /\ \A c \in Calls : via[c] # s
  /\ receiveResolvers' = [receiveResolvers EXCEPT ![s] = <<>>]
  /\ Reject(ToSet(receiveResolvers[s]))
  /\ stage' = [stage EXCEPT ![s] = "unused"]
  /\ native' = [native EXCEPT ![s] = "none"]
  /\ serverFingerprint' = IF serverFingerprint = s THEN NoSocket ELSE serverFingerprint
  /\ UNCHANGED <<connectionState, isPaired, vaultLoaded, ws, pinging,
                 reconnectAttempts, timers, storedPaired, held, keyed, sent>>
-----------------------------------------------------------------------------
UserStep ==
  \/ UserConnect
  \/ RejectPairing
  \/ DoDisconnect
  \/ ResetPairing
  \/ \E c \in Confirms : ConfirmPairing(c)

SocketStep(s) ==
  \/ KeyGenerated(s)
  \/ SocketOpened(s)
  \/ ServerKey(s)
  \/ HandshakeDone(s)
  \/ HandshakeFails(s)
  \/ PairTimeout(s)
  \/ ConnectionRefused(s)
  \/ OnClose(s)
  \/ Respond(s)
  \/ Collect(s)

CallStep(c) ==
  \/ PairingLookedUp(c)
  \/ KnownPairingSaved(c)
  \/ NewPairingSaved(c)
  \/ SendEncrypted(c)

Next ==
  \/ UserStep
  \/ TryReconnect
  \/ \E s \in Sockets : SocketStep(s)
  \/ \E c \in Calls : CallStep(c)
  \/ \E c \in Fetches \cup Pings : StartCall(c)
  \/ WorkerRestart

Spec == Init /\ [][Next]_vars

(* Crypto jobs and storage calls end, timers fire, a closing socket closes   *)
(* and the collector runs. The desktop, the user and the browser's decision  *)
(* to stop the worker are under no obligation. Fairness is strong where only *)
(* the bound on objects, which the code has not, can disable a due step.     *)
Fairness ==
  /\ SF_vars(TryReconnect)
  /\ \A s \in Sockets :
       /\ WF_vars(KeyGenerated(s))
       /\ WF_vars(SocketOpened(s))
       /\ WF_vars(HandshakeDone(s) \/ HandshakeFails(s))
       /\ WF_vars(PairTimeout(s))
       /\ WF_vars(native[s] = "closing" /\ OnClose(s))
       /\ WF_vars(Collect(s))
  /\ \A c \in Calls : WF_vars(CallStep(c))

FairSpec == Spec /\ Fairness

(* The same when the desktop is gone: every connection to it breaks.         *)
GoneSpec == FairSpec /\ \A s \in Sockets : WF_vars(OnClose(s))
-----------------------------------------------------------------------------
Generating == {"generating", "exporting"}

(* An object whose connect() will still resolve, reject or be closed.        *)
IsPending(s) ==
  \/ stage[s] \in Generating \cup {"deriving"}
  \/ stage[s] = "waiting" /\ native[s] \in {"live", "closing"}

(* ConnectingIsPending: doConnect refuses to start while the state is        *)
(* CONNECTING, so that state must never outlive the attempt that set it:     *)
(* ws still holds an object whose connect() is under way, whatever older     *)
(* objects, retries and the user have done meanwhile (index.ts 53-96).       *)
ConnectingIsPending ==
  connectionState = "connecting" => ws # NoSocket /\ IsPending(ws)

(* WaitsOnce: a call waits in receive() of exactly one object, once, or not  *)
(* at all, across all the objects that replaced each other (index.ts 49-50,  *)
(* websocket-client.ts 134-137, 178-201).                                    *)
WaitsOnce ==
  \A c \in Calls :
    /\ phase[c] = "awaiting" <=> \E s \in Sockets : c \in ToSet(receiveResolvers[s])
    /\ \A s, t \in Sockets :
         \A i \in 1 .. Len(receiveResolvers[s]), j \in 1 .. Len(receiveResolvers[t]) :
           receiveResolvers[s][i] = c /\ receiveResolvers[t][j] = c => s = t /\ i = j

(* CurrentNeverParks: on the object ws holds, while it is connected,         *)
(* somebody waits for every response that is due, so none is parked there    *)
(* for a later call to take as its own; on a closed object none is due       *)
(* (index.ts 49-50, websocket-client.ts 178-181, 239-244).                   *)
CurrentNeverParks ==
  ws # NoSocket => Len(sent[ws]) <= Len(receiveResolvers[ws])

(* ConnectingEnds: an attempt to connect does not last for ever              *)
(* (PAIR_TIMEOUT_MS, websocket-client.ts 63-66).                             *)
ConnectingEnds == connectionState = "connecting" ~> connectionState # "connecting"

Handshakes == \E s \in Sockets : HandshakeDone(s)

(* RetriesCease: with the desktop gone the extension stops retrying, unless  *)
(* a handshake succeeds or the worker restarts again and again: overlapping  *)
(* objects and retry timers do not feed each other (index.ts 66-78, 98-103). *)
RetriesCease == []<><<Handshakes \/ WorkerRestart>>_vars \/ <>[](timers = 0)

(* DisconnectIsFinal: 'disconnect', which leaves the attempts beyond their   *)
(* limit, is final: the extension stays disconnected, as the settings page   *)
(* reports, until the user asks to connect (index.ts 130-139).               *)
DisconnectIsFinal ==
  [][/\ connectionState = "disconnected"
     /\ reconnectAttempts = MAX_RECONNECT_ATTEMPTS + 1
    => connectionState' = "disconnected" \/ UserConnect]_vars
=============================================================================
