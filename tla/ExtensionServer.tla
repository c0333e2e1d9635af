--------------------------- MODULE ExtensionServer ---------------------------
(***************************************************************************)
(* The desktop's side of the browser extension: the WebSocketServer        *)
(* objects (windows/Services/WebSocketServer.cs) the application starts    *)
(* and stops (windows/App.xaml.cs 128-179), the connections they serve,    *)
(* and the pairing dialogs the user answers.                               *)
(*                                                                         *)
(* A server serves one connection at a time (_connectionLock) and keeps    *)
(* one pending confirmation (_pairConfirmationTcs).  A dialog holds no     *)
(* reference to either: its answer goes to whatever is pending on the      *)
(* server that runs when it is given.                                      *)
(*                                                                         *)
(* HandleClientAsync is split at its awaits.  A wait that ended before     *)
(* Stop cancelled the token still continues after it, so no action other   *)
(* than the end of a wait asks whether the server runs.  Every connection  *)
(* has a key pair of its own, so a fingerprint stands for a connection.    *)
(***************************************************************************)
EXTENDS Integers, Sequences, FiniteSets

CONSTANTS Servers,      \* the WebSocketServer objects, each started at most once
          Clients,      \* the connections
          null,
          MaxRequests   \* bound: requests sent on all connections together

ASSUME ConstantsAssumption ==
  /\ null \notin Servers \cup Clients
  /\ IsFiniteSet(Clients)
  /\ MaxRequests \in Nat

VARIABLES
  current,    \* _extensionServer, whose PairRequested the application handles
  server,     \* server[s]: the life of a server object
  slot,       \* slot[s]: the connection that holds _connectionLock
  tcs,        \* tcs[s]: the connection whose request made _pairConfirmationTcs
  home,       \* home[c]: the server that accepted c
  stage,      \* stage[c]: the await c's HandleClientAsync is at
  isPaired,   \* isPaired[c]: its local variable
  answer,     \* answer[c]: the result of the last confirmation c asked for
  reply,      \* reply[c]: the last response made for c
  peer,       \* peer[c]: "open", or "gone" when the extension closed its end
  inbox,      \* inbox[c]: requests sent and not handled yet
  sent,       \* requests sent
  dialogs,    \* dialogs[c]: dialogs with c's fingerprint that wait for the user
  allowed,    \* the connections whose fingerprint the user allowed
  allows      \* how many dialogs the user answered with "allow"

serverVars == <<current, server>>
sessionVars == <<slot, home, stage, isPaired, reply>>
pairingVars == <<tcs, answer>>
peerVars == <<peer, inbox, sent>>
userVars == <<dialogs, allowed, allows>>

vars == <<current, server, slot, tcs, home, stage, isPaired, answer, reply,
          peer, inbox, sent, dialogs, allowed, allows>>

ServerStates == {"new", "running", "stopped", "failed"}

(* "pair", any request the handler answers, or a frame that cannot be read.  *)
Requests == {"pair", "ask", "bad"}

(* The stages between Wait and Release of the connection lock.               *)
SessionStages == {"exchange", "reading", "received", "asking", "answering"}

Stages == SessionStages \cup {"away", "accepted", "refused", "leaked", "closed"}

(* Types; and a request that was sent waits in the inbox, or for the user, or *)
(* is done: one that was read stays at the inbox's head until it is handled. *)
TypeOK ==
  /\ current \in Servers \cup {null}
  /\ server \in [Servers -> ServerStates]
  /\ slot \in [Servers -> Clients \cup {null}]
  /\ tcs \in [Servers -> Clients \cup {null}]
  /\ home \in [Clients -> Servers \cup {null}]
  /\ stage \in [Clients -> Stages]
  /\ isPaired \in [Clients -> BOOLEAN]
  /\ answer \in [Clients -> {"none", "yes", "no"}]
  /\ reply \in [Clients -> {"none", "paired", "error", "vault"}]
  /\ peer \in [Clients -> {"open", "gone"}]
  /\ inbox \in [Clients -> Seq(Requests)]
  /\ sent \in 0 .. MaxRequests
  /\ dialogs \in [Clients -> Nat]
  /\ \A c \in Clients : dialogs[c] + Len(inbox[c]) <= sent
  /\ \A c \in Clients : stage[c] = "received" => inbox[c] # <<>>
  /\ allowed \subseteq Clients
  /\ allows \in Nat

Init ==
  /\ current = null
  /\ server = [s \in Servers |-> "new"]
  /\ slot = [s \in Servers |-> null]
  /\ tcs = [s \in Servers |-> null]
  /\ home = [c \in Clients |-> null]
  /\ stage = [c \in Clients |-> "away"]
  /\ isPaired = [c \in Clients |-> FALSE]
  /\ answer = [c \in Clients |-> "none"]
  /\ reply = [c \in Clients |-> "none"]
  /\ peer = [c \in Clients |-> "open"]
  /\ inbox = [c \in Clients |-> <<>>]
  /\ sent = 0
  /\ dialogs = [c \in Clients |-> 0]
  /\ allowed = {}
  /\ allows = 0

Running(c) == server[home[c]] = "running"
InSession(c) == stage[c] \in SessionStages
-----------------------------------------------------------------------------
(* What StopExtensionServer leaves of the current server: Stop does nothing  *)
(* to one whose Start failed.                                                *)
AfterStop ==
  [s \in Servers |-> IF s = current /\ server[s] = "running" THEN "stopped"
                     ELSE server[s]]

(* StartExtensionServer: the old server first, then a new object. Its Start  *)
(* throws when the port is taken, which leaves it in _extensionServer.       *)
StartExtensionServer(s) ==
  /\ server[s] = "new"
  /\ \E started \in {"running", "failed"} :
        server' = [AfterStop EXCEPT ![s] = started]
  /\ current' = s
  /\ UNCHANGED <<sessionVars, pairingVars, peerVars, userVars>>

StopExtensionServer ==
  /\ current # null
  /\ server' = AfterStop
  /\ current' = null
  /\ UNCHANGED <<sessionVars, pairingVars, peerVars, userVars>>
-----------------------------------------------------------------------------
(* AcceptTcpClientAsync has a connection.                                    *)
Accept(c, s) ==
  /\ stage[c] = "away"
  /\ server[s] = "running"
  /\ home' = [home EXCEPT ![c] = s]
  /\ stage' = [stage EXCEPT ![c] = "accepted"]
  /\ UNCHANGED <<slot, isPaired, reply, serverVars, pairingVars, peerVars, userVars>>

(* A Release moved up to cover the refusal frees the slot of another.        *)
MutAdmit(c) ==
  /\ stage[c] = "accepted"
  /\ LET s == home[c] IN
     \/ /\ Running(c) /\ slot[s] = null
        /\ slot' = [slot EXCEPT ![s] = c]
        /\ stage' = [stage EXCEPT ![c] = "exchange"]
     \/ /\ Running(c) /\ slot[s] # null
        /\ slot' = [slot EXCEPT ![s] = null]
        /\ stage' = [stage EXCEPT ![c] = "refused"]
     \/ /\ ~Running(c)
        /\ stage' = [stage EXCEPT ![c] = "leaked"]
        /\ UNCHANGED slot
  /\ UNCHANGED <<home, isPaired, reply, serverVars, pairingVars, peerVars, userVars>>

(* WaitAsync(0, ct): the slot, or a refusal. When the server was stopped     *)
(* meanwhile it throws before the try, and nobody closes the connection.     *)
Admit(c) ==
  /\ stage[c] = "accepted"
  /\ LET s == home[c] IN
     \/ /\ Running(c) /\ slot[s] = null
        /\ slot' = [slot EXCEPT ![s] = c]
        /\ stage' = [stage EXCEPT ![c] = "exchange"]
     \/ /\ Running(c) /\ slot[s] # null
        /\ stage' = [stage EXCEPT ![c] = "refused"]
        /\ UNCHANGED slot
     \/ /\ ~Running(c)
        /\ stage' = [stage EXCEPT ![c] = "leaked"]
        /\ UNCHANGED slot
  /\ UNCHANGED <<home, isPaired, reply, serverVars, pairingVars, peerVars, userVars>>

(* A break that returns past the finally: the slot is never released.        *)
MutEnd(c) ==
  /\ stage' = [stage EXCEPT ![c] = "closed"]
  /\ UNCHANGED <<slot, home, isPaired, reply>>

(* finally: the connection is closed and the slot released; the semaphore of *)
(* a stopped server is disposed, and Release throws.                         *)
End(c) ==
  /\ stage' = [stage EXCEPT ![c] = "closed"]
  /\ slot' = IF Running(c) THEN [slot EXCEPT ![home[c]] = null] ELSE slot
  /\ UNCHANGED <<home, isPaired, reply>>

(* The extension's public key arrived and the AES key is derived.            *)
ExchangeKeys(c) ==
  /\ stage[c] = "exchange"
  /\ stage' = [stage EXCEPT ![c] = "reading"]
  /\ UNCHANGED <<slot, home, isPaired, reply, serverVars, pairingVars, peerVars, userVars>>

(* The line that arrived is no public key.                                   *)
BadKey(c) ==
  /\ stage[c] = "exchange"
  /\ End(c)
  /\ UNCHANGED <<serverVars, pairingVars, peerVars, userVars>>

(* A read finds that the extension closed its end.                           *)
EndOfStream(c) ==
  /\ peer[c] = "gone"
  /\ \/ stage[c] = "exchange"
     \/ stage[c] = "reading" /\ inbox[c] = <<>>
  /\ End(c)
  /\ UNCHANGED <<serverVars, pairingVars, peerVars, userVars>>

(* A whole frame was read. The exception of one that does not decrypt or     *)
(* parse ends the connection.                                                *)
Receive(c) ==
  /\ stage[c] = "reading"
  /\ inbox[c] # <<>>
  /\ Running(c)
  /\ IF Head(inbox[c]) = "bad"
     THEN /\ End(c)
          /\ inbox' = [inbox EXCEPT ![c] = Tail(@)]
     ELSE /\ stage' = [stage EXCEPT ![c] = "received"]
          /\ UNCHANGED <<slot, home, isPaired, reply, inbox>>
  /\ UNCHANGED <<serverVars, pairingVars, peer, sent, userVars>>
-----------------------------------------------------------------------------
(* `??=` for the confirmation: a pending or answered one is taken over.      *)
MutAsk(c) ==
  LET s == home[c] IN
  /\ stage' = [stage EXCEPT ![c] = "asking"]
  /\ tcs' = [tcs EXCEPT ![s] = c]
  /\ answer' = [answer EXCEPT ![c] = IF tcs[s] = null THEN "none" ELSE answer[tcs[s]]]
  /\ dialogs' = [dialogs EXCEPT ![c] = IF Running(c) THEN @ + 1 ELSE @]
  /\ UNCHANGED <<isPaired, reply, allowed, allows>>

(* "pair": a new confirmation and, while the application listens to the      *)
(* server's PairRequested, a dialog. isPaired keeps its value for now.       *)
Ask(c) ==
  /\ stage' = [stage EXCEPT ![c] = "asking"]
  /\ tcs' = [tcs EXCEPT ![home[c]] = c]
  /\ answer' = [answer EXCEPT ![c] = "none"]
  /\ dialogs' = [dialogs EXCEPT ![c] = IF Running(c) THEN @ + 1 ELSE @]
  /\ UNCHANGED <<isPaired, reply, allowed, allows>>

(* Any other request: the handler's response, or an error before pairing.    *)
Serve(c) ==
  /\ stage' = [stage EXCEPT ![c] = "answering"]
  /\ reply' = [reply EXCEPT ![c] = IF isPaired[c] THEN "vault" ELSE "error"]
  /\ UNCHANGED <<isPaired, pairingVars, userVars>>

HandleRequest(c) ==
  /\ stage[c] = "received"
  /\ IF Head(inbox[c]) = "pair" THEN Ask(c) ELSE Serve(c)
  /\ inbox' = [inbox EXCEPT ![c] = Tail(@)]
  /\ UNCHANGED <<slot, home, peer, sent, serverVars>>

(* The response to "pair".                                                   *)
Decided(c, paired) ==
  /\ stage' = [stage EXCEPT ![c] = "answering"]
  /\ isPaired' = [isPaired EXCEPT ![c] = paired]
  /\ reply' = [reply EXCEPT ![c] = IF paired THEN "paired" ELSE "error"]

(* The confirmation has its result.                                          *)
Confirmed(c) ==
  /\ stage[c] = "asking"
  /\ answer[c] # "none"
  /\ Decided(c, answer[c] = "yes")
  /\ UNCHANGED <<slot, home, serverVars, pairingVars, peerVars, userVars>>

(* The catch that sets isPaired is forgotten: what it was before stays.      *)
MutPairTimesOut(c) ==
  /\ stage[c] = "asking"
  /\ answer[c] = "none"
  /\ Running(c)
  /\ Decided(c, isPaired[c])
  /\ UNCHANGED <<slot, home, serverVars, pairingVars, peerVars, userVars>>

(* A wait without the 120 seconds.                                           *)
MutNeverTimesOut(c) == FALSE

(* A timeout that shows the user the dialog again.                           *)
MutAskAgain(c) ==
  /\ stage[c] = "asking"
  /\ answer[c] = "none"
  /\ Running(c)
  /\ Decided(c, FALSE)
  /\ dialogs' = [dialogs EXCEPT ![c] = @ + 1]
  /\ UNCHANGED <<slot, home, serverVars, pairingVars, peerVars, allowed, allows>>

(* Nobody answered for 120 seconds. The dialog stays on the screen.          *)
PairTimesOut(c) ==
  /\ stage[c] = "asking"
  /\ answer[c] = "none"
  /\ Running(c)
  /\ Decided(c, FALSE)
  /\ UNCHANGED <<slot, home, serverVars, pairingVars, peerVars, userVars>>

(* The response is written. On a connection whose other end is gone it may   *)
(* be written as well: the next read finds out.                              *)
Written(c) ==
  /\ stage[c] = "answering"
  /\ Running(c)
  /\ stage' = [stage EXCEPT ![c] = "reading"]
  /\ UNCHANGED <<slot, home, isPaired, reply, serverVars, pairingVars, peerVars, userVars>>

WriteFails(c) ==
  /\ stage[c] = "answering"
  /\ peer[c] = "gone"
  /\ End(c)
  /\ UNCHANGED <<serverVars, pairingVars, peerVars, userVars>>

(* Only the reads look at the token.                                         *)
MutCancelled(c) ==
  /\ stage[c] \in {"exchange", "reading"}
  /\ ~Running(c)
  /\ End(c)
  /\ UNCHANGED <<serverVars, pairingVars, peerVars, userVars>>

(* Stop cancelled the await c is at.                                         *)
Cancelled(c) ==
  /\ \/ stage[c] \in {"exchange", "reading", "answering"}
     \/ stage[c] = "asking" /\ answer[c] = "none"
  /\ ~Running(c)
  /\ End(c)
  /\ UNCHANGED <<serverVars, pairingVars, peerVars, userVars>>
-----------------------------------------------------------------------------
(* ConfirmPair: TrySetResult, on the confirmation pending on the current     *)
(* server, whichever dialog the answer comes from.                           *)
ConfirmPair(confirmed) ==
  LET c == IF current = null THEN null ELSE tcs[current] IN
  answer' = IF c # null /\ answer[c] = "none"
            THEN [answer EXCEPT ![c] = IF confirmed THEN "yes" ELSE "no"]
            ELSE answer

(* A dialog with c's fingerprint is answered; a dialog that cannot be shown  *)
(* counts as refused.                                                        *)
AnswerDialog(c, confirmed) ==
  /\ dialogs[c] > 0
  /\ dialogs' = [dialogs EXCEPT ![c] = @ - 1]
  /\ allowed' = IF confirmed THEN allowed \cup {c} ELSE allowed
  /\ allows' = IF confirmed THEN allows + 1 ELSE allows
  /\ ConfirmPair(confirmed)
  /\ UNCHANGED <<tcs, serverVars, sessionVars, peerVars>>
-----------------------------------------------------------------------------
(* The extension sends a request.                                            *)
PeerSends(c, r) ==
  /\ InSession(c)
  /\ peer[c] = "open"
  /\ sent < MaxRequests
  /\ sent' = sent + 1
  /\ inbox' = [inbox EXCEPT ![c] = Append(@, r)]
  /\ UNCHANGED <<peer, serverVars, sessionVars, pairingVars, userVars>>

PeerLeaves(c) ==
  /\ stage[c] # "away"
  /\ peer[c] = "open"
  /\ peer' = [peer EXCEPT ![c] = "gone"]
  /\ UNCHANGED <<inbox, sent, serverVars, sessionVars, pairingVars, userVars>>
-----------------------------------------------------------------------------
(* What HandleClientAsync does for c without anybody else.                   *)
Handle(c) ==
  \/ Admit(c) \/ EndOfStream(c) \/ Receive(c) \/ HandleRequest(c)
  \/ Confirmed(c) \/ PairTimesOut(c) \/ Written(c) \/ Cancelled(c)

Next ==
  \/ StopExtensionServer
  \/ \E s \in Servers : StartExtensionServer(s)
  \/ \E c \in Clients, s \in Servers : Accept(c, s)
  \/ \E c \in Clients :
        \/ Handle(c)
        \/ ExchangeKeys(c) \/ BadKey(c) \/ WriteFails(c)
        \/ PeerLeaves(c)
  \/ \E c \in Clients, confirmed \in BOOLEAN : AnswerDialog(c, confirmed)
  \/ \E c \in Clients, r \in Requests : PeerSends(c, r)

Spec == Init /\ [][Next]_vars

(* The thread pool continues what can continue, and timers expire. Neither   *)
(* the user nor the extension has to do anything, ever.                      *)
FairSpec == Spec /\ \A c \in Clients : WF_vars(Handle(c))
-----------------------------------------------------------------------------
(* A running server serves one connection, the one that holds its slot, and  *)
(* a refused or failing connection never frees the slot of another           *)
(* (WebSocketServer.cs 93-97 and 188-192).                                   *)
SlotExclusive ==
  \A s \in Servers : server[s] = "running" =>
     {c \in Clients : InSession(c) /\ home[c] = s} = {slot[s]} \ {null}

(* Vault data is only ever on its way to a connection whose last pairing     *)
(* request was answered "allow": asking again takes back what was allowed    *)
(* before, whether the dialog is refused or left open (140-170).             *)
ServedAreConfirmed ==
  \A c \in Clients :
     stage[c] = "answering" /\ reply[c] = "vault" => answer[c] = "yes"

(* One click on "allow" pairs at most one connection, however late it comes  *)
(* and however many dialogs, connections and servers there were meanwhile.   *)
OneAllowOnePairing == Cardinality({c \in Clients : isPaired[c]}) <= allows

(* App.xaml.cs 163-166: the dialog shows a fingerprint and asks whether      *)
(* "this" extension may connect, so a paired connection is one whose         *)
(* fingerprint the user allowed. Violated: a dialog that outlives its        *)
(* request confirms the next one.                                            *)
PairedIsAllowed == \A c \in Clients : isPaired[c] => c \in allowed

(* A pairing request is answered or its connection ends, though the user     *)
(* need not answer and the extension may leave (145-152).                    *)
AskedIsAnswered ==
  \A c \in Clients : stage[c] = "asking" ~> stage[c] \in {"reading", "closed"}

(* An extension that leaves does not keep the slot, whatever it left behind  *)
(* unread (128-132, 174-180, 188-192).                                       *)
GoneFreesSlot ==
  \A c \in Clients, s \in Servers :
     slot[s] = c /\ peer[c] = "gone" ~> slot[s] # c \/ server[s] = "stopped"

(* A stopped server serves none of the connections it accepted any more:     *)
(* they are closed or refused, or, accepted when Stop had just closed the    *)
(* active one, left without anybody who reads or closes them (51-57, 64-70). *)
StoppedEnds ==
  \A c \in Clients :
     home[c] # null /\ stage[c] # "away" /\ server[home[c]] = "stopped"
       ~> stage[c] \in {"closed", "refused", "leaked"}
=============================================================================
