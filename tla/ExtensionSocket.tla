-------------------------- MODULE ExtensionSocket ---------------------------
(***************************************************************************)
(* One ExtensionWebSocket object                                           *)
(* (extension/src/background/websocket-client.ts) from the end of its      *)
(* handshake to its close, the calls of sendRequestAndReceive (index.ts)   *)
(* that share it, and the desktop application at the other end.            *)
(*                                                                         *)
(* A request and a response both carry an id, but no code compares them:   *)
(* a response goes to the oldest waiting receive().  Everything here is    *)
(* about whether that is enough.                                           *)
(*                                                                         *)
(* The service worker is single threaded: an action is the code that runs  *)
(* between two suspensions (await, or return to the event loop).  The      *)
(* bytes of a frame are abstracted to the call they belong to and to what  *)
(* handleEncryptedMessage can find wrong with them.                        *)
(***************************************************************************)
EXTENDS Integers, Sequences, SequencesExt

CONSTANTS Calls,          \* the calls of sendRequestAndReceive (one uuid each)
          NoAnswer,       \* the answer of a call that has none
          MaxGarbled,     \* bound: response frames that fail to decrypt
          MaxDropped,     \* bound: response frames dropped for their IV length
          MaxTruncated    \* bound: response frames cut off within their header

ASSUME ConstantsAssumption ==
  /\ NoAnswer \notin Calls
  /\ MaxGarbled \in Nat
  /\ MaxDropped \in Nat
  /\ MaxTruncated \in Nat

VARIABLES
  isConnected,      \* this.ws # null, with its key and _isConnected
  native,           \* the browser's WebSocket: "open", "closing" or "closed"
  phase,            \* phase[c]: how far call c has run
  answer,           \* answer[c]: the call whose response c was given
  toDesktop,        \* requests sent that the desktop has not answered yet
  toExtension,      \* response frames on their way to the browser
  decrypting,       \* frames whose crypto.subtle.decrypt is running
  messageQueue,     \* responses nobody waited for
  receiveResolvers, \* the calls that wait in receive(), oldest first
  garbled, dropped, truncated,  \* damaged frames sent so far
  inTurn            \* history: has every frame settled a call in its turn?

damage == <<garbled, dropped, truncated>>

desktopVars == <<toDesktop, toExtension, damage>>

vars == <<isConnected, native, phase, answer, desktopVars, decrypting,
          messageQueue, receiveResolvers, inTurn>>

Phases == {"idle", "encrypting", "awaiting", "answered", "failed"}

(* What handleEncryptedMessage meets in a frame: a response; one that fails  *)
(* in or after its decrypt (230-236); one that is no ArrayBuffer or has      *)
(* another IV length, which it drops (205, 213); one that ends before its    *)
(* length field, for which DataView (219) throws before anything is awaited. *)
FrameKinds == {"good", "garbled", "dropped", "truncated"}

Frame == [call : Calls, kind : FrameKinds]

TypeOK ==
  /\ isConnected \in BOOLEAN
  /\ native \in {"open", "closing", "closed"}
  /\ phase \in [Calls -> Phases]
  /\ answer \in [Calls -> Calls \cup {NoAnswer}]
  /\ toDesktop \in Seq(Calls)
  /\ toExtension \in Seq(Frame)
  /\ decrypting \in Seq(Frame)
  /\ messageQueue \in Seq(Calls)
  /\ receiveResolvers \in Seq(Calls)
  /\ garbled \in 0 .. MaxGarbled
  /\ dropped \in 0 .. MaxDropped
  /\ truncated \in 0 .. MaxTruncated
  /\ inTurn \in BOOLEAN

(* connect() has resolved: key derived, our public key sent, handler bound. *)
Init ==
  /\ isConnected = TRUE
  /\ native = "open"
  /\ phase = [c \in Calls |-> "idle"]
  /\ answer = [c \in Calls |-> NoAnswer]
  /\ toDesktop = <<>> /\ toExtension = <<>> /\ decrypting = <<>>
  /\ messageQueue = <<>> /\ receiveResolvers = <<>>
  /\ garbled = 0 /\ dropped = 0 /\ truncated = 0
  /\ inTurn = TRUE
-----------------------------------------------------------------------------
(* sendRequestAndReceive(c) runs up to the await of crypto.subtle.encrypt,   *)
(* or throws because there is no connection.                                *)
SendRequestAndReceive(c) ==
  /\ phase[c] = "idle"
  /\ phase' = [phase EXCEPT ![c] = IF isConnected THEN "encrypting" ELSE "failed"]
  /\ UNCHANGED <<isConnected, native, answer, desktopVars, decrypting,
                 messageQueue, receiveResolvers, inTurn>>

(* receive(): the oldest queued response, or a place in the line. *)
Receive(c) ==
  IF messageQueue # <<>>
  THEN /\ phase' = [phase EXCEPT ![c] = "answered"]
       /\ answer' = [answer EXCEPT ![c] = Head(messageQueue)]
       /\ messageQueue' = Tail(messageQueue)
       /\ UNCHANGED receiveResolvers
  ELSE /\ phase' = [phase EXCEPT ![c] = "awaiting"]
       /\ receiveResolvers' = Append(receiveResolvers, c)
       /\ UNCHANGED <<answer, messageQueue>>

(* encrypt has ended: the frame goes out and receive() follows in the same  *)
(* run to completion. On a socket that was closed meanwhile this.ws is null *)
(* and send() throws; on one that is closing, the browser drops the frame.  *)
SendEncrypted(c) ==
  /\ phase[c] = "encrypting"
  /\ IF isConnected
     THEN /\ toDesktop' = IF native = "open" THEN Append(toDesktop, c) ELSE toDesktop
          /\ Receive(c)
     ELSE /\ phase' = [phase EXCEPT ![c] = "failed"]
          /\ UNCHANGED <<toDesktop, answer, messageQueue, receiveResolvers>>
  /\ UNCHANGED <<isConnected, native, toExtension, decrypting, damage, inTurn>>

(* A catch block that only logs: the frame that did not decrypt settles      *)
(* nobody.                                                                   *)
MutDeliverIgnoringErrors(f) ==
  IF receiveResolvers # <<>> /\ f.kind = "good"
  THEN LET c == Head(receiveResolvers) IN
       /\ receiveResolvers' = Tail(receiveResolvers)
       /\ phase' = [phase EXCEPT ![c] = "answered"]
       /\ answer' = [answer EXCEPT ![c] = f.call]
       /\ UNCHANGED messageQueue
  ELSE UNCHANGED <<phase, answer, receiveResolvers, messageQueue>>

(* A catch block that rejects everyone who waits, not the oldest.            *)
MutDeliverErrorToAll(f) ==
  IF f.kind = "good"
  THEN IF receiveResolvers # <<>>
       THEN /\ receiveResolvers' = Tail(receiveResolvers)
            /\ phase' = [phase EXCEPT ![Head(receiveResolvers)] = "answered"]
            /\ answer' = [answer EXCEPT ![Head(receiveResolvers)] = f.call]
            /\ UNCHANGED messageQueue
       ELSE /\ messageQueue' = Append(messageQueue, f.call)
            /\ UNCHANGED <<phase, answer, receiveResolvers>>
  ELSE /\ receiveResolvers' = <<>>
       /\ phase' = [c \in Calls |-> IF Contains(receiveResolvers, c) THEN "failed"
                                    ELSE phase[c]]
       /\ UNCHANGED <<answer, messageQueue>>

(* The frame is passed on in place of the response parsed from it.           *)
MutDeliverFrame(f) ==
  /\ messageQueue' = Append(messageQueue, f)
  /\ UNCHANGED <<phase, answer, receiveResolvers>>

(* The oldest waiting receive() is settled: resolved with a response, or     *)
(* rejected because of a frame that cannot be read. Nobody waits: a response *)
(* is queued and a frame that cannot be read is forgotten.                   *)
Deliver(f) ==
  IF receiveResolvers # <<>>
  THEN LET c == Head(receiveResolvers) IN
       /\ receiveResolvers' = Tail(receiveResolvers)
       /\ IF f.kind = "good"
          THEN /\ phase' = [phase EXCEPT ![c] = "answered"]
               /\ answer' = [answer EXCEPT ![c] = f.call]
          ELSE /\ phase' = [phase EXCEPT ![c] = "failed"]
               /\ UNCHANGED answer
       /\ UNCHANGED messageQueue
  ELSE /\ messageQueue' = IF f.kind = "good" THEN Append(messageQueue, f.call)
                          ELSE messageQueue
       /\ UNCHANGED <<phase, answer, receiveResolvers>>

(* The handshake's listener is kept beside the new one: frames come twice.   *)
MutOnMessageTwice ==
  /\ toExtension # <<>>
  /\ toExtension' = Tail(toExtension)
  /\ decrypting' = IF isConnected
                   THEN decrypting \o <<Head(toExtension), Head(toExtension)>>
                   ELSE decrypting
  /\ UNCHANGED <<isConnected, native, phase, answer, toDesktop, messageQueue,
                 receiveResolvers, damage, inTurn>>

(* A message event, up to the await of crypto.subtle.decrypt. A truncated    *)
(* frame throws before it: the catch block rejects the oldest call at once,  *)
(* ahead of those whose frames still decrypt. disconnect() has removed the   *)
(* handler.                                                                  *)
OnMessage ==
  /\ toExtension # <<>>
  /\ toExtension' = Tail(toExtension)
  /\ LET f == Head(toExtension) IN
     /\ IF isConnected /\ f.kind = "truncated"
        THEN Deliver(f)
        ELSE UNCHANGED <<phase, answer, messageQueue, receiveResolvers>>
     /\ decrypting' = IF isConnected /\ f.kind \in {"good", "garbled"}
                      THEN Append(decrypting, f) ELSE decrypting
     /\ inTurn' = (inTurn /\ (isConnected => f.kind # "dropped"
                                  /\ (f.kind = "truncated" => decrypting = <<>>)))
  /\ UNCHANGED <<isConnected, native, toDesktop, damage>>

(* The decrypt of the i-th running job ends; nothing in the code or in       *)
(* WebCrypto makes the jobs end in the order they began.                     *)
HandleEncryptedMessage(i) ==
  /\ Deliver(decrypting[i])
  /\ decrypting' = RemoveAt(decrypting, i)
  /\ inTurn' = (inTurn /\ i = 1)
  /\ UNCHANGED <<isConnected, native, desktopVars>>
-----------------------------------------------------------------------------
(* The list is emptied before the promises in it are rejected.               *)
MutForgetAll ==
  /\ receiveResolvers' = <<>>
  /\ messageQueue' = <<>>
  /\ UNCHANGED phase

(* What onclose and disconnect() share: every waiting receive() is rejected  *)
(* and the queue is emptied.                                                 *)
RejectAll ==
  /\ phase' = [c \in Calls |-> IF Contains(receiveResolvers, c) THEN "failed"
                               ELSE phase[c]]
  /\ receiveResolvers' = <<>>
  /\ messageQueue' = <<>>

(* disconnect(): by reject_pairing, an unconfirmed pairing or 'disconnect'.  *)
(* A socket that this.ws no longer holds is left alone.                      *)
Disconnect ==
  /\ isConnected' = FALSE
  /\ native' = IF isConnected /\ native = "open" THEN "closing" ELSE native
  /\ RejectAll
  /\ UNCHANGED <<answer, desktopVars, decrypting, inTurn>>

(* The close event, after a closing handshake or a broken connection. *)
OnClose ==
  /\ native # "closed"
  /\ native' = "closed"
  /\ isConnected' = FALSE
  /\ RejectAll
  /\ toDesktop' = <<>> /\ toExtension' = <<>>
  /\ UNCHANGED <<answer, decrypting, damage, inTurn>>
-----------------------------------------------------------------------------
(* The desktop (WebSocketServer.HandleClientAsync) answers the requests of a *)
(* connection one at a time, in order; a damaged frame stands for a fault of *)
(* the peer that the extension's code provides for.                          *)
DesktopReply(kind) ==
  /\ native # "closed"
  /\ toDesktop # <<>>
  /\ toDesktop' = Tail(toDesktop)
  /\ toExtension' = Append(toExtension, [call |-> Head(toDesktop), kind |-> kind])
  /\ garbled' = IF kind = "garbled" THEN garbled + 1 ELSE garbled
  /\ dropped' = IF kind = "dropped" THEN dropped + 1 ELSE dropped
  /\ truncated' = IF kind = "truncated" THEN truncated + 1 ELSE truncated
  /\ garbled' <= MaxGarbled /\ dropped' <= MaxDropped /\ truncated' <= MaxTruncated
  /\ UNCHANGED <<isConnected, native, phase, answer, decrypting, messageQueue,
                 receiveResolvers, inTurn>>

(* The desktop ends the connection: what it had not read or sent is lost,    *)
(* and the browser drops what is sent until the close event.                 *)
DesktopClose ==
  /\ native = "open"
  /\ native' = "closing"
  /\ toDesktop' = <<>> /\ toExtension' = <<>>
  /\ UNCHANGED <<isConnected, phase, answer, decrypting, messageQueue,
                 receiveResolvers, damage, inTurn>>
-----------------------------------------------------------------------------
Next ==
  \/ \E c \in Calls : SendRequestAndReceive(c)
  \/ \E c \in Calls : SendEncrypted(c)
  \/ OnMessage
  \/ \E i \in 1 .. Len(decrypting) : HandleEncryptedMessage(i)
  \/ Disconnect
  \/ OnClose
  \/ \E kind \in FrameKinds : DesktopReply(kind)
  \/ DesktopClose

Spec == Init /\ [][Next]_vars

(* The event loop dispatches every event and every crypto job ends; the      *)
(* desktop answers what it has read; a connection that is closing closes.    *)
(* Nothing makes the user call or disconnect, nor the desktop close.         *)
Fairness ==
  /\ \A c \in Calls : WF_vars(SendEncrypted(c))
  /\ WF_vars(OnMessage)
  /\ WF_vars(\E i \in 1 .. Len(decrypting) : HandleEncryptedMessage(i))
  /\ WF_vars(\E kind \in FrameKinds : DesktopReply(kind))
  /\ WF_vars(native = "closing" /\ OnClose)

FairSpec == Spec /\ Fairness
-----------------------------------------------------------------------------
(* OwnAnswer: the response a call returns is the response to its own         *)
(* request, although ids are never compared (websocket-client.ts 236-242),   *)
(* as long as no frame was dropped (213), none cut off in its header was met *)
(* while others decrypted (219, 245-251) and decrypt jobs ended in order.    *)
(* Frames that fail to decrypt, and truncated ones that come alone, shift no *)
(* answer.                                                                   *)
OwnAnswer == inTurn => \A c \in Calls : phase[c] = "answered" => answer[c] = c

(* What is due, and the place in line of the call it is due to.              *)
Due == Len(decrypting) + Len(toExtension) + Len(toDesktop)

Aligned ==
  /\ \A i \in 1 .. Len(decrypting) : receiveResolvers[i] = decrypting[i].call
  /\ \A i \in 1 .. Len(toExtension) :
       receiveResolvers[Len(decrypting) + i] = toExtension[i].call
  /\ \A i \in 1 .. Len(toDesktop) :
       receiveResolvers[Len(decrypting) + Len(toExtension) + i] = toDesktop[i]

(* InOrder: the line of waiting calls starts with the owners of the frames   *)
(* that decrypt, then of those under way, then of the requests the desktop   *)
(* has, in the order they will be answered; on an open connection that is    *)
(* the whole line (websocket-client.ts 175-186, 239-251), as long as every   *)
(* frame was met in its turn.                                                *)
InOrder ==
  isConnected /\ inTurn => /\ Due <= Len(receiveResolvers)
                           /\ native = "open" => Due = Len(receiveResolvers)
                           /\ Aligned

(* NobodyForgotten: a call that waits in receive() has exactly one place in  *)
(* receiveResolvers, so that a response, a decryption error or the close can *)
(* still settle it (websocket-client.ts 134-137, 178-186, 198-201).          *)
NobodyForgotten ==
  /\ \A c \in Calls : phase[c] = "awaiting" <=> Contains(receiveResolvers, c)
  /\ \A i, j \in 1 .. Len(receiveResolvers) :
       receiveResolvers[i] = receiveResolvers[j] => i = j

(* QueueNeverServed: while the connection lives no response is ever parked   *)
(* in messageQueue, so receive() never returns one that was parked for an    *)
(* earlier call (websocket-client.ts 178-181, 238-243).                      *)
QueueNeverServed == isConnected => messageQueue = <<>>

(* NoSharedAnswer: even when frames are dropped or cut off, or decrypt jobs  *)
(* end in any order, so that answers may be swapped, no response is given to *)
(* two calls (websocket-client.ts 219, 236-251).                             *)
NoSharedAnswer ==
  \A c, d \in Calls : /\ phase[c] = "answered" /\ phase[d] = "answered"
                      /\ answer[c] = answer[d]
                     => c = d

(* EveryCallEnds: a request that was sent is answered or fails, whatever     *)
(* frames cannot be read and in whatever order they decrypt, unless a frame  *)
(* is dropped; nothing is left waiting when the desktop goes away            *)
(* (websocket-client.ts 129-143, 245-251).                                   *)
EveryCallEnds ==
  \A c \in Calls :
    phase[c] = "encrypting" ~> phase[c] \in {"answered", "failed"} \/ dropped > 0

(* A waiting caller sees no difference between a request that is encrypted   *)
(* and one that is out.                                                      *)
Outcome(c) == IF phase[c] \in {"encrypting", "awaiting"} THEN "waiting" ELSE phase[c]

RR == INSTANCE RequestReply
        WITH outcome <- [c \in Calls |-> Outcome(c)], answer <- answer,
             matched <- inTurn, lossless <- (dropped = 0)

(* ImplementsRequestReply: the socket keeps the promise of RequestReply,     *)
(* safety and liveness, for every caller of sendRequestAndReceive: its own   *)
(* answer or an error while frames are met in their turn, somebody's answer, *)
(* but never one given before, when they are not, and an end of every call   *)
(* unless a frame is dropped (websocket-client.ts 205-219, 230-251).         *)
ImplementsRequestReply == RR!FairSpec
=============================================================================
