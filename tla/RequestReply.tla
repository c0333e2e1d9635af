---------------------------- MODULE RequestReply ----------------------------
(***************************************************************************)
(* What a caller of sendRequestAndReceive                                  *)
(* (extension/src/background/index.ts) may rely on, with no mention of     *)
(* sockets, frames or promises: a request that was made ends, once, with   *)
(* the answer to that very request or with an error.                       *)
(*                                                                         *)
(* Two faults of the channel weaken the promise and are never repaired: it *)
(* may lose the match of answers to requests, after which a caller may be  *)
(* given another's answer, though never one that was given before, and it  *)
(* may lose an answer, after which a caller may wait for ever.             *)
(***************************************************************************)
CONSTANTS Calls,     \* the requests callers make
          NoAnswer   \* what a caller holds before it is answered

VARIABLES outcome,   \* outcome[c]: how far call c is
          answer,    \* answer[c]: the call whose answer c was given
          matched,   \* is every answer still given to the request it answers?
          lossless   \* has every answer reached the callers' side?

vars == <<outcome, answer, matched, lossless>>

Outcomes == {"idle", "waiting", "answered", "failed"}

TypeOK == /\ outcome \in [Calls -> Outcomes]
          /\ answer \in [Calls -> Calls \cup {NoAnswer}]
          /\ matched \in BOOLEAN
          /\ lossless \in BOOLEAN

Init == /\ outcome = [c \in Calls |-> "idle"]
        /\ answer = [c \in Calls |-> NoAnswer]
        /\ matched = TRUE
        /\ lossless = TRUE

(* A fault of the channel may come with any step; none goes away. *)
FaultsStay == (matched' => matched) /\ (lossless' => lossless)

Ask(c) == /\ outcome[c] = "idle"
          /\ outcome' = [outcome EXCEPT ![c] = "waiting"]
          /\ UNCHANGED answer

(* The channel is down: the call fails before it waits. *)
Refuse(c) == /\ outcome[c] = "idle"
             /\ outcome' = [outcome EXCEPT ![c] = "failed"]
             /\ UNCHANGED answer

Given == {answer[c] : c \in {d \in Calls : outcome[d] = "answered"}}

Answer(c) == /\ outcome[c] = "waiting"
             /\ outcome' = [outcome EXCEPT ![c] = "answered"]
             /\ \E d \in Calls \ Given : /\ matched' => d = c
                                         /\ answer' = [answer EXCEPT ![c] = d]

(* One fault, such as the end of the connection, may fail many calls. *)
Fail(S) == /\ S # {} /\ \A c \in S : outcome[c] = "waiting"
           /\ outcome' = [c \in Calls |-> IF c \in S THEN "failed" ELSE outcome[c]]
           /\ UNCHANGED answer

Next == /\ \/ \E c \in Calls : Ask(c) \/ Refuse(c) \/ Answer(c)
           \/ \E S \in SUBSET Calls : Fail(S)
           \/ UNCHANGED <<outcome, answer>>
        /\ FaultsStay

Spec == Init /\ [][Next]_vars

(* With the promise that nobody waits for ever on a channel that lost nothing. *)
Ends(c) == outcome[c] = "waiting" ~> outcome[c] # "waiting" \/ ~lossless

FairSpec == Spec /\ \A c \in Calls : Ends(c)
=============================================================================
