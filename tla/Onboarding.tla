------------------------------ MODULE Onboarding ------------------------------
(***************************************************************************)
(* extension/src/popup/onboarding.ts: the four steps of the first pairing.   *)
(* The page polls the worker's state every second from the moment the worker *)
(* has answered 'connect' until it sees the pairing done; it also listens to *)
(* the states the worker broadcasts.                                         *)
(*                                                                           *)
(* Steps differ in their opacity only (onboarding.html 95-107), so a button  *)
(* of any step can be clicked whenever it is not disabled. pairActions is    *)
(* shown from the start: its style names display twice, and flex comes last  *)
(* (onboarding.html 208). A rejection hides it.                              *)
(***************************************************************************)
EXTENDS Integers, Sequences

CONSTANTS MaxStates, MaxPolls
ASSUME OnboardingAssumption == MaxStates \in Nat /\ MaxPolls \in Nat

VARIABLES
  ext,            \* the worker's state
  states,         \* states on their way to the page
  connects,       \* 'connect' messages the worker has not answered
  currentStep,    \* currentStep
  startDisabled,  \* btnStartPair.disabled
  polling,        \* pollingInterval is set
  pairActions,    \* the buttons to confirm and to reject are shown
  open            \* the page is there

onboardingVars == <<ext, states, connects, currentStep, startDisabled, polling, pairActions, open>>

(* What handleState tells apart; a state "pairing" comes with a fingerprint. *)
WorkerStates == {"disconnected", "connecting", "pairing", "connected", "paired"}

OnboardingInit ==
  /\ ext \in WorkerStates
  /\ states = <<ext>>
  /\ connects = 0
  /\ currentStep = 1
  /\ startDisabled = TRUE
  /\ polling = FALSE
  /\ pairActions = TRUE
  /\ open = TRUE

(* Not in the code: a state that shows the pairing done leaves the poll on.  *)
MutHandleState(s) ==
  /\ currentStep' = CASE s = "paired" -> 4 [] s = "pairing" -> 3 [] OTHER -> currentStep
  /\ startDisabled' = (startDisabled /\ s \notin {"paired", "pairing"})
  /\ pairActions' = (pairActions \/ s = "pairing")
  /\ UNCHANGED polling

(* handleState. updateStepVisual enables the start button from step 2 on.    *)
HandleState(s) ==
  /\ currentStep' = CASE s = "paired" -> 4 [] s = "pairing" -> 3 [] OTHER -> currentStep
  /\ startDisabled' = (startDisabled /\ s \notin {"paired", "pairing"})
  /\ polling' = (polling /\ s # "paired")
  /\ pairActions' = (pairActions \/ s = "pairing")

ReceiveUpdate ==
  /\ open /\ states # <<>>
  /\ states' = Tail(states)
  /\ HandleState(Head(states))
  /\ UNCHANGED <<ext, connects, open>>

(* The worker's own steps, ExtensionBackground: any.                         *)
WorkerSteps ==
  /\ Len(states) < MaxStates
  /\ \E s \in WorkerStates \ {ext} : ext' = s /\ states' = Append(states, s)
  /\ UNCHANGED <<connects, currentStep, startDisabled, polling, pairActions, open>>

(* The interval asks; the answer is the state at that time.                  *)
Poll ==
  /\ open /\ polling /\ Len(states) < MaxStates
  /\ states' = Append(states, ext)
  /\ UNCHANGED <<ext, connects, currentStep, startDisabled, polling, pairActions, open>>

StartPair ==
  /\ open /\ ~startDisabled /\ connects < MaxPolls
  /\ currentStep' = IF currentStep < 4 THEN currentStep + 1 ELSE currentStep
  /\ startDisabled' = TRUE
  /\ connects' = connects + 1
  /\ UNCHANGED <<ext, states, polling, pairActions, open>>

(* The answer to 'connect' may come when the pairing is done already.        *)
ConnectAnswered ==
  /\ open /\ connects > 0
  /\ connects' = connects - 1
  /\ polling' = TRUE
  /\ UNCHANGED <<ext, states, currentStep, startDisabled, pairActions, open>>

RejectPair ==
  /\ open /\ pairActions
  /\ pairActions' = FALSE
  /\ polling' = FALSE
  /\ currentStep' = 2
  /\ startDisabled' = FALSE
  /\ UNCHANGED <<ext, states, connects, open>>

Finish ==
  /\ open
  /\ polling' = FALSE
  /\ open' = FALSE
  /\ UNCHANGED <<ext, states, connects, currentStep, startDisabled, pairActions>>

OnboardingNext ==
  \/ ReceiveUpdate
  \/ WorkerSteps
  \/ Poll
  \/ StartPair
  \/ ConnectAnswered
  \/ RejectPair
  \/ Finish

(* The browser delivers messages and runs the interval. The user and the     *)
(* worker owe nothing.                                                       *)
OnboardingFairness ==
  /\ WF_onboardingVars(ReceiveUpdate)
  /\ WF_onboardingVars(ConnectAnswered)
  /\ SF_onboardingVars(Poll)

OnboardingSpec == OnboardingInit /\ [][OnboardingNext]_onboardingVars /\ OnboardingFairness
-----------------------------------------------------------------------------
OnboardingTypeOK ==
  /\ ext \in WorkerStates
  /\ states \in Seq(WorkerStates)
  /\ connects \in 0 .. MaxPolls
  /\ currentStep \in 1 .. 4
  /\ startDisabled \in BOOLEAN /\ polling \in BOOLEAN
  /\ pairActions \in BOOLEAN /\ open \in BOOLEAN

(* PollingEnds: when the pairing is done and is not begun again, the page    *)
(* stops asking for the state, although the answer to 'connect' may start    *)
(* the interval after the state that ended it (onboarding.ts 61-83, 128-130).*)
PollingEnds == <>[](ext = "paired" /\ connects = 0) => <>[]~polling
=============================================================================
