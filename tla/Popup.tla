-------------------------------- MODULE Popup --------------------------------
(***************************************************************************)
(* extension/src/popup/index.ts: the page the extension's button opens. It   *)
(* shows the state the background worker broadcasts, asks for the vault when *)
(* it is connected and has none, and keeps one timer for the countdown it    *)
(* shows, be it an item's or the generator's.                                *)
(*                                                                           *)
(* Of the worker (ExtensionBackground) the page sees the states it           *)
(* broadcasts, in order, so any sequence of them is allowed here. The search *)
(* text and the tab are one filter.                                          *)
(***************************************************************************)
EXTENDS Integers, Sequences, FiniteSets

CONSTANTS
  VaultItems,  \* the items a vault may hold
  Passwords,   \* those of type 'password'
  Otp,         \* those with an otpSecret
  MaxInbox,    \* bound: broadcasts on their way to the page
  MaxRequests  \* bound: vault requests that are not answered

ASSUME PopupAssumption ==
  /\ Otp \subseteq Passwords /\ Passwords \subseteq VaultItems
  /\ {"no item", "generator"} \cap VaultItems = {}
  /\ MaxInbox \in Nat /\ MaxRequests \in Nat

VARIABLES
  worker,        \* what the worker broadcast last
  inbox,         \* state_update messages, and the answer to get_state
  requests,      \* get_vault messages the worker has not answered
  currentState,  \* currentState
  currentView,   \* currentView
  activeTab,     \* activeTab
  rows,          \* the items of itemListEl
  selectedItem,  \* selectedItem
  otpInterval,   \* otpInterval, 0 for null
  intervals      \* the intervals that run: handle and what they refresh

Messages == <<worker, inbox, requests>>
Timer == <<otpInterval, intervals>>
popupVars == <<Messages, currentState, currentView, activeTab, rows, selectedItem, Timer>>

NoItemYet == "no item"
Generator == "generator"
(* ConnectionState, without LOCKED: no code sets it.                         *)
ConnectionState == {"disconnected", "connecting", "pairing", "connected"}
States == [connectionState : ConnectionState, vaultItems : SUBSET VaultItems]
Views == {"disconnected", "pairing", "connected", "detail", "generator"}
Tabs == {"all", "password"}

PopupInit ==
  /\ worker \in States
  /\ inbox = <<worker>>
  /\ requests = 0
  /\ currentState = [connectionState |-> "disconnected", vaultItems |-> {}]
  /\ currentView = "disconnected"
  /\ activeTab = "all"
  /\ rows = {}
  /\ selectedItem = NoItemYet
  /\ otpInterval = 0
  /\ intervals = {}
-----------------------------------------------------------------------------
Filtered(vault, tab) == IF tab = "all" THEN vault ELSE vault \cap Passwords

(* Not in the code: the interval that runs is not cleared.                   *)
MutStartInterval(what) ==
  LET handle == CHOOSE n \in 1 .. 9 : \A i \in intervals : i.handle # n IN
  /\ otpInterval' = handle
  /\ intervals' = intervals \cup {[handle |-> handle, of |-> what]}

(* setInterval after clearInterval of the handle otpInterval holds.          *)
StartInterval(what) ==
  LET Others == {i \in intervals : i.handle # otpInterval}
      handle == CHOOSE n \in 1 .. 9 : \A i \in intervals : i.handle # n IN
  /\ otpInterval' = handle
  /\ intervals' = Others \cup {[handle |-> handle, of |-> what]}

ClearInterval ==
  /\ otpInterval' = 0
  /\ intervals' = {i \in intervals : i.handle # otpInterval}

(* renderState: a vault that is empty is asked for, and the list stays as it *)
(* was.                                                                      *)
ViewOf(s) ==
  IF s.connectionState = "connecting" THEN "disconnected" ELSE s.connectionState

RenderState(s) ==
  /\ currentState' = s
  /\ currentView' = ViewOf(s)
  /\ IF s.connectionState = "connected" /\ s.vaultItems # {}
     THEN rows' = Filtered(s.vaultItems, activeTab)
     ELSE UNCHANGED rows
  /\ requests' = requests + (IF s.connectionState = "connected" /\ s.vaultItems = {}
                             THEN 1 ELSE 0)

ReceiveState ==
  /\ inbox # <<>> /\ requests < MaxRequests
  /\ inbox' = Tail(inbox)
  /\ RenderState(Head(inbox))
  /\ UNCHANGED <<worker, activeTab, selectedItem, Timer>>

(* setState of the worker.                                                   *)
SetState(s) ==
  /\ Len(inbox) < MaxInbox
  /\ worker' = s
  /\ inbox' = Append(inbox, s)

WorkerMoves ==
  /\ \E s \in States : s # worker /\ SetState(s)
  /\ UNCHANGED <<requests, currentState, currentView, activeTab, rows, selectedItem, Timer>>

(* The worker's answer to get_vault: the vault it received, or an error,     *)
(* which changes no state.                                                   *)
AnswerVault ==
  /\ requests > 0
  /\ requests' = requests - 1
  /\ \/ \E vault \in SUBSET VaultItems : SetState([worker EXCEPT !.vaultItems = vault])
     \/ UNCHANGED <<worker, inbox>>
  /\ UNCHANGED <<currentState, currentView, activeTab, rows, selectedItem, Timer>>
-----------------------------------------------------------------------------
(* Not in the code: a countdown that runs already is kept.                   *)
MutClickItem(item) ==
  /\ currentView = "connected" /\ item \in rows
  /\ selectedItem' = item
  /\ currentView' = "detail"
  /\ IF item \in Otp /\ otpInterval = 0 THEN StartInterval(item)
     ELSE UNCHANGED Timer
  /\ UNCHANGED <<Messages, currentState, activeTab, rows>>

(* renderItemDetail with startOtpCountdown: of an item without a secret the  *)
(* timer that runs is left alone.                                            *)
ClickItem(item) ==
  /\ currentView = "connected" /\ item \in rows
  /\ selectedItem' = item
  /\ currentView' = "detail"
  /\ IF item \in Otp THEN StartInterval(item) ELSE UNCHANGED Timer
  /\ UNCHANGED <<Messages, currentState, activeTab, rows>>

(* 'btnBack', a button of the detail view.                                   *)
Back ==
  /\ currentView = "detail"
  /\ ClearInterval
  /\ currentView' = "connected"
  /\ IF selectedItem # NoItemYet /\ currentState.connectionState = "connected"
     THEN /\ rows' = Filtered(currentState.vaultItems, activeTab)
          /\ selectedItem' = NoItemYet
     ELSE UNCHANGED <<rows, selectedItem>>
  /\ UNCHANGED <<Messages, currentState, activeTab>>

(* Not in the code: a tab that does not draw the list again.                *)
MutSetFilter(tab) ==
  /\ currentView = "connected" /\ tab # activeTab
  /\ activeTab' = tab
  /\ UNCHANGED <<Messages, currentState, currentView, rows, selectedItem, Timer>>

(* The tabs and the search field of the connected view.                      *)
SetFilter(tab) ==
  /\ currentView = "connected" /\ tab # activeTab
  /\ activeTab' = tab
  /\ rows' = Filtered(currentState.vaultItems, tab)
  /\ UNCHANGED <<Messages, currentState, currentView, selectedItem, Timer>>

(* 'btnGenerator', a button of the footer.                                   *)
OpenGenerator ==
  /\ currentView # "generator"
  /\ currentView' = "generator"
  /\ UNCHANGED <<Messages, currentState, activeTab, rows, selectedItem, Timer>>

(* runClientOtpGenerator with a secret.                                      *)
GenerateOtp ==
  /\ currentView = "generator"
  /\ StartInterval(Generator)
  /\ UNCHANGED <<Messages, currentState, currentView, activeTab, rows, selectedItem>>

(* The tab 'otp' of the generator is chosen: the timer is cleared there, not *)
(* when it is left.                                                          *)
ChooseGenTab ==
  /\ currentView = "generator" /\ otpInterval # 0
  /\ ClearInterval
  /\ UNCHANGED <<Messages, currentState, currentView, activeTab, rows, selectedItem>>

PopupNext ==
  \/ ReceiveState
  \/ WorkerMoves
  \/ AnswerVault
  \/ \E item \in VaultItems : ClickItem(item)
  \/ Back
  \/ \E tab \in Tabs : SetFilter(tab)
  \/ OpenGenerator
  \/ GenerateOtp
  \/ ChooseGenTab

PopupSpec == PopupInit /\ [][PopupNext]_popupVars
-----------------------------------------------------------------------------
PopupTypeOK ==
  /\ worker \in States /\ currentState \in States
  /\ inbox \in Seq(States)
  /\ requests \in 0 .. MaxRequests
  /\ currentView \in Views
  /\ activeTab \in Tabs
  /\ rows \in SUBSET VaultItems
  /\ selectedItem \in VaultItems \cup {NoItemYet}
  /\ otpInterval \in Nat
  /\ intervals \subseteq [handle : Nat \ {0}, of : Otp \cup {Generator}]

(* OneInterval: however the user wanders between items and the generator     *)
(* while states arrive, the interval that runs is the one otpInterval holds, *)
(* so that 'btnBack' and the next countdown can end it (index.ts 330-353,    *)
(* 590-617, 666, 728-731).                                                   *)
OneInterval == \A i \in intervals : i.handle = otpInterval

(* DetailIsLive: an item is shown only while the page knows it is connected; *)
(* the countdown of an item with a secret is refreshed as long as the item   *)
(* is shown, though it shares its timer with the generator; and wherever the *)
(* user went since, an interval that reads selectedItem! finds one (index.ts *)
(* 214-353, 463-499, 665-676).                                               *)
DetailIsLive ==
  /\ currentView = "detail" =>
       /\ currentState.connectionState = "connected"
       /\ selectedItem # NoItemYet
       /\ selectedItem \in Otp => \E i \in intervals : i.of = selectedItem
  /\ \A i \in intervals : i.of \in Otp => selectedItem # NoItemYet

(* RowsFollowVault: the list shows what is in the vault and passes the       *)
(* filter, whatever came between: other views, tabs, a connection that went  *)
(* and came back (index.ts 148-212, 463-499). Of an empty vault the list may *)
(* still show the rows of the vault before.                                  *)
RowsFollowVault ==
  currentView = "connected" /\ currentState.vaultItems # {} =>
    rows = Filtered(currentState.vaultItems, activeTab)
=============================================================================
