---------------------------- MODULE ContentScript ----------------------------
(***************************************************************************)
(* extension/src/content: what the extension runs inside a web page. It      *)
(* looks for login forms (index.ts, field-detector.ts), shows an overlay of  *)
(* matching items at the focused field (overlay.ts) and fills a form         *)
(* (autofill.ts).                                                            *)
(*                                                                           *)
(* An event handler is one step, with everything it calls: element.focus()   *)
(* runs the focusin handler before it returns. The callbacks of mutation     *)
(* observers are microtasks: they run before the next event (Observed, and   *)
(* ~mutated in every other guard). A timer is a step of its own.             *)
(*                                                                           *)
(* A page has at most one login form; what it holds is told apart by a       *)
(* generation, which changes whenever the page replaces its elements.        *)
(***************************************************************************)
EXTENDS Integers, Sequences, FiniteSets

CONSTANTS
  Items,              \* vault items
  ScoreUrlMatch,      \* how well the url of each item matches the page's
  OVERLAY_MAX_ITEMS,  \* rows of an overlay
  MaxChanges,         \* bound: changes the page makes to itself
  MaxFills            \* bound: password timers that run at once

ASSUME ContentAssumption ==
  /\ IsFiniteSet(Items) /\ ScoreUrlMatch \in [Items -> 0 .. 100]
  /\ OVERLAY_MAX_ITEMS \in Nat \ {0}
  /\ MaxChanges \in Nat /\ MaxFills \in Nat

VARIABLES
  overlay,      \* the AutofillOverlay
  items,        \* pendingMatchingItems
  activeField,  \* activeField; "gone" for an element that left the page
  dom,          \* the page: the generation of its elements, whether they hold a form
  mutated,      \* observer callbacks are due
  detected,     \* the page detectedForms were found in
  debounce,     \* debounceTimer: "off", "running", "due"
  notified,     \* the page of the last forms_detected message
  fills,        \* password timers of autofillLogin, in the order they were set
  filled        \* whose values the form's two fields hold

contentVars == <<overlay, items, activeField, dom, mutated, detected, debounce,
                 notified, fills, filled>>

NoItem == "none"
Credentials == {"username", "password"}
Fields == Credentials \cup {"other"}
Empty == [field \in Credentials |-> NoItem]

Pages == [generation : 0 .. MaxChanges, form : BOOLEAN]

(* A listener is a number, one for each object bind() makes; 0 is null.      *)
Overlays == [rows : Seq(Items), activeIndex : Int, callback : BOOLEAN,
             boundKeyDown : Nat, boundDocClick : Nat,
             keydown : SUBSET Nat, click : SUBSET Nat, attaching : BOOLEAN]

ContentInit ==
  /\ dom \in [generation : {0}, form : BOOLEAN]
  /\ overlay = [rows |-> <<>>, activeIndex |-> -1, callback |-> TRUE,
                boundKeyDown |-> 0, boundDocClick |-> 0,
                keydown |-> {}, click |-> {}, attaching |-> FALSE]
  /\ items = <<>>
  /\ activeField = "none"
  /\ mutated = FALSE
  /\ detected = dom
  /\ notified = IF dom.form THEN dom ELSE [generation |-> -1, form |-> FALSE]
  /\ debounce = "off"
  /\ fills = <<>>
  /\ filled = Empty
-----------------------------------------------------------------------------
(* Not in the code: hide() that forgets to take the click listener off.      *)
MutHide(o) ==
  [o EXCEPT !.keydown = @ \ {o.boundKeyDown},
            !.boundKeyDown = 0, !.boundDocClick = 0,
            !.rows = <<>>, !.activeIndex = -1]

(* hide: only the listeners the object remembers are removed.                *)
Hide(o) ==
  [o EXCEPT !.keydown = @ \ {o.boundKeyDown}, !.click = @ \ {o.boundDocClick},
            !.boundKeyDown = 0, !.boundDocClick = 0,
            !.rows = <<>>, !.activeIndex = -1]

Destroy(o) == [Hide(o) EXCEPT !.callback = FALSE]

FirstRows(s) ==
  SubSeq(s, 1, IF Len(s) < OVERLAY_MAX_ITEMS THEN Len(s) ELSE OVERLAY_MAX_ITEMS)

Unused(o) == CHOOSE n \in 1 .. 9 : n \notin o.keydown \cup o.click

(* show: the click listener is added by a timer of 0 ms, lest the click that *)
(* opened the overlay closes it.                                             *)
Show(o, shown) ==
  LET d == Destroy(o) IN
  IF shown = <<>> THEN d
  ELSE [d EXCEPT !.rows = FirstRows(shown),
                 !.boundKeyDown = Unused(d), !.boundDocClick = Unused(d),
                 !.keydown = @ \cup {Unused(d)}, !.attaching = TRUE]

(* handleFieldFocus, what it does to the overlay.                            *)
FocusOverlay(o, field) ==
  IF field \in Credentials /\ items # <<>> THEN Show(o, items) ELSE o

(* The overlay is an element of the page: showing and hiding it is seen by   *)
(* the mutation observers.                                                   *)
SetOverlay(o) ==
  /\ overlay' = o
  /\ mutated' = (overlay.rows # <<>> \/ o.rows # <<>>)

Page == <<dom, detected, debounce, notified>>

HandleFieldFocus(field) ==
  /\ ~mutated /\ activeField # field
  /\ field \in Credentials => dom.form
  /\ activeField' = field
  /\ IF field \in Credentials /\ items # <<>>
     THEN SetOverlay(FocusOverlay(overlay, field))
     ELSE UNCHANGED <<overlay, mutated>>
  /\ UNCHANGED <<items, Page, fills, filled>>

HandleFieldBlur ==
  /\ ~mutated /\ activeField \in Fields
  /\ activeField' = "none"
  /\ UNCHANGED <<overlay, mutated, items, Page, fills, filled>>
-----------------------------------------------------------------------------
(* autofillLogin on the form that is in the page now: the user name at once, *)
(* the password by a timer of 50 ms that keeps the element it was given.     *)
StartFill(item) ==
  /\ Len(fills) < MaxFills
  /\ filled' = [filled EXCEPT !["username"] = item]
  /\ fills' = Append(fills, [item |-> item, generation |-> dom.generation])
  /\ activeField' = "username"

(* executeAutofillLogin with an overlay in state o and focus on field;       *)
(* hiding says whether the caller hides the overlay when it returns.         *)
ExecuteAutofillLogin(item, o, field, hiding) ==
  LET After(shown) == IF hiding THEN Hide(shown) ELSE shown IN
  IF dom.form
  THEN /\ StartFill(item)
       /\ SetOverlay(After(IF field = "username" THEN o ELSE FocusOverlay(o, "username")))
  ELSE /\ UNCHANGED <<fills, filled>>
       /\ activeField' = field
       /\ SetOverlay(After(o))

(* Not in the code: the timer looks for a form anew.                         *)
MutFillCurrentForm ==
  /\ ~mutated /\ fills # <<>>
  /\ fills' = Tail(fills)
  /\ filled' = [filled EXCEPT !["password"] = Head(fills).item]
  /\ UNCHANGED <<overlay, mutated, activeField, items, Page>>
-----------------------------------------------------------------------------
(* The 0 ms timer adds the listener the object remembers when it fires, not  *)
(* the one it was set for. How many timers are left does not matter.         *)
AttachDocClick ==
  /\ ~mutated /\ overlay.attaching
  /\ \E more \in BOOLEAN :
       overlay' = [overlay EXCEPT !.attaching = more,
                                  !.click = @ \cup ({overlay.boundDocClick} \ {0})]
  /\ UNCHANGED <<mutated, items, activeField, Page, fills, filled>>

FillPassword ==
  /\ ~mutated /\ fills # <<>>
  /\ fills' = Tail(fills)
  /\ IF Head(fills).generation = dom.generation
     THEN /\ filled' = [filled EXCEPT !["password"] = Head(fills).item]
          /\ activeField' = "password"
          /\ IF activeField # "password" /\ items # <<>>
             THEN SetOverlay(FocusOverlay(overlay, "password"))
             ELSE UNCHANGED <<overlay, mutated>>
     ELSE UNCHANGED <<filled, activeField, overlay, mutated>>
  /\ UNCHANGED <<items, Page>>

(* Not in the code: a highlight that does not wrap round.                   *)
MutMoveHighlight(delta) ==
  /\ ~mutated /\ overlay.keydown # {} /\ overlay.rows # <<>>
  /\ overlay' = [overlay EXCEPT !.activeIndex = @ + delta]
  /\ UNCHANGED <<mutated, items, activeField, Page, fills, filled>>

(* ArrowDown is 1, ArrowUp is -1; rows are counted from 0.                   *)
MoveHighlight(delta) ==
  /\ ~mutated /\ overlay.keydown # {} /\ overlay.rows # <<>>
  /\ overlay' = [overlay EXCEPT !.activeIndex =
                   (@ + delta + Len(overlay.rows)) % Len(overlay.rows)]
  /\ UNCHANGED <<mutated, items, activeField, Page, fills, filled>>

(* The callback of an item, if there is one, and hide() after it.            *)
Select(item, o, field) ==
  IF o.callback THEN ExecuteAutofillLogin(item, o, field, TRUE)
  ELSE /\ SetOverlay(Hide(o))
       /\ activeField' = field
       /\ UNCHANGED <<fills, filled>>

SelectActive ==
  /\ ~mutated /\ overlay.keydown # {} /\ overlay.rows # <<>>
  /\ IF overlay.activeIndex >= 0
     THEN Select(overlay.rows[overlay.activeIndex + 1], overlay, activeField)
     ELSE /\ SetOverlay(Hide(overlay))
          /\ UNCHANGED <<activeField, fills, filled>>
  /\ UNCHANGED <<items, Page>>

(* A click leaves the field, then meets the document's listener, then the    *)
(* row's.                                                                    *)
ClickRow(k) ==
  /\ ~mutated /\ k \in DOMAIN overlay.rows
  /\ Select(overlay.rows[k], IF overlay.click # {} THEN Hide(overlay) ELSE overlay, "none")
  /\ UNCHANGED <<items, Page>>

HandleDocClick ==
  /\ ~mutated /\ overlay.click # {}
  /\ SetOverlay(Hide(overlay))
  /\ activeField' = "none"
  /\ UNCHANGED <<items, Page, fills, filled>>

Escape ==
  /\ ~mutated /\ overlay.keydown # {} /\ overlay.rows # <<>>
  /\ SetOverlay(Hide(overlay))
  /\ UNCHANGED <<activeField, items, Page, fills, filled>>
-----------------------------------------------------------------------------
(* sortByUrlMatch: best matches first, equal ones in any order.              *)
SortByUrlMatch(S) ==
  {s \in [1 .. Cardinality(S) -> S] :
     \A j, k \in DOMAIN s : j < k => s[j] # s[k] /\ ScoreUrlMatch[s[j]] >= ScoreUrlMatch[s[k]]}

(* handleMessage.                                                            *)
ShowOverlay(S) ==
  /\ ~mutated
  /\ items' \in SortByUrlMatch(S)
  /\ IF activeField = "none" THEN UNCHANGED <<overlay, mutated>>
     ELSE SetOverlay(Show(overlay, items'))
  /\ UNCHANGED <<activeField, Page, fills, filled>>

HideOverlay ==
  /\ ~mutated
  /\ SetOverlay(Hide(overlay))
  /\ UNCHANGED <<items, activeField, Page, fills, filled>>

AutofillLogin(item) ==
  /\ ~mutated
  /\ ExecuteAutofillLogin(item, overlay, activeField, FALSE)
  /\ UNCHANGED <<items, Page>>
-----------------------------------------------------------------------------
(* The page replaces its elements. The browser may or may not send focusout  *)
(* for a focused element that goes.                                          *)
DomChange ==
  /\ ~mutated /\ dom.generation < MaxChanges
  /\ dom' \in [generation : {dom.generation + 1}, form : BOOLEAN]
  /\ mutated' = TRUE
  /\ filled' = Empty
  /\ activeField' \in {"none"} \cup (IF activeField = "none" THEN {} ELSE {"gone"})
  /\ UNCHANGED <<overlay, items, detected, debounce, notified, fills>>

(* Not in the code: a timer that is due is not started anew and is lost.     *)
MutObserved ==
  /\ mutated
  /\ mutated' = FALSE
  /\ detected' = dom
  /\ debounce' = IF debounce = "off" THEN "running" ELSE "off"
  /\ UNCHANGED <<overlay, items, activeField, dom, notified, fills, filled>>

(* The two observers: one detects at once, the other starts its timer anew.  *)
Observed ==
  /\ mutated
  /\ mutated' = FALSE
  /\ detected' = dom
  /\ debounce' = "running"
  /\ UNCHANGED <<overlay, items, activeField, dom, notified, fills, filled>>

(* 500 ms without a change of the page.                                      *)
DebounceElapses ==
  /\ ~mutated /\ debounce = "running"
  /\ debounce' = "due"
  /\ UNCHANGED <<overlay, items, activeField, dom, mutated, detected, notified,
                 fills, filled>>

(* refreshDetections and notifyFormsDetected, which says nothing of a page   *)
(* without forms.                                                            *)
DebounceFires ==
  /\ ~mutated /\ debounce = "due"
  /\ debounce' = "off"
  /\ detected' = dom
  /\ notified' = IF detected'.form THEN dom ELSE notified
  /\ UNCHANGED <<overlay, items, activeField, dom, mutated, fills, filled>>

ContentNext ==
  \/ \E field \in Fields : HandleFieldFocus(field)
  \/ HandleFieldBlur
  \/ FillPassword
  \/ AttachDocClick
  \/ \E delta \in {-1, 1} : MoveHighlight(delta)
  \/ SelectActive
  \/ \E k \in DOMAIN overlay.rows : ClickRow(k)
  \/ HandleDocClick
  \/ Escape
  \/ \E S \in SUBSET Items : ShowOverlay(S)
  \/ HideOverlay
  \/ \E item \in Items : AutofillLogin(item)
  \/ DomChange
  \/ Observed
  \/ DebounceElapses
  \/ DebounceFires

(* The browser runs microtasks and timers that are due; the page and the     *)
(* user owe nothing.                                                         *)
ContentFairness ==
  /\ WF_contentVars(Observed)
  /\ WF_contentVars(DebounceElapses)
  /\ WF_contentVars(DebounceFires)

ContentSpec == ContentInit /\ [][ContentNext]_contentVars /\ ContentFairness
-----------------------------------------------------------------------------
ContentTypeOK ==
  /\ overlay \in Overlays
  /\ Len(overlay.rows) <= OVERLAY_MAX_ITEMS
  /\ overlay.activeIndex \in -1 .. Len(overlay.rows) - 1
  /\ items \in Seq(Items)
  /\ activeField \in Fields \cup {"none", "gone"}
  /\ dom \in Pages /\ detected \in Pages
  /\ notified \in Pages \cup {[generation |-> -1, form |-> FALSE]}
  /\ mutated \in BOOLEAN
  /\ debounce \in {"off", "running", "due"}
  /\ fills \in Seq([item : Items, generation : 0 .. MaxChanges])
  /\ filled \in [Credentials -> Items \cup {NoItem}]

(* ListenersFollowOverlay: whatever order shows, hides and their 0 ms timers *)
(* come in, the document has no listener of an overlay that is gone, and at  *)
(* most one of each kind for the one that is there (overlay.ts 192-197 and   *)
(* 257-272); one too many would close the next overlay at its first click    *)
(* or swallow the page's own arrow keys.                                     *)
ListenersFollowOverlay ==
  /\ overlay.click \subseteq {overlay.boundDocClick} \ {0}
  /\ overlay.keydown = {overlay.boundKeyDown} \ {0}
  /\ overlay.boundKeyDown = 0 <=> overlay.rows = <<>>

(* FilledTogether: when no timer is left, both fields of the form that is in *)
(* the page come from one item, though the password is filled 50 ms after    *)
(* the user name, other items may be filled in between and the page may have *)
(* replaced the form (autofill.ts 37-51).                                    *)
FilledTogether == fills = <<>> => filled["username"] = filled["password"]

(* FormsAreReported: once the page stops changing, the worker is told of     *)
(* the forms that are in it (index.ts 306-331), although every change starts *)
(* the timer anew and the overlay itself changes the page.                   *)
FormsAreReported == <>[]~mutated => <>[](dom.form => notified = dom)

(* SelectionFills: choosing a row fills the form with that row's item        *)
(* (overlay.test.ts 115, "calls onSelect callback when item is clicked").    *)
SelectionFills ==
  [][\A k \in DOMAIN overlay.rows :
       ClickRow(k) /\ dom.form =>
         fills' = Append(fills, [item |-> overlay.rows[k], generation |-> dom.generation])
    ]_contentVars
=============================================================================
