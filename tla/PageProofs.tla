------------------------- MODULE PageProofs -------------------------
(***************************************************************************)
(* What is proved of the pages the extension runs in, for any bounds.        *)
(*                                                                           *)
(* The content script, for any items, host names and page: its overlay       *)
(* leaves no listener behind, and the two fields of a form are filled        *)
(* together. The overlay is changed only by hide, show and the click         *)
(* listener's timer, each a function of the object, and so are the lemmas    *)
(* about it. For the fields, a timer's generation tells whether its form is  *)
(* still in the page; generations only grow, so a form that is new is        *)
(* touched by no timer of an old one.                                        *)
(*                                                                           *)
(* The popup, for any vault and any sequence of states the worker            *)
(* broadcasts: one interval runs at most and can be ended, the item on the   *)
(* screen is live, and the list follows the vault. The three need each       *)
(* other: a countdown is lost if two run, and the button back draws the list *)
(* again only while an item is selected.                                     *)
(***************************************************************************)
EXTENDS ContentScript, Popup, Onboarding, FiniteSetTheorems, SequenceTheorems, TLAPS

Listening(o) ==
  /\ o.click \subseteq {o.boundDocClick} \ {0}
  /\ o.keydown = {o.boundKeyDown} \ {0}
  /\ o.boundKeyDown = 0 <=> o.rows = <<>>
  /\ o.activeIndex \in -1 .. Len(o.rows) - 1
  /\ Len(o.rows) <= OVERLAY_MAX_ITEMS

SafeOverlay(o) == o \in Overlays /\ Listening(o)

Fills == [item : Items, generation : Nat]

(* The last timer that was set is of the form in the page and of the item    *)
(* that has its user name, or the form in the page is untouched and no       *)
(* timer's.                                                                  *)
LastFillCounts ==
  fills # <<>> =>
    \/ fills[Len(fills)].generation = dom.generation
       /\ filled["username"] = fills[Len(fills)].item
    \/ /\ filled = Empty
       /\ \A k \in DOMAIN fills : fills[k].generation # dom.generation

FillsInv ==
  /\ dom.generation \in Nat
  /\ fills \in Seq(Fills) /\ filled \in [Credentials -> Items \cup {NoItem}]
  /\ \A k \in DOMAIN fills : fills[k].generation <= dom.generation
  /\ LastFillCounts /\ FilledTogether

ContentIInv == SafeOverlay(overlay) /\ items \in Seq(Items) /\ FillsInv
-----------------------------------------------------------------------------
(* hide() takes every listener off.                                          *)
LEMMA HideSafe ==
  ASSUME NEW o \in Overlays, Listening(o)
  PROVE  /\ SafeOverlay(Hide(o))
         /\ Hide(o).keydown = {} /\ Hide(o).click = {} /\ Hide(o).activeIndex = -1
<1>1. /\ Hide(o).keydown = o.keydown \ {o.boundKeyDown}
      /\ Hide(o).click = o.click \ {o.boundDocClick}
      /\ Hide(o).boundKeyDown = 0 /\ Hide(o).boundDocClick = 0 /\ Hide(o).rows = <<>>
      /\ Hide(o).activeIndex = -1
  BY DEF Hide, Overlays
<1>2. Hide(o).keydown = {} /\ Hide(o).click = {}
  BY <1>1 DEF Listening
<1>3. Hide(o) \in Overlays
  <2>1. o.keydown \ {o.boundKeyDown} \in SUBSET Nat /\ o.click \ {o.boundDocClick} \in SUBSET Nat
    BY DEF Overlays
  <2>2. <<>> \in Seq(Items) /\ -1 \in Int /\ 0 \in Nat
    OBVIOUS
  <2> QED BY <2>1, <2>2 DEF Hide, Overlays
<1>4. Len(<<>>) <= OVERLAY_MAX_ITEMS
  BY ContentAssumption DEF ContentAssumption
<1> QED BY <1>1, <1>2, <1>3, <1>4 DEF SafeOverlay, Listening

(* So does destroy().                                                        *)
LEMMA DestroySafe ==
  ASSUME NEW o \in Overlays, Listening(o)
  PROVE  /\ SafeOverlay(Destroy(o))
         /\ Destroy(o).keydown = {} /\ Destroy(o).click = {} /\ Destroy(o).activeIndex = -1
<1>1. SafeOverlay(Hide(o)) /\ Hide(o).keydown = {} /\ Hide(o).click = {}
      /\ Hide(o).activeIndex = -1
  BY HideSafe
<1> DEFINE h == Hide(o)
<1> HIDE DEF h
<1>2. ASSUME NEW x \in Overlays, Listening(x)
      PROVE  /\ [x EXCEPT !.callback = FALSE] \in Overlays
             /\ Listening([x EXCEPT !.callback = FALSE])
             /\ [x EXCEPT !.callback = FALSE].keydown = x.keydown
             /\ [x EXCEPT !.callback = FALSE].click = x.click
             /\ [x EXCEPT !.callback = FALSE].activeIndex = x.activeIndex
  BY <1>2 DEF Overlays, Listening
<1> QED BY <1>1, <1>2 DEF SafeOverlay, Destroy

(* show() makes a row for one item at least and for no more than there is    *)
(* room.                                                                     *)
LEMMA FirstRowsSome ==
  ASSUME NEW s \in Seq(Items), s # <<>>
  PROVE  /\ FirstRows(s) \in Seq(Items) /\ FirstRows(s) # <<>>
         /\ Len(FirstRows(s)) <= OVERLAY_MAX_ITEMS
<1> DEFINE n == IF Len(s) < OVERLAY_MAX_ITEMS THEN Len(s) ELSE OVERLAY_MAX_ITEMS
<1>1. OVERLAY_MAX_ITEMS \in Nat \ {0}
  BY ContentAssumption DEF ContentAssumption
<1>2. n \in 1 .. Len(s) /\ n <= OVERLAY_MAX_ITEMS
  BY <1>1
<1>3. SubSeq(s, 1, n) \in Seq(Items) /\ Len(SubSeq(s, 1, n)) = n
  BY <1>2
<1> QED BY <1>2, <1>3 DEF FirstRows

(* show() takes the old listeners off before it sets its own.                *)
LEMMA ShowSafe ==
  ASSUME NEW o \in Overlays, Listening(o), NEW s \in Seq(Items)
  PROVE  SafeOverlay(Show(o, s))
<1>1. SafeOverlay(Destroy(o)) /\ Destroy(o).keydown = {} /\ Destroy(o).click = {}
      /\ Destroy(o).activeIndex = -1
  BY DestroySafe
<1>2. CASE s = <<>>
  BY <1>1, <1>2 DEF Show
<1>3. CASE s # <<>>
  <2>1. Unused(Destroy(o)) \in 1 .. 9
    BY <1>1, 1 \in 1 .. 9 DEF Unused
  <2>2. /\ FirstRows(s) \in Seq(Items) /\ FirstRows(s) # <<>>
        /\ Len(FirstRows(s)) <= OVERLAY_MAX_ITEMS
    BY <1>3, FirstRowsSome
  <2>3. ASSUME NEW d \in Overlays, d.keydown = {}, d.click = {}, d.activeIndex = -1,
               NEW n \in 1 .. 9,
               NEW r \in Seq(Items), r # <<>>, Len(r) <= OVERLAY_MAX_ITEMS
        PROVE  SafeOverlay([d EXCEPT !.rows = r, !.boundKeyDown = n, !.boundDocClick = n,
                                     !.keydown = @ \cup {n}, !.attaching = TRUE])
    <3> DEFINE e == [d EXCEPT !.rows = r, !.boundKeyDown = n, !.boundDocClick = n,
                              !.keydown = @ \cup {n}, !.attaching = TRUE]
    <3>1. d.keydown \cup {n} = {n} /\ {n} \in SUBSET Nat /\ n \in Nat
      BY <2>3
    <3>2. e \in Overlays
      BY <2>3, <3>1 DEF Overlays
    <3>3. e.rows = r /\ e.boundKeyDown = n /\ e.boundDocClick = n /\ e.keydown = {n} /\ e.click = {}
          /\ e.activeIndex = -1
      BY <2>3, <3>1 DEF Overlays
    <3>4. Len(r) \in Nat \ {0}
      BY <2>3
    <3> HIDE DEF e
    <3>5. SafeOverlay(e)
      BY <2>3, <3>2, <3>3, <3>4 DEF SafeOverlay, Listening
    <3> QED BY <2>3, <3>3, <3>5 DEF e
  <2> QED BY <1>1, <1>3, <2>1, <2>2, <2>3 DEF Show, SafeOverlay
<1> QED BY <1>2, <1>3

(* A field that gets the focus shows the overlay, if there are items.        *)
LEMMA FocusSafe ==
  ASSUME NEW o \in Overlays, Listening(o), items \in Seq(Items), NEW field
  PROVE  SafeOverlay(FocusOverlay(o, field))
BY ShowSafe DEF FocusOverlay, SafeOverlay

(* The timer of show() attaches the click listener that is bound, or none.   *)
LEMMA AttachSafe ==
  ASSUME SafeOverlay(overlay), AttachDocClick
  PROVE  SafeOverlay(overlay')
<1>1. PICK more \in BOOLEAN :
        overlay' = [overlay EXCEPT !.attaching = more,
                                   !.click = @ \cup ({overlay.boundDocClick} \ {0})]
  BY DEF AttachDocClick
<1> DEFINE click == overlay.click \cup ({overlay.boundDocClick} \ {0})
<1>2. click \in SUBSET Nat /\ click \subseteq {overlay.boundDocClick} \ {0}
  BY DEF SafeOverlay, Overlays, Listening
<1>3. overlay' \in Overlays
  BY <1>1, <1>2 DEF SafeOverlay, Overlays
<1>4. /\ overlay'.click = click /\ overlay'.rows = overlay.rows
      /\ overlay'.keydown = overlay.keydown /\ overlay'.boundKeyDown = overlay.boundKeyDown
      /\ overlay'.boundDocClick = overlay.boundDocClick
      /\ overlay'.activeIndex = overlay.activeIndex
  BY <1>1 DEF SafeOverlay, Overlays
<1> QED BY <1>2, <1>3, <1>4 DEF SafeOverlay, Listening

(* The highlight stays on a row.                                             *)
LEMMA MoveSafe ==
  ASSUME SafeOverlay(overlay), NEW delta \in {-1, 1}, MoveHighlight(delta)
  PROVE  SafeOverlay(overlay')
<1> DEFINE index == (overlay.activeIndex + delta + Len(overlay.rows)) % Len(overlay.rows)
<1>1. overlay' = [overlay EXCEPT !.activeIndex = index]
  BY DEF MoveHighlight
<1>2. index \in 0 .. Len(overlay.rows) - 1
  <2>1. Len(overlay.rows) \in Nat \ {0} /\ overlay.activeIndex \in Int
    BY DEF SafeOverlay, Overlays, MoveHighlight
  <2>2. \A a \in Int, n \in Nat \ {0} : a % n \in 0 .. n - 1
    OBVIOUS
  <2>3. overlay.activeIndex + delta + Len(overlay.rows) \in Int
    BY <2>1
  <2> HIDE DEF index
  <2>4. ASSUME NEW a \in Int, a = overlay.activeIndex + delta + Len(overlay.rows),
               NEW n \in Nat \ {0}, n = Len(overlay.rows)
        PROVE  index \in 0 .. n - 1
    BY <2>2, <2>4 DEF index
  <2> QED BY <2>1, <2>3, <2>4
<1> HIDE DEF index
<1>3. overlay' \in Overlays
  <2>1. Len(overlay.rows) \in Nat
    BY DEF SafeOverlay, Overlays
  <2>2. index \in Int
    BY <1>2, <2>1
  <2> QED BY <1>1, <2>2 DEF SafeOverlay, Overlays
<1>4. /\ overlay'.click = overlay.click /\ overlay'.rows = overlay.rows
      /\ overlay'.keydown = overlay.keydown /\ overlay'.boundKeyDown = overlay.boundKeyDown
      /\ overlay'.boundDocClick = overlay.boundDocClick /\ overlay'.activeIndex = index
  BY <1>1 DEF SafeOverlay, Overlays
<1> QED BY <1>2, <1>3, <1>4 DEF SafeOverlay, Listening
-----------------------------------------------------------------------------
(* The page starts without an overlay and without a fill.                    *)
LEMMA ContentInitInv == ContentInit => ContentIInv
<1> SUFFICES ASSUME ContentInit PROVE ContentIInv
  OBVIOUS
<1>1. overlay \in Overlays
  <2>1. <<>> \in Seq(Items) /\ -1 \in Int /\ 0 \in Nat /\ {} \in SUBSET Nat
    OBVIOUS
  <2> QED BY <2>1 DEF ContentInit, Overlays
<1>2. Listening(overlay)
  <2>1. overlay.rows = <<>> /\ Len(<<>>) = 0 /\ 0 <= OVERLAY_MAX_ITEMS
    BY ContentAssumption DEF ContentInit, ContentAssumption
  <2> QED BY <2>1 DEF ContentInit, Listening
<1>3. items \in Seq(Items) /\ fills = <<>> /\ filled = Empty
  BY EmptySeq DEF ContentInit
<1>4. dom.generation = 0
  BY DEF ContentInit
<1>5. FillsInv
  BY <1>3, <1>4, EmptySeq DEF FillsInv, LastFillCounts, FilledTogether, Empty, Credentials
<1> QED BY <1>1, <1>2, <1>3, <1>5 DEF ContentIInv, SafeOverlay

(* The fields and their timers, step by step.                                *)
LEMMA FillsStay ==
  ASSUME FillsInv, UNCHANGED <<fills, filled, dom>>
  PROVE  FillsInv'
BY DEF FillsInv, LastFillCounts, FilledTogether

(* A fill that starts writes the user name and sets the last timer for its   *)
(* password.                                                                 *)
LEMMA StartFillInv ==
  ASSUME FillsInv, NEW item \in Items, StartFill(item), dom' = dom
  PROVE  FillsInv'
<1> DEFINE fill == [item |-> item, generation |-> dom.generation]
<1>1. fill \in Fills /\ fill.item = item /\ fill.generation = dom.generation
  BY DEF FillsInv, Fills
<1>2. fills \in Seq(Fills) /\ fills' = Append(fills, fill)
  BY DEF FillsInv, StartFill
<1> HIDE DEF fill
<1>3. /\ fills' \in Seq(Fills) /\ fills' # <<>> /\ Len(fills') = Len(fills) + 1
      /\ fills'[Len(fills')] = fill
      /\ \A k \in DOMAIN fills' : k = Len(fills') \/ (k \in DOMAIN fills /\ fills'[k] = fills[k])
  BY <1>1, <1>2
<1>4. filled' \in [Credentials -> Items \cup {NoItem}] /\ filled'["username"] = item
  BY DEF StartFill, FillsInv, Credentials
<1>5. LastFillCounts' /\ FilledTogether'
  BY <1>1, <1>3, <1>4 DEF LastFillCounts, FilledTogether
<1>6. \A k \in DOMAIN fills' : fills'[k].generation <= dom.generation
  BY <1>1, <1>3 DEF FillsInv
<1> QED BY <1>3, <1>4, <1>5, <1>6 DEF FillsInv

(* The tail of a queue has its entries one place earlier.                    *)
LEMMA TailShifts ==
  ASSUME NEW S, NEW q \in Seq(S), q # <<>>
  PROVE  /\ Tail(q) \in Seq(S) /\ Len(q) \in Nat \ {0} /\ Len(Tail(q)) = Len(q) - 1
         /\ DOMAIN q = 1 .. Len(q) /\ DOMAIN Tail(q) = 1 .. Len(q) - 1
         /\ \A k \in DOMAIN Tail(q) : k + 1 \in DOMAIN q /\ Tail(q)[k] = q[k + 1]
         /\ Head(q) = q[1] /\ 1 \in DOMAIN q /\ Len(q) \in DOMAIN q
         /\ Tail(q) = <<>> <=> Len(q) = 1
<1>1. Len(q) \in Nat \ {0} /\ DOMAIN q = 1 .. Len(q) /\ Head(q) = q[1]
  OBVIOUS
<1>2. /\ Tail(q) \in Seq(S) /\ Len(Tail(q)) = Len(q) - 1
      /\ \A k \in 1 .. Len(q) - 1 : Tail(q)[k] = q[k + 1]
  OBVIOUS
<1>3. DOMAIN Tail(q) = 1 .. Len(q) - 1
  BY <1>2
<1>4. \A k \in 1 .. Len(q) - 1 : k + 1 \in 1 .. Len(q)
  BY <1>1
<1>5. Tail(q) = <<>> <=> Len(q) = 1
  <2>1. Tail(q) = <<>> <=> Len(Tail(q)) = 0
    BY <1>2, EmptySeq
  <2> QED BY <1>1, <1>2, <2>1
<1>6. 1 \in DOMAIN q /\ Len(q) \in DOMAIN q
  BY <1>1
<1> QED BY <1>1, <1>2, <1>3, <1>4, <1>5, <1>6

(* Once the last timer fired its item is in both fields, or nobody's is.     *)
LEMMA FillPasswordInv ==
  ASSUME FillsInv, FillPassword
  PROVE  FillsInv'
<1>1. fills \in Seq(Fills) /\ fills # <<>> /\ fills' = Tail(fills) /\ dom' = dom
  BY DEF FillsInv, FillPassword, Page
<1>2. /\ fills' \in Seq(Fills) /\ Len(fills) \in Nat \ {0} /\ Len(fills') = Len(fills) - 1
      /\ DOMAIN fills = 1 .. Len(fills) /\ DOMAIN fills' = 1 .. Len(fills) - 1
      /\ \A k \in DOMAIN fills' : k + 1 \in DOMAIN fills /\ fills'[k] = fills[k + 1]
      /\ Head(fills) = fills[1] /\ 1 \in DOMAIN fills /\ Len(fills) \in DOMAIN fills
      /\ fills' = <<>> <=> Len(fills) = 1
  BY <1>1, TailShifts
<1>3. fills' # <<>> => fills'[Len(fills')] = fills[Len(fills)] /\ Len(fills') \in DOMAIN fills'
  BY <1>2
<1>4. Head(fills) \in Fills
  BY <1>1, <1>2
<1>5. \A k \in DOMAIN fills' : fills'[k].generation <= dom.generation
  BY <1>2 DEF FillsInv
<1>6. CASE Head(fills).generation = dom.generation
  <2>1. filled' = [filled EXCEPT !["password"] = Head(fills).item]
    BY <1>6 DEF FillPassword
  <2>2. /\ filled' \in [Credentials -> Items \cup {NoItem}]
        /\ filled'["username"] = filled["username"] /\ filled'["password"] = Head(fills).item
    BY <1>4, <2>1 DEF FillsInv, Credentials, Fills
  <2>3. /\ fills[Len(fills)].generation = dom.generation
        /\ filled["username"] = fills[Len(fills)].item
    BY <1>1, <1>2, <1>6 DEF FillsInv, LastFillCounts
  <2>4. LastFillCounts' /\ FilledTogether'
    BY <1>1, <1>2, <1>3, <2>2, <2>3 DEF LastFillCounts, FilledTogether
  <2> QED BY <1>1, <1>2, <1>5, <2>2, <2>4 DEF FillsInv
<1>7. CASE Head(fills).generation # dom.generation
  <2>1. filled' = filled
    BY <1>7 DEF FillPassword
  <2>2. LastFillCounts'
    BY <1>1, <1>2, <1>3, <2>1 DEF FillsInv, LastFillCounts
  <2>3. FilledTogether'
    BY <1>1, <1>2, <1>7, <2>1 DEF FillsInv, LastFillCounts, FilledTogether, Empty, Credentials
  <2> QED BY <1>1, <1>2, <1>5, <2>1, <2>2, <2>3 DEF FillsInv
<1> QED BY <1>6, <1>7

(* A change of the page leaves an empty form, of a generation no timer has.  *)
LEMMA DomChangeFills ==
  ASSUME FillsInv, DomChange
  PROVE  FillsInv'
<1>1. dom'.generation = dom.generation + 1 /\ filled' = Empty /\ fills' = fills
  BY DEF DomChange
<1>2. \A k \in DOMAIN fills : fills[k].generation \in Nat
  <2>1. \A k \in DOMAIN fills : fills[k] \in Fills
    BY DEF FillsInv
  <2>2. \A fill \in Fills : fill.generation \in Nat
    BY DEF Fills
  <2> QED BY <2>1, <2>2
<1>3. \A k \in DOMAIN fills : fills[k].generation <= dom'.generation
                             /\ fills[k].generation # dom'.generation
  BY <1>1, <1>2 DEF FillsInv
<1>4. Empty \in [Credentials -> Items \cup {NoItem}] /\ Empty["username"] = Empty["password"]
  BY DEF Empty, Credentials
<1> QED BY <1>1, <1>3, <1>4 DEF FillsInv, LastFillCounts, FilledTogether
-----------------------------------------------------------------------------
(* A row or a message fills: the fields, and the overlay that goes with it.  *)
LEMMA ExecuteInv ==
  ASSUME FillsInv, items \in Seq(Items), NEW item \in Items, NEW o \in Overlays, Listening(o),
         NEW field, NEW hiding \in BOOLEAN, ExecuteAutofillLogin(item, o, field, hiding),
         dom' = dom
  PROVE  FillsInv' /\ SafeOverlay(overlay')
<1>1. SafeOverlay(FocusOverlay(o, "username")) /\ SafeOverlay(o)
  BY FocusSafe DEF SafeOverlay
<1>2. \/ StartFill(item)
      \/ UNCHANGED <<fills, filled>>
  BY DEF ExecuteAutofillLogin
<1>3. FillsInv'
  BY <1>2, StartFillInv, FillsStay
<1>4. PICK shown \in {o, FocusOverlay(o, "username")} :
        overlay' = IF hiding THEN Hide(shown) ELSE shown
  BY DEF ExecuteAutofillLogin, SetOverlay
<1>5. SafeOverlay(shown)
  BY <1>1, <1>4
<1>6. SafeOverlay(Hide(shown))
  BY <1>5, HideSafe DEF SafeOverlay
<1> QED BY <1>3, <1>4, <1>5, <1>6

(* An item that is selected starts a fill, if there is a form, and hides the *)
(* overlay.                                                                  *)
LEMMA SelectInv ==
  ASSUME FillsInv, items \in Seq(Items), NEW item \in Items, NEW o \in Overlays, Listening(o),
         NEW field, Select(item, o, field), dom' = dom
  PROVE  FillsInv' /\ SafeOverlay(overlay')
<1>1. CASE o.callback
  BY <1>1, ExecuteInv DEF Select
<1>2. CASE ~o.callback
  <2>1. overlay' = Hide(o) /\ UNCHANGED <<fills, filled, dom>>
    BY <1>2 DEF Select, SetOverlay
  <2> QED BY <2>1, HideSafe, FillsStay
<1> QED BY <1>1, <1>2

(* The steps of a focus and of a password timer keep the invariant.          *)
LEMMA FocusAndFillInv ==
  ASSUME ContentIInv, (\E field \in Fields : HandleFieldFocus(field)) \/ FillPassword
  PROVE  ContentIInv'
<1>1. SafeOverlay(overlay) /\ items \in Seq(Items) /\ FillsInv
  BY DEF ContentIInv
<1>2. overlay' = overlay \/ \E field : overlay' = FocusOverlay(overlay, field)
  BY DEF HandleFieldFocus, FillPassword, SetOverlay
<1>3. SafeOverlay(overlay')
  BY <1>1, <1>2, FocusSafe DEF SafeOverlay
<1>4. items' = items
  BY DEF HandleFieldFocus, FillPassword
<1>5. FillsInv'
  BY <1>1, FillPasswordInv, FillsStay DEF HandleFieldFocus, Page
<1> QED BY <1>1, <1>3, <1>4, <1>5 DEF ContentIInv

(* So do the choice of a row and the message that fills.                     *)
LEMMA RowsInv ==
  ASSUME ContentIInv, SelectActive \/ (\E k \in DOMAIN overlay.rows : ClickRow(k))
                      \/ (\E item \in Items : AutofillLogin(item))
  PROVE  ContentIInv'
<1>1. overlay \in Overlays /\ Listening(overlay) /\ items \in Seq(Items) /\ FillsInv
  BY DEF ContentIInv, SafeOverlay
<1>2. dom' = dom /\ items' = items
  BY DEF SelectActive, ClickRow, AutofillLogin, Page
<1>3. overlay.rows \in Seq(Items)
  BY <1>1 DEF Overlays
<1>4. CASE SelectActive
  <2>1. CASE overlay.activeIndex >= 0
    <3>1. Select(overlay.rows[overlay.activeIndex + 1], overlay, activeField)
      BY <1>4, <2>1 DEF SelectActive
    <3>2. overlay.rows[overlay.activeIndex + 1] \in Items
      <4>1. Len(overlay.rows) \in Nat /\ overlay.activeIndex \in -1 .. Len(overlay.rows) - 1
        BY <1>1, <1>3 DEF Listening
      <4>2. overlay.activeIndex + 1 \in 1 .. Len(overlay.rows)
        BY <2>1, <4>1
      <4> QED BY <1>3, <4>2
    <3> QED BY <1>1, <1>2, <3>1, <3>2, SelectInv DEF ContentIInv
  <2>2. CASE ~(overlay.activeIndex >= 0)
    <3>1. overlay' = Hide(overlay) /\ UNCHANGED <<fills, filled, dom>>
      BY <1>2, <1>4, <2>2 DEF SelectActive, SetOverlay
    <3> QED BY <1>1, <1>2, <3>1, HideSafe, FillsStay DEF ContentIInv
  <2> QED BY <2>1, <2>2
<1>5. CASE \E k \in DOMAIN overlay.rows : ClickRow(k)
  <2>1. PICK k \in DOMAIN overlay.rows : ClickRow(k)
    BY <1>5
  <2> DEFINE o == IF overlay.click # {} THEN Hide(overlay) ELSE overlay
  <2>2. o \in Overlays /\ Listening(o)
    BY <1>1, HideSafe DEF SafeOverlay
  <2>3. overlay.rows[k] \in Items /\ Select(overlay.rows[k], o, "none")
    BY <1>3, <2>1 DEF ClickRow
  <2> QED BY <1>1, <1>2, <2>2, <2>3, SelectInv DEF ContentIInv
<1>6. CASE \E item \in Items : AutofillLogin(item)
  BY <1>1, <1>2, <1>6, ExecuteInv DEF AutofillLogin, ContentIInv
<1> QED BY <1>4, <1>5, <1>6

(* So do the other events of the overlay.                                    *)
LEMMA OverlayInv ==
  ASSUME ContentIInv, HandleDocClick \/ Escape \/ HideOverlay
                      \/ (\E S \in SUBSET Items : ShowOverlay(S))
                      \/ AttachDocClick \/ (\E delta \in {-1, 1} : MoveHighlight(delta))
  PROVE  ContentIInv'
<1>1. overlay \in Overlays /\ Listening(overlay) /\ items \in Seq(Items) /\ FillsInv
  BY DEF ContentIInv, SafeOverlay
<1>2. FillsInv'
  BY <1>1, FillsStay
  DEF HandleDocClick, Escape, HideOverlay, ShowOverlay, AttachDocClick, MoveHighlight, Page
<1>3. CASE HandleDocClick \/ Escape \/ HideOverlay
  <2>1. overlay' = Hide(overlay) /\ items' = items
    BY <1>3 DEF HandleDocClick, Escape, HideOverlay, SetOverlay
  <2> QED BY <1>1, <1>2, <2>1, HideSafe DEF ContentIInv
<1>4. CASE \E S \in SUBSET Items : ShowOverlay(S)
  <2>1. PICK S \in SUBSET Items : ShowOverlay(S)
    BY <1>4
  <2>2. items' \in Seq(Items)
    <3>1. Cardinality(S) \in Nat
      BY ContentAssumption, FS_Subset, FS_CardinalityType DEF ContentAssumption
    <3>2. items' \in [1 .. Cardinality(S) -> S]
      BY <2>1 DEF ShowOverlay, SortByUrlMatch
    <3>3. items' \in [1 .. Cardinality(S) -> Items]
      BY <3>2
    <3> QED BY <3>1, <3>3
  <2>3. overlay' = overlay \/ overlay' = Show(overlay, items')
    BY <2>1 DEF ShowOverlay, SetOverlay
  <2> QED BY <1>1, <1>2, <2>2, <2>3, ShowSafe DEF ContentIInv, SafeOverlay
<1>5. CASE AttachDocClick
  <2>1. items' = items
    BY <1>5 DEF AttachDocClick
  <2> QED BY <1>1, <1>2, <1>5, <2>1, AttachSafe DEF ContentIInv, SafeOverlay
<1>6. CASE \E delta \in {-1, 1} : MoveHighlight(delta)
  <2>1. items' = items
    BY <1>6 DEF MoveHighlight
  <2> QED BY <1>1, <1>2, <1>6, <2>1, MoveSafe DEF ContentIInv, SafeOverlay
<1> QED BY <1>3, <1>4, <1>5, <1>6

(* So do the changes of the page and the observers.                          *)
LEMMA PageInv ==
  ASSUME ContentIInv, HandleFieldBlur \/ DomChange \/ Observed \/ DebounceElapses
                      \/ DebounceFires \/ UNCHANGED contentVars
  PROVE  ContentIInv'
<1>1. UNCHANGED <<overlay, items>>
  BY DEF HandleFieldBlur, DomChange, Observed, DebounceElapses, DebounceFires, contentVars
<1>2. DomChange \/ UNCHANGED <<fills, filled, dom>>
  BY DEF HandleFieldBlur, Observed, DebounceElapses, DebounceFires, contentVars, Page
<1>3. FillsInv'
  BY <1>2, DomChangeFills, FillsStay DEF ContentIInv
<1> QED BY <1>1, <1>3 DEF ContentIInv

(* Every step of the content script keeps the invariant.                     *)
LEMMA ContentStep == ContentIInv /\ [ContentNext]_contentVars => ContentIInv'
<1> SUFFICES ASSUME ContentIInv, [ContentNext]_contentVars PROVE ContentIInv'
  OBVIOUS
<1> QED BY FocusAndFillInv, RowsInv, OverlayInv, PageInv DEF ContentNext

(* The invariant holds of every behaviour of the content script.             *)
LEMMA ContentAlways == ContentSpec => []ContentIInv
  BY ContentInitInv, ContentStep, PTL DEF ContentSpec
-----------------------------------------------------------------------------
(* NoListenerLeft: ListenersFollowOverlay for any items and hosts and any    *)
(* order of shows, hides and timers (overlay.ts 105-281).                    *)
THEOREM NoListenerLeft == ContentSpec => []ListenersFollowOverlay
<1>1. ContentIInv => ListenersFollowOverlay
  BY DEF ContentIInv, SafeOverlay, Listening, ListenersFollowOverlay
<1> QED BY <1>1, ContentAlways, PTL

(* NeverHalfOfTwo: FilledTogether for any number of timers and changes of    *)
(* the page: no form keeps one item's name and another's password            *)
(* (autofill.ts 37-51).                                                      *)
THEOREM NeverHalfOfTwo == ContentSpec => []FilledTogether
<1>1. ContentIInv => FilledTogether
  BY DEF ContentIInv, FillsInv
<1> QED BY <1>1, ContentAlways, PTL
-----------------------------------------------------------------------------
(* What the page is, what was found in it and what was said of it.           *)
PageTypes ==
  /\ activeField \in Fields \cup {"none", "gone"}
  /\ dom \in Pages /\ detected \in Pages
  /\ notified \in Pages \cup {[generation |-> -1, form |-> FALSE]}
  /\ mutated \in BOOLEAN
  /\ debounce \in {"off", "running", "due"}

(* The page starts in its types.                                             *)
LEMMA PageTypesInit == ContentInit => PageTypes
<1> SUFFICES ASSUME ContentInit PROVE PageTypes
  OBVIOUS
<1>1. dom \in Pages
  <2>1. MaxChanges \in Nat
    BY ContentAssumption DEF ContentAssumption
  <2> QED BY <2>1 DEF ContentInit, Pages
<1> QED BY <1>1 DEF ContentInit, PageTypes

(* A field is focused by the user or by a fill; the overlay is seen.         *)
LEMMA FocusTypes ==
  ASSUME PageTypes, UNCHANGED Page, mutated' \in BOOLEAN,
         activeField' \in Fields \cup {"none", "gone"}
  PROVE  PageTypes'
BY DEF PageTypes, Page

(* A selection leaves the focus on a field, or on none.                      *)
LEMMA SelectFocus ==
  ASSUME NEW item, NEW o, NEW field \in Fields \cup {"none", "gone"},
         Select(item, o, field) \/ \E hiding \in BOOLEAN :
                                     ExecuteAutofillLogin(item, o, field, hiding)
  PROVE  mutated' \in BOOLEAN /\ activeField' \in Fields \cup {"none", "gone"}
<1>1. "username" \in Fields
  BY DEF Fields, Credentials
<1>2. ASSUME NEW hiding \in BOOLEAN, ExecuteAutofillLogin(item, o, field, hiding)
      PROVE  mutated' \in BOOLEAN /\ activeField' \in Fields \cup {"none", "gone"}
  BY <1>1, <1>2 DEF ExecuteAutofillLogin, StartFill, SetOverlay
<1>3. ASSUME Select(item, o, field)
      PROVE  mutated' \in BOOLEAN /\ activeField' \in Fields \cup {"none", "gone"}
  <2>1. CASE o.callback
    BY <1>2, <1>3, <2>1 DEF Select
  <2>2. CASE ~o.callback
    BY <1>3, <2>2 DEF Select, SetOverlay
  <2> QED BY <2>1, <2>2
<1> QED BY <1>2, <1>3

(* The events of the overlay and of the form keep the page as it is.         *)
LEMMA EventTypes ==
  ASSUME PageTypes,
         \/ \E field \in Fields : HandleFieldFocus(field)
         \/ HandleFieldBlur \/ FillPassword \/ AttachDocClick
         \/ \E delta \in {-1, 1} : MoveHighlight(delta)
         \/ HandleDocClick \/ Escape \/ HideOverlay
         \/ \E S \in SUBSET Items : ShowOverlay(S)
  PROVE  PageTypes'
<1>1. UNCHANGED Page
  BY DEF HandleFieldFocus, HandleFieldBlur, FillPassword, AttachDocClick, MoveHighlight,
         HandleDocClick, Escape, HideOverlay, ShowOverlay
<1>2. mutated' \in BOOLEAN
  BY DEF PageTypes, HandleFieldFocus, HandleFieldBlur, FillPassword, AttachDocClick,
         MoveHighlight, HandleDocClick, Escape, HideOverlay, ShowOverlay, SetOverlay
<1>3. activeField' \in Fields \cup {"none", "gone"}
  <2>1. activeField' = activeField \/ activeField' \in Fields \/ activeField' = "none"
                                   \/ activeField' = "password"
    BY DEF HandleFieldFocus, HandleFieldBlur, FillPassword, AttachDocClick, MoveHighlight,
           HandleDocClick, Escape, HideOverlay, ShowOverlay
  <2> QED BY <2>1 DEF PageTypes, Fields, Credentials
<1> QED BY <1>1, <1>2, <1>3, FocusTypes

(* A row or a message that fills keeps the types of the page.                *)
LEMMA FillTypes ==
  ASSUME PageTypes, SelectActive \/ (\E k \in DOMAIN overlay.rows : ClickRow(k))
                    \/ (\E item \in Items : AutofillLogin(item))
  PROVE  PageTypes'
<1>1. UNCHANGED Page
  BY DEF SelectActive, ClickRow, AutofillLogin
<1>2. activeField \in Fields \cup {"none", "gone"}
  BY DEF PageTypes
<1>3. mutated' \in BOOLEAN /\ activeField' \in Fields \cup {"none", "gone"}
  <2>1. CASE SelectActive
    <3>1. CASE overlay.activeIndex >= 0
      BY <1>2, <2>1, <3>1, SelectFocus DEF SelectActive
    <3>2. CASE ~(overlay.activeIndex >= 0)
      BY <1>2, <2>1, <3>2 DEF SelectActive, SetOverlay
    <3> QED BY <3>1, <3>2
  <2>2. CASE \E k \in DOMAIN overlay.rows : ClickRow(k)
    BY <2>2, SelectFocus DEF ClickRow
  <2>3. CASE \E item \in Items : AutofillLogin(item)
    BY <1>2, <2>3, SelectFocus DEF AutofillLogin
  <2> QED BY <2>1, <2>2, <2>3
<1> QED BY <1>1, <1>3, FocusTypes

(* The page's own steps and the observers'.                                  *)
LEMMA ObserverTypes ==
  ASSUME PageTypes, DomChange \/ Observed \/ DebounceElapses \/ DebounceFires
                    \/ UNCHANGED contentVars
  PROVE  PageTypes'
<1>1. CASE DomChange
  <2>1. dom.generation \in 0 .. MaxChanges /\ dom.generation < MaxChanges /\ MaxChanges \in Nat
    BY <1>1, ContentAssumption DEF PageTypes, Pages, DomChange, ContentAssumption
  <2>2. dom.generation + 1 \in 0 .. MaxChanges
    BY <2>1
  <2>3. dom' \in Pages
    BY <1>1, <2>2 DEF DomChange, Pages
  <2> QED BY <1>1, <2>3 DEF DomChange, PageTypes
<1>2. CASE Observed
  BY <1>2 DEF Observed, PageTypes
<1>3. CASE DebounceElapses
  BY <1>3 DEF DebounceElapses, PageTypes
<1>4. CASE DebounceFires
  BY <1>4 DEF DebounceFires, PageTypes
<1>5. CASE UNCHANGED contentVars
  BY <1>5 DEF contentVars, PageTypes
<1> QED BY <1>1, <1>2, <1>3, <1>4, <1>5

(* Every step of the content script keeps the types of the page.             *)
LEMMA PageTypesStep == PageTypes /\ [ContentNext]_contentVars => PageTypes'
<1> SUFFICES ASSUME PageTypes, [ContentNext]_contentVars PROVE PageTypes'
  OBVIOUS
<1> QED BY EventTypes, FillTypes, ObserverTypes DEF ContentNext

(* A timer is of no generation the page has not reached.                     *)
LEMMA ContentTyped == ContentIInv /\ PageTypes => ContentTypeOK
<1> SUFFICES ASSUME ContentIInv, PageTypes PROVE ContentTypeOK
  OBVIOUS
<1> DEFINE Timers == [item : Items, generation : 0 .. MaxChanges]
<1>1. fills \in Seq(Timers)
  <2>1. fills \in Seq(Fills) /\ Len(fills) \in Nat /\ DOMAIN fills = 1 .. Len(fills)
    BY DEF ContentIInv, FillsInv
  <2>2. dom.generation \in 0 .. MaxChanges /\ MaxChanges \in Nat
    BY ContentAssumption DEF PageTypes, Pages, ContentAssumption
  <2>3. ASSUME NEW k \in 1 .. Len(fills) PROVE fills[k] \in Timers
    <3>1. fills[k] \in Fills /\ fills[k].generation <= dom.generation
      BY <2>1 DEF ContentIInv, FillsInv
    <3>2. fills[k].generation \in 0 .. MaxChanges /\ fills[k].item \in Items
      BY <2>2, <3>1 DEF Fills
    <3>3. fills[k] = [item |-> fills[k].item, generation |-> fills[k].generation]
      BY <3>1 DEF Fills
    <3> QED BY <3>2, <3>3
  <2> HIDE DEF Timers
  <2>4. PICK n \in Nat : n = Len(fills)
    BY <2>1
  <2>5. fills \in [1 .. n -> Timers]
    BY <2>1, <2>3, <2>4, LenProperties
  <2> QED BY <2>4, <2>5, SeqDef
<1>2. SafeOverlay(overlay) /\ items \in Seq(Items) /\ filled \in [Credentials -> Items \cup {NoItem}]
  BY DEF ContentIInv, FillsInv
<1> QED BY <1>1, <1>2 DEF ContentTypeOK, SafeOverlay, Listening, PageTypes

(* ContentTypes: the content script keeps to its types for any items, hosts  *)
(* and changes of the page, and the highlighted row is one of the overlay's, *)
(* of which there are never too many (overlay.ts 105-281).                   *)
THEOREM ContentTypes == ContentSpec => []ContentTypeOK
<1>1. ContentSpec => []PageTypes
  BY PageTypesInit, PageTypesStep, PTL DEF ContentSpec
<1> QED BY <1>1, ContentTyped, ContentAlways, PTL

-----------------------------------------------------------------------------
(* Popup.                                                                    *)
(* The list is reached only with a connection.                               *)
ListIsConnected ==
  currentView = "connected" => currentState.connectionState = "connected"

PopupIInv ==
  PopupTypeOK /\ OneInterval /\ DetailIsLive /\ RowsFollowVault /\ ListIsConnected

-----------------------------------------------------------------------------
(* The bounds of the popup are natural numbers.                              *)
LEMMA PopupBounds == MaxInbox \in Nat /\ MaxRequests \in Nat
BY PopupAssumption DEF PopupAssumption

(* What stands for no item or for the generator is no item of a vault.       *)
LEMMA NamesAreNoItems ==
  /\ Otp \subseteq VaultItems
  /\ NoItemYet \notin VaultItems /\ Generator \notin VaultItems
BY PopupAssumption DEF PopupAssumption, NoItemYet, Generator

(* What the handlers need of the types.                                      *)
LEMMA TypesSay ==
  ASSUME PopupTypeOK
  PROVE  /\ requests \in Nat /\ requests <= MaxRequests
         /\ rows \subseteq VaultItems /\ activeTab \in Tabs
         /\ currentState \in States /\ worker \in States /\ inbox \in Seq(States)
BY PopupBounds DEF PopupTypeOK

(* An interval that starts replaces the one there is, under a handle of its  *)
(* own.                                                                      *)
LEMMA OneRecord ==
  ASSUME NEW handle \in 1 .. 9, NEW what \in Otp \cup {Generator}
  PROVE  LET only == {[handle |-> handle, of |-> what]} IN
         /\ only \subseteq [handle : Nat \ {0}, of : Otp \cup {Generator}]
         /\ \A i \in only : i.handle = handle /\ i.of = what
         /\ \E i \in only : i.of = what
OBVIOUS

(* An interval that starts is the only one, and its handle is kept.          *)
LEMMA StartIntervalAlone ==
  ASSUME OneInterval, NEW what \in Otp \cup {Generator}, StartInterval(what)
  PROVE  /\ OneInterval' /\ otpInterval' \in Nat
         /\ intervals' \subseteq [handle : Nat \ {0}, of : Otp \cup {Generator}]
         /\ \A i \in intervals' : i.of = what
         /\ \E i \in intervals' : i.of = what
<1> DEFINE handle == CHOOSE n \in 1 .. 9 : \A i \in intervals : i.handle # n
<1>1. \E n \in 1 .. 9 : \A i \in intervals : i.handle # n
  <2>1. CASE otpInterval = 1
    BY <2>1, 2 \in 1 .. 9 DEF OneInterval
  <2>2. CASE otpInterval # 1
    BY <2>2, 1 \in 1 .. 9 DEF OneInterval
  <2> QED BY <2>1, <2>2
<1>2. handle \in 1 .. 9
  BY <1>1
<1>3. otpInterval' = handle
      /\ intervals' = {i \in intervals : i.handle # otpInterval} \cup {[handle |-> handle, of |-> what]}
  BY DEF StartInterval
<1>4. {i \in intervals : i.handle # otpInterval} = {}
  BY DEF OneInterval
<1>5. otpInterval' = handle /\ intervals' = {[handle |-> handle, of |-> what]}
  BY <1>3, <1>4
<1> HIDE DEF handle
<1>6. OneInterval'
  BY <1>2, <1>5, OneRecord DEF OneInterval
<1> QED BY <1>2, <1>5, <1>6, OneRecord

(* While one interval runs at most, and under the handle, clearing it ends   *)
(* all.                                                                      *)
LEMMA ClearIntervalAll ==
  ASSUME OneInterval, ClearInterval
  PROVE  otpInterval' = 0 /\ intervals' = {}
BY DEF OneInterval, ClearInterval

(* A state has a connection and items of the vault.                          *)
LEMMA StatesHave ==
  ASSUME NEW s \in States
  PROVE  s.connectionState \in ConnectionState /\ s.vaultItems \subseteq VaultItems
BY DEF States

(* A state has a view, and it is the list exactly when it is connected.      *)
LEMMA ViewsOf ==
  ASSUME NEW s \in States
  PROVE  /\ ViewOf(s) \in Views /\ ViewOf(s) # "detail"
         /\ ViewOf(s) = "connected" <=> s.connectionState = "connected"
BY StatesHave DEF ViewOf, Views, ConnectionState

(* The list shows items of the vault it filters.                             *)
LEMMA FilteredIsOfVault ==
  ASSUME NEW vault \in SUBSET VaultItems, NEW tab
  PROVE  Filtered(vault, tab) \in SUBSET VaultItems
BY DEF Filtered
-----------------------------------------------------------------------------
(* The popup starts with nothing on the screen and no interval.              *)
LEMMA PopupInitInv == PopupInit => PopupIInv
<1> SUFFICES ASSUME PopupInit PROVE PopupIInv
  OBVIOUS
<1>1. currentState \in States
  BY DEF PopupInit, States, ConnectionState
<1>2. inbox \in Seq(States)
  <2>1. worker \in States /\ inbox = <<worker>>
    BY DEF PopupInit
  <2> QED BY <2>1
<1>3. requests \in 0 .. MaxRequests
  BY PopupBounds DEF PopupInit
<1>4. PopupTypeOK
  BY <1>1, <1>2, <1>3 DEF PopupInit, PopupTypeOK, Views, Tabs
<1>5. OneInterval /\ DetailIsLive /\ RowsFollowVault /\ ListIsConnected
  BY DEF PopupInit, OneInterval, DetailIsLive, RowsFollowVault, ListIsConnected
<1> QED BY <1>4, <1>5 DEF PopupIInv

(* A state arrives: whatever was shown, one of the three views of a state is *)
(* now, and the timer is left alone.                                         *)
LEMMA ReceiveStateInv == ASSUME PopupIInv, ReceiveState PROVE PopupIInv'
<1> DEFINE s == Head(inbox)
<1>1. s \in States /\ Tail(inbox) \in Seq(States)
  <2>1. inbox \in Seq(States) /\ inbox # <<>>
    BY TypesSay DEF PopupIInv, ReceiveState
  <2> QED BY <2>1
<1>2. /\ currentState' = s /\ currentView' = ViewOf(s) /\ inbox' = Tail(inbox)
      /\ UNCHANGED <<worker, activeTab, selectedItem, otpInterval, intervals>>
  BY DEF ReceiveState, RenderState, Timer
<1>3. IF s.connectionState = "connected" /\ s.vaultItems # {}
      THEN rows' = Filtered(s.vaultItems, activeTab) ELSE rows' = rows
  BY DEF ReceiveState, RenderState
<1>4. requests' \in 0 .. MaxRequests
  <2>1. requests \in Nat /\ requests < MaxRequests
    BY TypesSay DEF PopupIInv, ReceiveState
  <2>2. requests' = requests \/ requests' = requests + 1
    BY <2>1 DEF ReceiveState, RenderState
  <2> QED BY <2>1, <2>2, PopupBounds
<1>5. rows' \in SUBSET VaultItems
  BY <1>1, <1>3, StatesHave, FilteredIsOfVault, TypesSay DEF PopupIInv
<1>6. PopupTypeOK'
  BY <1>1, <1>2, <1>4, <1>5, ViewsOf DEF PopupIInv, PopupTypeOK
<1>7. OneInterval' /\ DetailIsLive'
  BY <1>1, <1>2, ViewsOf DEF PopupIInv, OneInterval, DetailIsLive
<1>8. RowsFollowVault' /\ ListIsConnected'
  BY <1>1, <1>2, <1>3, ViewsOf DEF RowsFollowVault, ListIsConnected
<1> QED BY <1>6, <1>7, <1>8 DEF PopupIInv

(* The worker: nothing of the page changes.                                  *)
LEMMA WorkerInv == ASSUME PopupIInv, WorkerMoves \/ AnswerVault PROVE PopupIInv'
<1>1. UNCHANGED <<currentState, currentView, activeTab, rows, selectedItem,
                  otpInterval, intervals>>
  BY DEF WorkerMoves, AnswerVault, Timer
<1>2. worker' \in States /\ inbox' \in Seq(States)
  <2>1. (\E s \in States : SetState(s)) \/ UNCHANGED <<worker, inbox>>
    <3>1. ASSUME NEW vault \in SUBSET VaultItems
          PROVE  [worker EXCEPT !.vaultItems = vault] \in States
      <4>1. worker \in States
        BY TypesSay DEF PopupIInv
      <4> QED BY <4>1 DEF States
    <3>2. CASE WorkerMoves
      BY <3>2 DEF WorkerMoves
    <3>3. CASE AnswerVault
      BY <3>1, <3>3 DEF AnswerVault
    <3> QED BY <3>2, <3>3
  <2>2. worker \in States /\ inbox \in Seq(States)
    BY TypesSay DEF PopupIInv
  <2> QED BY <2>1, <2>2 DEF SetState
<1>3. requests' \in 0 .. MaxRequests
  <2>1. requests \in Nat /\ requests <= MaxRequests
    BY TypesSay DEF PopupIInv
  <2>2. requests' = requests \/ (requests > 0 /\ requests' = requests - 1)
    BY DEF WorkerMoves, AnswerVault
  <2> QED BY <2>1, <2>2, PopupBounds
<1> QED BY <1>1, <1>2, <1>3
    DEF PopupIInv, PopupTypeOK, OneInterval, DetailIsLive, RowsFollowVault, ListIsConnected

(* An item is opened: its countdown replaces any other, and an item without  *)
(* a secret leaves the one there is.                                         *)
LEMMA ClickItemInv ==
  ASSUME PopupIInv, NEW item \in VaultItems, ClickItem(item)
  PROVE  PopupIInv'
<1>1. /\ currentView = "connected" /\ selectedItem' = item /\ currentView' = "detail"
      /\ UNCHANGED <<worker, inbox, requests, currentState, activeTab, rows>>
  BY DEF ClickItem, Messages
<1>2. item # NoItemYet
  BY NamesAreNoItems
<1>3. currentState.connectionState = "connected"
  BY <1>1 DEF PopupIInv, ListIsConnected
<1>4. CASE item \in Otp
  <2>1. /\ OneInterval' /\ otpInterval' \in Nat
        /\ intervals' \subseteq [handle : Nat \ {0}, of : Otp \cup {Generator}]
        /\ \E i \in intervals' : i.of = item
    BY <1>4, StartIntervalAlone DEF ClickItem, PopupIInv
  <2>2. PopupTypeOK'
    BY <1>1, <2>1 DEF PopupIInv, PopupTypeOK, Views
  <2>3. DetailIsLive'
    BY <1>1, <1>2, <1>3, <2>1 DEF DetailIsLive
  <2> QED BY <1>1, <2>1, <2>2, <2>3 DEF PopupIInv, RowsFollowVault, ListIsConnected
<1>5. CASE item \notin Otp
  <2>1. UNCHANGED <<otpInterval, intervals>>
    BY <1>5 DEF ClickItem, Timer
  <2>2. PopupTypeOK'
    BY <1>1, <2>1 DEF PopupIInv, PopupTypeOK, Views
  <2>3. OneInterval' /\ DetailIsLive'
    BY <1>1, <1>2, <1>3, <1>5, <2>1 DEF PopupIInv, OneInterval, DetailIsLive
  <2> QED BY <1>1, <2>2, <2>3 DEF PopupIInv, RowsFollowVault, ListIsConnected
<1> QED BY <1>4, <1>5

(* The button back: an item was selected and the page is connected, so the   *)
(* list is drawn again.                                                      *)
LEMMA BackInv == ASSUME PopupIInv, Back PROVE PopupIInv'
<1>1. /\ selectedItem # NoItemYet /\ currentState.connectionState = "connected"
  BY DEF Back, PopupIInv, DetailIsLive
<1>2. /\ currentView' = "connected" /\ selectedItem' = NoItemYet
      /\ rows' = Filtered(currentState.vaultItems, activeTab)
      /\ UNCHANGED <<worker, inbox, requests, currentState, activeTab>>
  BY <1>1 DEF Back, Messages
<1>3. otpInterval' = 0 /\ intervals' = {}
  BY ClearIntervalAll DEF Back, PopupIInv
<1>4. rows' \in SUBSET VaultItems
  BY <1>2, StatesHave, FilteredIsOfVault, TypesSay DEF PopupIInv
<1>5. PopupTypeOK'
  BY <1>2, <1>3, <1>4 DEF PopupIInv, PopupTypeOK, Views
<1> QED BY <1>1, <1>2, <1>3, <1>5
    DEF PopupIInv, OneInterval, DetailIsLive, RowsFollowVault, ListIsConnected

(* A tab is chosen: the list is drawn again, of the same vault.              *)
LEMMA SetFilterInv ==
  ASSUME PopupIInv, NEW tab \in Tabs, SetFilter(tab)
  PROVE  PopupIInv'
<1>1. /\ currentView = "connected" /\ activeTab' = tab
      /\ rows' = Filtered(currentState.vaultItems, tab)
      /\ UNCHANGED <<worker, inbox, requests, currentState, currentView, selectedItem,
                     otpInterval, intervals>>
  BY DEF SetFilter, Messages, Timer
<1>2. rows' \in SUBSET VaultItems
  BY <1>1, StatesHave, FilteredIsOfVault, TypesSay DEF PopupIInv
<1>3. PopupTypeOK'
  BY <1>1, <1>2 DEF PopupIInv, PopupTypeOK
<1> QED BY <1>1, <1>3
    DEF PopupIInv, OneInterval, DetailIsLive, RowsFollowVault, ListIsConnected

(* The generator: its countdown takes the item's place, and choosing a tab   *)
(* ends either; the item is not on the screen.                               *)
LEMMA GeneratorInv ==
  ASSUME PopupIInv, OpenGenerator \/ GenerateOtp \/ ChooseGenTab
  PROVE  PopupIInv'
<1>1. /\ currentView' = "generator"
      /\ UNCHANGED <<worker, inbox, requests, currentState, activeTab, rows, selectedItem>>
  BY DEF OpenGenerator, GenerateOtp, ChooseGenTab, Messages
<1>2. OneInterval' /\ otpInterval' \in Nat
      /\ intervals' \subseteq [handle : Nat \ {0}, of : Otp \cup {Generator}]
      /\ \A i \in intervals' : i \in intervals \/ i.of = Generator
  <2>1. CASE OpenGenerator
    BY <2>1 DEF OpenGenerator, Timer, PopupIInv, PopupTypeOK, OneInterval
  <2>2. CASE GenerateOtp
    BY <2>2, StartIntervalAlone DEF GenerateOtp, PopupIInv
  <2>3. CASE ChooseGenTab
    BY <2>3, ClearIntervalAll DEF ChooseGenTab, PopupIInv, OneInterval
  <2> QED BY <2>1, <2>2, <2>3
<1>3. PopupTypeOK'
  BY <1>1, <1>2 DEF PopupIInv, PopupTypeOK, Views
<1>4. DetailIsLive'
  BY <1>1, <1>2, NamesAreNoItems DEF PopupIInv, DetailIsLive
<1> QED BY <1>1, <1>2, <1>3, <1>4 DEF PopupIInv, RowsFollowVault, ListIsConnected

(* Every step of the popup keeps the invariant.                              *)
LEMMA PopupNextInv == PopupIInv /\ [PopupNext]_popupVars => PopupIInv'
<1> SUFFICES ASSUME PopupIInv, [PopupNext]_popupVars PROVE PopupIInv'
  OBVIOUS
<1>1. CASE ReceiveState
  BY <1>1, ReceiveStateInv
<1>2. CASE WorkerMoves \/ AnswerVault
  BY <1>2, WorkerInv
<1>3. CASE \E item \in VaultItems : ClickItem(item)
  BY <1>3, ClickItemInv
<1>4. CASE Back
  BY <1>4, BackInv
<1>5. CASE \E tab \in Tabs : SetFilter(tab)
  BY <1>5, SetFilterInv
<1>6. CASE OpenGenerator \/ GenerateOtp \/ ChooseGenTab
  BY <1>6, GeneratorInv
<1>7. CASE UNCHANGED popupVars
  BY <1>7 DEF popupVars, Messages, Timer, PopupIInv, PopupTypeOK, OneInterval,
              DetailIsLive, RowsFollowVault, ListIsConnected
<1> QED BY <1>1, <1>2, <1>3, <1>4, <1>5, <1>6, <1>7 DEF PopupNext

(* The invariant holds of every behaviour of the popup.                      *)
LEMMA PopupAlways == PopupSpec => []PopupIInv
BY PopupInitInv, PopupNextInv, PTL DEF PopupSpec
-----------------------------------------------------------------------------
(* PopupTypes: the popup keeps to its types: what it shows are items of the *)
(* vault, and its view is one of those index.html has.                       *)
THEOREM PopupTypes == PopupSpec => []PopupTypeOK
<1>1. PopupIInv => PopupTypeOK
  BY DEF PopupIInv
<1> QED BY <1>1, PopupAlways, PTL

(* NeverTwoIntervals: OneInterval for any vault and any sequence of states:  *)
(* no countdown runs whose handle the page has lost (index.ts 330-353).      *)
THEOREM NeverTwoIntervals == PopupSpec => []OneInterval
<1>1. PopupIInv => OneInterval
  BY DEF PopupIInv
<1> QED BY <1>1, PopupAlways, PTL

(* DetailStaysLive: DetailIsLive for any vault and any sequence of states:   *)
(* no interval reads an item that is not there (index.ts 330-353, 665-676).  *)
THEOREM DetailStaysLive == PopupSpec => []DetailIsLive
<1>1. PopupIInv => DetailIsLive
  BY DEF PopupIInv
<1> QED BY <1>1, PopupAlways, PTL

(* ListFollowsVault: RowsFollowVault for any vault and any sequence of       *)
(* states, tabs and views (index.ts 148-212, 463-499).                       *)
THEOREM ListFollowsVault == PopupSpec => []RowsFollowVault
<1>1. PopupIInv => RowsFollowVault
  BY DEF PopupIInv
<1> QED BY <1>1, PopupAlways, PTL
-----------------------------------------------------------------------------
(* Onboarding.                                                               *)
LEMMA OnboardingInitTypes == OnboardingInit => OnboardingTypeOK
<1> SUFFICES ASSUME OnboardingInit PROVE OnboardingTypeOK
  OBVIOUS
<1>1. states \in Seq(WorkerStates) /\ ext \in WorkerStates
  BY DEF OnboardingInit
<1>2. connects \in 0 .. MaxPolls
  BY OnboardingAssumption DEF OnboardingInit, OnboardingAssumption
<1>3. startDisabled \in BOOLEAN /\ polling \in BOOLEAN /\ pairActions \in BOOLEAN /\ open \in BOOLEAN
  BY Zenon DEF OnboardingInit
<1>4. currentStep \in 1 .. 4
  BY DEF OnboardingInit
<1> QED BY <1>1, <1>2, <1>3, <1>4 DEF OnboardingTypeOK

(* Every step of the onboarding keeps its types.                             *)
LEMMA OnboardingStepTypes ==
  OnboardingTypeOK /\ [OnboardingNext]_onboardingVars => OnboardingTypeOK'
<1> SUFFICES ASSUME OnboardingTypeOK, [OnboardingNext]_onboardingVars PROVE OnboardingTypeOK'
  OBVIOUS
<1>0. MaxPolls \in Nat
  BY OnboardingAssumption DEF OnboardingAssumption
<1>1. CASE ReceiveUpdate
  <2>1. states' \in Seq(WorkerStates) /\ Head(states) \in WorkerStates
    BY <1>1 DEF ReceiveUpdate, OnboardingTypeOK
  <2>2. /\ currentStep' \in 1 .. 4 /\ startDisabled' \in BOOLEAN
        /\ polling' \in BOOLEAN /\ pairActions' \in BOOLEAN
    BY <1>1 DEF ReceiveUpdate, HandleState, OnboardingTypeOK
  <2> QED BY <1>1, <2>1, <2>2 DEF ReceiveUpdate, OnboardingTypeOK
<1>2. CASE WorkerSteps
  <2>1. PICK s \in WorkerStates : ext' = s /\ states' = Append(states, s)
    BY <1>2 DEF WorkerSteps
  <2>2. states' \in Seq(WorkerStates) /\ ext' \in WorkerStates
    BY <2>1 DEF OnboardingTypeOK
  <2> QED BY <1>2, <2>2 DEF WorkerSteps, OnboardingTypeOK
<1>3. CASE Poll
  <2>1. states' \in Seq(WorkerStates)
    BY <1>3 DEF Poll, OnboardingTypeOK
  <2> QED BY <1>3, <2>1 DEF Poll, OnboardingTypeOK
<1>4. CASE StartPair
  <2>1. connects' \in 0 .. MaxPolls /\ currentStep' \in 1 .. 4
    BY <1>0, <1>4 DEF StartPair, OnboardingTypeOK
  <2> QED BY <1>4, <2>1 DEF StartPair, OnboardingTypeOK
<1>5. CASE ConnectAnswered
  <2>1. connects' \in 0 .. MaxPolls
    BY <1>0, <1>5 DEF ConnectAnswered, OnboardingTypeOK
  <2> QED BY <1>5, <2>1 DEF ConnectAnswered, OnboardingTypeOK
<1>6. CASE RejectPair
  <2>1. startDisabled' \in BOOLEAN /\ polling' \in BOOLEAN /\ pairActions' \in BOOLEAN
    BY <1>6, Zenon DEF RejectPair
  <2>2. currentStep' \in 1 .. 4
    BY <1>6 DEF RejectPair
  <2> QED BY <1>6, <2>1, <2>2 DEF RejectPair, OnboardingTypeOK
<1>7. CASE Finish
  BY <1>7 DEF Finish, OnboardingTypeOK
<1>8. CASE UNCHANGED onboardingVars
  BY <1>8 DEF onboardingVars, OnboardingTypeOK
<1> QED BY <1>1, <1>2, <1>3, <1>4, <1>5, <1>6, <1>7, <1>8 DEF OnboardingNext

(* OnboardingTypes: the page stays at one of its four steps, and waits for   *)
(* no more answers than it asked for (onboarding.ts 29-130).                 *)
THEOREM OnboardingTypes == OnboardingSpec => []OnboardingTypeOK
  BY OnboardingInitTypes, OnboardingStepTypes, PTL DEF OnboardingSpec
=============================================================================
