------------------------------- MODULE MCParts -------------------------------
(* The parts that do not share state, checked side by side: a behaviour is   *)
(* one of a single part, and the others stay as they were.                   *)
EXTENDS ContentScript, Popup, Onboarding, CsvFormat, KdbxReader, VaultKeys,
        FieldDetector, Totp, WindowsLock

CONSTANTS Scopes, i1, i2   \* the parts that are checked; two items of a page

VARIABLE scope

detectorVars == inputs
csvVars == exported

vars == <<scope, contentVars, popupVars, onboardingVars, csvVars, kdbxVars, keysVars,
          detectorVars, totpVars, lockVars>>
-----------------------------------------------------------------------------
(* The page's host ends in that of one item, and shares its domain with the  *)
(* other's: the scores scoreUrlMatch gives.                                  *)
MCScore == [item \in Items |-> IF item = i1 THEN 80 ELSE 60]

(* Nothing, a word, a comma inside, quotes inside and alone, blanks around,  *)
(* a line break.                                                             *)
MCTexts == {<<>>, <<"p">>, <<"p", ",", "q">>, <<"\"">>, <<"\"", ",", "\"">>,
            <<" ", "p", " ">>, <<"p", "\n", "q">>}
(* The first item varies; a second one follows, so that a field that leaks   *)
(* into the next line is seen. And a vault with nothing in it.               *)
MCItems == [title : MCTexts, username : MCTexts, password : MCTexts, url : {<<"p">>, <<>>},
            content : {<<>>}, notes : MCTexts, otpSecret : {<<>>}]
MCLastItem == [f \in ItemFields |-> IF f = "content" THEN <<>> ELSE <<"p">>]
MCExports == {<<>>} \cup {<<item, MCLastItem>> : item \in MCItems}

(* Every length up to five bytes, which fill eight characters, and the twenty *)
(* bytes of a secret the program makes itself.                               *)
MCSecrets == UNION {[1 .. n -> {1, 128, 255}] : n \in 0 .. 3}
               \cup UNION {[1 .. n -> {1, 255}] : n \in 4 .. 5}
               \cup {[k \in 1 .. 20 |-> (37 * k) % 256]}
-----------------------------------------------------------------------------
(* Header fields that are missing, come twice, or come out of order, in      *)
(* files with and without start bytes and blocks, compressed or not.         *)
Field(type, data) == [type |-> type, data |-> data]

Header(compression, start) ==
  <<Field("cipherId", "AES-256"), Field("compression", compression),
    Field("masterSeed", "m"), Field("transformSeed", "t"),
    Field("transformRounds", "r"), Field("encryptionIv", "i"),
    Field("protectedStreamKey", "k")>>
  \o (IF start = Missing THEN <<>> ELSE <<Field("streamStartBytes", start)>>)
  \o <<Field("innerStreamId", "salsa20"), Field("end", "")>>

Headers(compression, start) ==
  LET h == Header(compression, start) IN
  {h} \cup {RemoveAt(h, k) : k \in DOMAIN h}
      \cup {InsertAt(h, k, Field(type, "other")) :
              k \in DOMAIN h,
              type \in {"cipherId", "masterSeed", "streamStartBytes", "encryptionIv"}}
      \cup {InsertAt(h, Len(h), Field("innerStreamId", "arcfour"))}

Bytes == [plain |-> 0, entity |-> 0, base64 |-> 12, ivPrefixed |-> 12, protected |-> 9]
Value(text, form) == [text |-> text, form |-> form, bytes |-> Bytes[form]]

String(key, text, form, lines) == [key |-> key, value |-> Value(text, form), lines |-> lines]
StringOf(key, value) == [key |-> key, value |-> value, lines |-> FALSE]
Entry(strings) == [strings |-> strings, history |-> <<>>]

(* Three entries, one with nothing but an address; plain ones, with a text   *)
(* that looks like base64 of many bytes, of eight or of a few; one with a    *)
(* value of several lines; and one with two older versions.                  *)
EntryLists == {
  <<Entry(<<String("Notes", "n", "plain", FALSE), String("Password", "p", "protected", FALSE),
            String("Title", "t", "plain", FALSE)>>),
    Entry(<<String("URL", "u", "plain", FALSE)>>),
    Entry(<<String("Password", "q", "ivPrefixed", FALSE), String("URL", "u", "plain", FALSE)>>),
    Entry(<<StringOf("Password", [Value("z", "protected") EXCEPT !.bytes = 4]),
            String("Title", "s", "ivPrefixed", FALSE)>>)>>,
  <<Entry(<<String("Title", "t", "plain", FALSE), String("UserName", "long", "base64", FALSE)>>),
    Entry(<<StringOf("UserName", [Value("few", "base64") EXCEPT !.bytes = 3])>>),
    Entry(<<StringOf("UserName", [Value("eight", "base64") EXCEPT !.bytes = 8])>>)>>,
  <<Entry(<<String("Notes", "n", "plain", TRUE), String("Password", "p", "ivPrefixed", FALSE),
            String("UserName", "b", "plain", FALSE)>>)>>,
  <<[strings |-> <<String("Password", "new", "protected", FALSE),
                   String("Title", "a&b", "entity", FALSE)>>,
     history |-> <<<<String("Password", "old", "protected", FALSE)>>,
                   <<String("Password", "mid", "protected", FALSE)>>>>]>>}

File(h, body) ==
  [signature |-> TRUE, cut |-> FALSE, header |-> h,
   key |-> <<"right", "t", "r", "m">>, iv |-> "i", streamKey |-> "k", body |-> body]
Body(compression, start, framed, entries) ==
  [start |-> start, framed |-> framed, compression |-> compression, entries |-> entries]
EmptyFile == File(Header("none", "s"), Body("none", "s", FALSE, <<>>))

MCFiles ==
  UNION {{File(h, Body(compression, layout[1], layout[2], entries)) :
            h \in Headers(compression, layout[1]), entries \in EntryLists} :
           compression \in {"none", "gzip"},
           layout \in {<<Missing, FALSE>>, <<"s", FALSE>>, <<"s", TRUE>>}}
  \cup {[EmptyFile EXCEPT !.signature = FALSE], [EmptyFile EXCEPT !.cut = TRUE]}
-----------------------------------------------------------------------------
(* Inputs that are recognised well, badly or not at all, of each type.       *)
NoHits == [patterns \in {"current", "confirm", "password", "email", "username"} |-> {}]
Input(type, hits, around) ==
  [type |-> type, hits |-> hits, around |-> around,
   asPassword |-> type = "password" \/ hits.password # {}]

Inputs(around) ==
  {Input("text", NoHits, around), Input("email", NoHits, around),
   Input("password", NoHits, around),
   Input("text", [NoHits EXCEPT !.username = {"autocomplete", "name"}], around),
   Input("text", [NoHits EXCEPT !.email = {"name"}, !.username = {"placeholder"}], around),
   Input("hidden", [NoHits EXCEPT !.password = {"autocomplete"}], around),
   Input("password", [NoHits EXCEPT !.current = {"autocomplete", "name"},
                                    !.password = {"autocomplete"}], around),
   Input("password", [NoHits EXCEPT !.confirm = {"autocomplete"},
                                    !.password = {"autocomplete"}], around),
   Input("password", [NoHits EXCEPT !.confirm = {"autocomplete", "name"},
                                    !.password = {"autocomplete"}], around)}

(* A page has two forms, an element "r1" with role="form" in the body and    *)
(* one, "r2", in the second form, near an input and too far out to be seen.  *)
(* Up to two inputs are anywhere, or three in one or two places.             *)
MCForms == <<"f1", "f2">>
MCRoleForms == {"r1", "r2"}
Far == <<"div", "div", "div", "div", "div">>
Places == {<<>>, <<"f1">>, <<"div", "f2">>, <<"r2", "f2">>, Far \o <<"r2", "f2">>,
           <<"r1">>, Far \o <<"r1">>}
InputsAt(places) == UNION {Inputs(around) : around \in places}
MCPages ==
  UNION {[1 .. n -> InputsAt(Places)] : n \in 0 .. 2}
    \cup [1 .. 3 -> Inputs(<<"f1">>)] \cup [1 .. 3 -> Inputs(<<>>)]
    \cup {<<a, b, c>> : a \in Inputs(<<"f1">>), b \in Inputs(<<"r1">>), c \in InputsAt({<<>>, <<"r1">>})}
-----------------------------------------------------------------------------
(* A part that is not checked stands still, in a state it may begin in or    *)
(* that asks nothing of it.                                                  *)
CsvStill == exported = <<[MCLastItem EXCEPT !.notes = <<"\n">>]>>

KdbxStill ==
  /\ file = EmptyFile /\ typed = "right" /\ pos = 0
  /\ header = <<>> /\ decrypted = Nothing /\ imported = <<>>
  /\ reading = "header"

TotpStill ==
  /\ secret = <<>> /\ clock = 0 /\ generating = "idle"
  /\ counter = 0 /\ totpCode = <<>> /\ remaining = 0 /\ nextCodeAt = 0

Init ==
  /\ scope \in Scopes
  /\ ContentInit /\ (scope # "content" => dom.form)
  /\ PopupInit /\ (scope # "popup" => worker = currentState)
  /\ OnboardingInit /\ (scope # "onboarding" => ext = "disconnected")
  /\ KeysInit
  /\ LockInit
  /\ IF scope = "csv" THEN CsvInit ELSE CsvStill
  /\ IF scope = "detector" THEN DetectorInit ELSE inputs = <<>>
  /\ IF scope = "kdbx" THEN KdbxInit ELSE KdbxStill
  /\ IF scope = "totp" THEN TotpInit ELSE TotpStill

(* Texts and pages are only looked at.                                       *)
Still == UNCHANGED <<scope, csvVars, detectorVars>>

Next ==
  \/ /\ scope = "content" /\ ContentNext /\ Still
     /\ UNCHANGED <<popupVars, onboardingVars, kdbxVars, keysVars, totpVars, lockVars>>
  \/ /\ scope = "popup" /\ PopupNext /\ Still
     /\ UNCHANGED <<contentVars, onboardingVars, kdbxVars, keysVars, totpVars, lockVars>>
  \/ /\ scope = "onboarding" /\ OnboardingNext /\ Still
     /\ UNCHANGED <<contentVars, popupVars, kdbxVars, keysVars, totpVars, lockVars>>
  \/ /\ scope = "kdbx" /\ KdbxNext /\ Still
     /\ UNCHANGED <<contentVars, popupVars, onboardingVars, keysVars, totpVars, lockVars>>
  \/ /\ scope = "keys" /\ KeysNext /\ Still
     /\ UNCHANGED <<contentVars, popupVars, onboardingVars, kdbxVars, totpVars, lockVars>>
  \/ /\ scope = "totp" /\ TotpNext /\ Still
     /\ UNCHANGED <<contentVars, popupVars, onboardingVars, kdbxVars, keysVars, lockVars>>
  \/ /\ scope = "lock" /\ LockNext /\ Still
     /\ UNCHANGED <<contentVars, popupVars, onboardingVars, kdbxVars, keysVars, totpVars>>

(* The fairness of each part, in the behaviours that are its own.            *)
PartsFairness ==
  /\ WF_contentVars(scope = "content" /\ Observed)
  /\ WF_contentVars(scope = "content" /\ DebounceElapses)
  /\ WF_contentVars(scope = "content" /\ DebounceFires)
  /\ WF_onboardingVars(scope = "onboarding" /\ ReceiveUpdate)
  /\ WF_onboardingVars(scope = "onboarding" /\ ConnectAnswered)
  /\ SF_onboardingVars(scope = "onboarding" /\ Poll)

Spec == Init /\ [][Next]_vars /\ PartsFairness

(* TypeOK: the types of the parts that keep a state (the globals and fields  *)
(* of content/index.ts, overlay.ts, popup/index.ts, onboarding.ts and        *)
(* App.xaml.cs); the highlighted row is always one of the overlay's.         *)
TypeOK == ContentTypeOK /\ PopupTypeOK /\ OnboardingTypeOK /\ LockTypeOK
=============================================================================
