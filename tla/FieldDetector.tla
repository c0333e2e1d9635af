---------------------------- MODULE FieldDetector ----------------------------
(***************************************************************************)
(* extension/src/content/field-detector.ts: which inputs of a page are the   *)
(* fields of a login form.                                                   *)
(*                                                                           *)
(* An input is what the detector asks of it: its type, for each of the five  *)
(* lists of patterns the attributes that match, whether it matches           *)
(* PASSWORD_INPUT_SELECTOR, and the elements around it, the nearest first,   *)
(* up to the body. Inputs are in document order.                             *)
(***************************************************************************)
EXTENDS Integers, Sequences, FiniteSets

CONSTANTS
  InputPages,  \* the pages: sequences of inputs
  Forms,       \* the forms of a page, in document order
  RoleForms    \* the other elements with role="form"; other elements have none

Attributes == {"autocomplete", "name", "id", "placeholder", "ariaLabel"}
Patterns == {"current", "confirm", "password", "email", "username"}

ASSUME DetectorAssumption ==
  /\ \A page \in InputPages :
       /\ page \in Seq([type : STRING, hits : [Patterns -> SUBSET Attributes],
                        around : Seq(STRING), asPassword : BOOLEAN])
       /\ \A k \in DOMAIN page : page[k].type = "password" => page[k].asPassword
  /\ Forms \in Seq(STRING \ {"body"}) /\ RoleForms \subseteq STRING \ {"body"}

VARIABLE inputs   \* the inputs of the page

PasswordCategories == {"password", "current_password", "new_password", "confirm_password"}
OldPasswordCategories == {"password", "current_password"}
UserCategories == {"username", "email"}
-----------------------------------------------------------------------------
(* computeConfidence                                                         *)
Confidence(input, patterns) ==
  LET Score(attr, weight) == IF attr \in input.hits[patterns] THEN weight ELSE 0
      sum == Score("autocomplete", 40) + Score("name", 30) + Score("id", 20)
               + Score("placeholder", 10) + Score("ariaLabel", 10)
  IN IF sum < 100 THEN sum ELSE 100

Detected(category, confidence) == [category |-> category, confidence |-> confidence]

ClassifyField(k) ==
  LET input == inputs[k]
      current == Confidence(input, "current")
      confirm == Confidence(input, "confirm")
      base == Confidence(input, "password")
      email == Confidence(input, "email")
      username == Confidence(input, "username")
  IN IF input.type = "email" THEN Detected("email", 80)
     ELSE IF input.type # "password"
     THEN IF email > 30 THEN Detected("email", email)
          ELSE Detected("username", IF username > 30 THEN username ELSE 0)
     ELSE IF current > confirm /\ current > base
     THEN Detected("current_password", current)
     ELSE IF confirm > base THEN Detected("new_password", confirm)
     ELSE Detected("password", base)

Of(fields, categories) == {k \in fields : ClassifyField(k).category \in categories}
Has(fields, categories) == Of(fields, categories) # {}

CountPasswords(fields) == Cardinality(Of(fields, PasswordCategories))

ChangesPassword(fields) ==
  \/ CountPasswords(fields) >= 3
  \/ Has(fields, {"current_password"}) /\ Has(fields, {"new_password"})

LogsIn(fields) == Has(fields, OldPasswordCategories) \/ CountPasswords(fields) = 1

(* Not in the code: a login is looked for first.                             *)
MutResolveCategory(fields) ==
  IF Has(fields, UserCategories) /\ LogsIn(fields) THEN "login"
  ELSE IF ChangesPassword(fields) THEN "password_change"
  ELSE IF Has(fields, UserCategories) /\ Has(fields, {"new_password", "confirm_password"})
  THEN "registration" ELSE "unknown"

(* The rules are tried in this order; the last three need a user field.      *)
ResolveCategory(fields) ==
  IF ChangesPassword(fields) THEN "password_change"
  ELSE IF ~Has(fields, UserCategories) THEN "unknown"
  ELSE IF Has(fields, {"new_password", "confirm_password"}) THEN "registration"
  ELSE IF LogsIn(fields) THEN "login" ELSE "unknown"

FormElements == {Forms[n] : n \in DOMAIN Forms}
NotListed == {"hidden", "submit", "button", "reset", "image"}

(* The inputs INPUT_SELECTOR finds in a container: the body holds them all.  *)
InputsIn(container) ==
  {k \in DOMAIN inputs :
     /\ inputs[k].type \notin NotListed
     /\ container = "body" \/ \E d \in DOMAIN inputs[k].around : inputs[k].around[d] = container}

FieldsIn(container) ==
  {k \in InputsIn(container) : \/ ClassifyField(k).confidence > 0
                              \/ inputs[k].type \in {"email", "password"}}

First(S) == {k \in S : \A j \in S : k <= j}

(* The nearest of five elements that is a form or has its role; else the     *)
(* nearest form however far out; else the body.                              *)
FindContainer(k) ==
  LET around == inputs[k].around
      near == {d \in DOMAIN around : d <= 5 /\ around[d] \in FormElements \cup RoleForms}
      closest == {d \in DOMAIN around : around[d] \in FormElements}
  IN IF near # {} THEN around[CHOOSE d \in First(near) : TRUE]
     ELSE IF closest # {} THEN around[CHOOSE d \in First(closest) : TRUE] ELSE "body"

(* The containers in the order in which they are looked at: the forms, then  *)
(* that of each password input. One that comes again is passed over, or      *)
(* fails again: the first of two equal ones is what counts.                  *)
Containers ==
  [n \in DOMAIN Forms \cup {Len(Forms) + k : k \in {j \in DOMAIN inputs : inputs[j].asPassword}} |->
     IF n \in DOMAIN Forms THEN Forms[n] ELSE FindContainer(n - Len(Forms))]

(* detectForms: a container becomes a form when two of its inputs are fields.*)
Detects(container, category) ==
  /\ Cardinality(FieldsIn(container)) >= 2
  /\ ResolveCategory(FieldsIn(container)) = category

(* The first login with a field of both kinds, and its first fields.         *)
FindBestLoginForm ==
  LET IsLogin(n) == /\ Detects(Containers[n], "login")
                    /\ Has(FieldsIn(Containers[n]), UserCategories)
                    /\ Has(FieldsIn(Containers[n]), OldPasswordCategories)
      best == First({n \in DOMAIN Containers : IsLogin(n)})
  IN UNION {[container : {Containers[n]},
             username : First(Of(FieldsIn(Containers[n]), UserCategories)),
             password : First(Of(FieldsIn(Containers[n]), OldPasswordCategories))] : n \in best}

DetectorInit == inputs \in InputPages

(* A page that is only looked at.                                            *)
DetectorSpec == DetectorInit /\ [][FALSE]_inputs
-----------------------------------------------------------------------------
IsPassword(k) == inputs[k].type = "password"

(* What the attributes of a password input speak for: more for a new         *)
(* password than for a password, and not more for the current one. A tie is  *)
(* not new: autocomplete="new-password" alone matches both lists and counts  *)
(* 40 for each.                                                              *)
SpeaksForNew(k) ==
  LET weight(patterns) == Confidence(inputs[k], patterns)
  IN /\ IsPassword(k)
     /\ weight("confirm") > weight("password")
     /\ weight("confirm") >= weight("current")

(* A container with a recognised user field, and with one password input,    *)
(* which does not speak for a new password.                                  *)
PlainLogin(container) ==
  \E u, p \in InputsIn(container) :
    /\ ClassifyField(u).category \in UserCategories /\ ClassifyField(u).confidence > 0
    /\ {k \in InputsIn(container) : IsPassword(k)} = {p} /\ ~SpeaksForNew(p)

(* LoginIsLogin: what is filled is a login: two inputs of one container that *)
(* holds at most two passwords, none of them one whose attributes speak for  *)
(* a new password. A plain login is never missed, whatever else the page     *)
(* holds, be it in a form, or in what findContainer gives for its password;  *)
(* and when a form is a plain login nothing outside of the forms is filled.  *)
(* (The tie is part of it: a user field beside an input with nothing but     *)
(* autocomplete="new-password" is a plain login, and filled.)                *)
(* (field-detector.ts 58-122, 138-229, 244-256)                              *)
LoginIsLogin ==
  /\ \A login \in FindBestLoginForm :
       LET there == InputsIn(login.container) IN
       /\ login.username \in there /\ ~IsPassword(login.username)
       /\ login.password \in there /\ IsPassword(login.password)
       /\ Cardinality({k \in there : IsPassword(k)}) <= 2
       /\ \A k \in there : ~SpeaksForNew(k)
       /\ (\E form \in FormElements : PlainLogin(form)) => login.container \in FormElements
  /\ (\E form \in FormElements : PlainLogin(form)) => FindBestLoginForm # {}
  /\ \A k \in DOMAIN inputs :
       IsPassword(k) /\ PlainLogin(FindContainer(k)) => FindBestLoginForm # {}
=============================================================================
