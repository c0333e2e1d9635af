---------------------------- MODULE AlgorithmProofs ----------------------------
(***************************************************************************)
(* What the algorithms of CsvFormat, FieldDetector, KdbxReader and Totp      *)
(* compute, for every input. They are recursive functions and choices of     *)
(* first and last positions, so each argument by induction is one by the     *)
(* least number: a set of natural numbers that is not empty has a smallest   *)
(* element.                                                                  *)
(***************************************************************************)
EXTENDS CsvFormat, FieldDetector, KdbxReader, Totp, FiniteSetTheorems, SequenceTheorems,
        WellFoundedInduction, TLAPS

(* The least-number principle, as a fact about sets.                         *)
LEMMA LeastNumber ==
  ASSUME NEW T \in SUBSET Nat, T # {}
  PROVE  \E x \in T : \A y \in T : x <= y
<1> DEFINE Less == OpToRel(<, Nat)
<1>1. IsWellFoundedOn(Less, Nat)
  BY NatLessThanWellFounded
<1>2. \A x, y \in Nat : y < x => <<y, x>> \in Less
  BY DEF OpToRel
<1> HIDE DEF Less
<1>3. PICK x \in T : \A y \in T : <<y, x>> \notin Less
  BY <1>1, WFMin
<1>4. \A y \in T : ~(y < x)
  BY <1>2, <1>3
<1>5. \A y \in T : x <= y
  BY <1>4
<1> QED BY <1>5

(* A set of positions that is not empty has a last one.                      *)
LEMMA LastPosition ==
  ASSUME NEW n \in Nat, NEW S \in SUBSET (1 .. n), S # {}
  PROVE  \E k \in S : \A j \in S : j <= k
<1> DEFINE T == {n - k : k \in S}
<1>1. T \in SUBSET Nat /\ T # {}
  <2>1. \A k \in S : n - k \in Nat
    OBVIOUS
  <2>2. \E k \in S : n - k \in T
    OBVIOUS
  <2> QED BY <2>1, <2>2
<1>2. PICK x \in T : \A y \in T : x <= y
  <2> HIDE DEF T
  <2> QED BY <1>1, LeastNumber
<1>3. PICK k \in S : x = n - k
  OBVIOUS
<1>4. \A j \in S : j <= k
  <2> SUFFICES ASSUME NEW j \in S PROVE j <= k
    OBVIOUS
  <2>1. n - j \in T
    OBVIOUS
  <2>2. n - k <= n - j
    BY <1>2, <1>3, <2>1
  <2> QED BY <2>2
<1> QED BY <1>4
-----------------------------------------------------------------------------
(* FieldDetector                                                             *)
PageInput == [type : STRING, hits : [Patterns -> SUBSET Attributes],
              around : Seq(STRING), asPassword : BOOLEAN]

(* A page is a sequence of inputs; a password is one by its type.            *)
LEMMA PageType ==
  ASSUME inputs \in InputPages
  PROVE  /\ inputs \in Seq(PageInput) /\ DOMAIN inputs = 1 .. Len(inputs) /\ Len(inputs) \in Nat
         /\ \A k \in DOMAIN inputs : IsPassword(k) => inputs[k].asPassword
  BY DetectorAssumption, LenProperties DEF PageInput, IsPassword

(* A confidence lies between 0 and 100.                                      *)
LEMMA ConfidenceIsInt ==
  ASSUME NEW input, NEW patterns
  PROVE  Confidence(input, patterns) \in 0 .. 100
  BY DEF Confidence

(* A password input is in a password category, and no other input is.        *)
LEMMA PasswordIsField ==
  ASSUME NEW k
  PROVE  /\ ClassifyField(k).category \in PasswordCategories <=> IsPassword(k)
         /\ ClassifyField(k).category \in UserCategories <=> ~IsPassword(k)
<1> DEFINE c == ClassifyField(k).category
<1>1. ~IsPassword(k) => c \in {"email", "username"}
  BY DEF ClassifyField, Detected, IsPassword
<1>2. IsPassword(k) => c \in {"current_password", "new_password", "password"}
  BY DEF ClassifyField, Detected, IsPassword
<1> HIDE DEF c
<1>3. c \in PasswordCategories <=> IsPassword(k)
  BY <1>1, <1>2 DEF PasswordCategories
<1>4. c \in UserCategories <=> ~IsPassword(k)
  BY <1>1, <1>2 DEF UserCategories
<1> QED BY <1>3, <1>4 DEF c

(* A field is one for a new password just when its attributes say so.        *)
LEMMA NewSpeaksForNew ==
  ASSUME NEW k
  PROVE  ClassifyField(k).category = "new_password" <=> SpeaksForNew(k)
<1> DEFINE current == Confidence(inputs[k], "current")
           confirm == Confidence(inputs[k], "confirm")
           base == Confidence(inputs[k], "password")
<1>1. current \in Int /\ confirm \in Int /\ base \in Int
  BY ConfidenceIsInt
<1>2. ClassifyField(k).category = "new_password"
        <=> IsPassword(k) /\ ~(current > confirm /\ current > base) /\ confirm > base
  BY DEF ClassifyField, Detected, IsPassword
<1>3. SpeaksForNew(k) <=> IsPassword(k) /\ confirm > base /\ confirm >= current
  BY DEF SpeaksForNew
<1> HIDE DEF current, confirm, base
<1>4. ~(current > confirm /\ current > base) /\ confirm > base
        <=> confirm > base /\ confirm >= current
  BY <1>1
<1> QED BY <1>2, <1>3, <1>4

(* What is found in a container is a finite set of inputs.                   *)
LEMMA FieldsFinite ==
  ASSUME inputs \in InputPages, NEW container
  PROVE  /\ IsFiniteSet(InputsIn(container)) /\ IsFiniteSet(FieldsIn(container))
         /\ FieldsIn(container) \subseteq InputsIn(container)
         /\ InputsIn(container) \subseteq Nat
<1>1. InputsIn(container) \subseteq 1 .. Len(inputs) /\ Len(inputs) \in Nat
  BY PageType DEF InputsIn
<1>2. IsFiniteSet(1 .. Len(inputs))
  BY <1>1, FS_Interval
<1>3. FieldsIn(container) \subseteq InputsIn(container)
  BY DEF FieldsIn
<1> QED BY <1>1, <1>2, <1>3, FS_Subset

(* The fields that count as passwords are the password inputs.               *)
LEMMA Passwords ==
  ASSUME NEW container
  PROVE  Of(FieldsIn(container), PasswordCategories)
           = {k \in InputsIn(container) : IsPassword(k)}
<1>1. \A k \in InputsIn(container) : IsPassword(k) => k \in FieldsIn(container)
  BY DEF FieldsIn, IsPassword
<1>2. \A k \in FieldsIn(container) : k \in InputsIn(container)
  BY DEF FieldsIn
<1> QED BY <1>1, <1>2, PasswordIsField DEF Of

(* The containers are looked at in an order of numbers: each form at its      *)
(* place, and what findContainer gives for a password after them.            *)
LEMMA ContainerOrder ==
  ASSUME inputs \in InputPages
  PROVE  /\ DOMAIN Containers \subseteq Nat
         /\ \A n \in DOMAIN Forms : n \in DOMAIN Containers /\ Containers[n] = Forms[n]
         /\ \A n \in DOMAIN Containers : \A m \in DOMAIN Forms : n <= m => n \in DOMAIN Forms
         /\ \A k \in DOMAIN inputs : IsPassword(k) =>
              \E n \in DOMAIN Containers : Containers[n] = FindContainer(k)
<1> DEFINE after == {Len(Forms) + k : k \in {j \in DOMAIN inputs : inputs[j].asPassword}}
<1>1. Len(Forms) \in Nat /\ DOMAIN Forms = 1 .. Len(Forms)
  BY DetectorAssumption, LenProperties
<1>2. DOMAIN Containers = DOMAIN Forms \cup after
  BY DEF Containers
<1>3. \A n \in after : n \in Nat /\ n > Len(Forms)
  BY <1>1, PageType
<1>4. ASSUME NEW k \in DOMAIN inputs, IsPassword(k)
      PROVE  \E n \in DOMAIN Containers : Containers[n] = FindContainer(k)
  <2>1. k \in Nat /\ k > 0
    BY PageType
  <2>2. Len(Forms) + k \in after
    BY <1>4, PageType
  <2>3. Len(Forms) + k \notin DOMAIN Forms /\ (Len(Forms) + k) - Len(Forms) = k
    <3> DEFINE length == Len(Forms)
    <3>1. length \in Nat /\ DOMAIN Forms = 1 .. length
      BY <1>1
    <3> HIDE DEF length
    <3>2. length + k > length /\ (length + k) - length = k
      BY <2>1, <3>1
    <3>3. length + k \notin DOMAIN Forms
      BY <2>1, <3>1, <3>2
    <3> QED BY <3>2, <3>3 DEF length
  <2>4. Containers[Len(Forms) + k] = FindContainer((Len(Forms) + k) - Len(Forms))
    BY <1>2, <2>2, <2>3 DEF Containers
  <2> QED BY <1>2, <2>2, <2>3, <2>4
<1>5. \A n \in DOMAIN Forms : Containers[n] = Forms[n]
  BY <1>2 DEF Containers
<1> HIDE DEF after
<1>6. DOMAIN Containers \subseteq Nat
  BY <1>1, <1>2, <1>3
<1>7. \A n \in DOMAIN Containers : \A m \in DOMAIN Forms : n <= m => n \in DOMAIN Forms
  BY <1>1, <1>2, <1>3
<1> QED BY <1>2, <1>4, <1>5, <1>6, <1>7

(* A plain login is a container that logs in.                                *)
LEMMA PlainIsDetected ==
  ASSUME inputs \in InputPages, NEW container, PlainLogin(container)
  PROVE  /\ Detects(container, "login")
         /\ Has(FieldsIn(container), UserCategories)
         /\ Has(FieldsIn(container), OldPasswordCategories)
<1> DEFINE fields == FieldsIn(container)
<1>1. PICK u \in InputsIn(container), p \in InputsIn(container) :
        /\ ClassifyField(u).category \in UserCategories /\ ClassifyField(u).confidence > 0
        /\ {k \in InputsIn(container) : IsPassword(k)} = {p} /\ ~SpeaksForNew(p)
  BY DEF PlainLogin
<1>3. ~IsPassword(u) /\ IsPassword(p) /\ u # p
  BY <1>1, PasswordIsField
<1>4. u \in fields /\ p \in fields
  BY <1>1, <1>3 DEF FieldsIn, IsPassword
<1>5. Of(fields, PasswordCategories) = {p}
  BY <1>1, Passwords
<1>6. ClassifyField(p).category \in {"password", "current_password"}
  <2>1. ClassifyField(p).category \in {"password", "current_password", "new_password"}
    BY <1>3 DEF ClassifyField, Detected, IsPassword
  <2> QED BY <2>1, <1>1, NewSpeaksForNew
<1>7. CountPasswords(fields) = 1
  BY <1>5, FS_Singleton DEF CountPasswords
<1>8. Has(fields, UserCategories) /\ Has(fields, OldPasswordCategories)
  BY <1>1, <1>4, <1>6 DEF Has, Of, OldPasswordCategories
<1>9. \A k \in fields : ClassifyField(k).category \in {"new_password", "confirm_password"} =>
                          k = p
  BY <1>5 DEF Of, PasswordCategories
<1>10. ~Has(fields, {"new_password", "confirm_password"}) /\ ~Has(fields, {"new_password"})
  BY <1>6, <1>9 DEF Has, Of
<1>11. ResolveCategory(fields) = "login"
  BY <1>7, <1>8, <1>10 DEF ResolveCategory, ChangesPassword, LogsIn
<1>12. Cardinality(fields) >= 2
  <2>1. Cardinality({u, p}) = 2
    <3>1. IsFiniteSet({u}) /\ Cardinality({u}) = 1 /\ {u, p} = {u} \cup {p} /\ p \notin {u}
      BY <1>3, FS_Singleton
    <3> QED BY <3>1, FS_AddElement
  <2>2. IsFiniteSet(fields)
    BY FieldsFinite
  <2>3. {u, p} \subseteq fields
    BY <1>4
  <2> HIDE DEF fields
  <2> QED BY <2>1, <2>2, <2>3, FS_Subset, FS_CardinalityType
<1> QED BY <1>8, <1>11, <1>12 DEF Detects

(* When a form is a plain login, what comes before it in the order is a form. *)
LEMMA FormComesFirst ==
  ASSUME inputs \in InputPages, NEW login \in FindBestLoginForm,
         NEW form \in FormElements, PlainLogin(form)
  PROVE  login.container \in FormElements
<1> DEFINE IsLogin(m) == /\ Detects(Containers[m], "login")
                         /\ Has(FieldsIn(Containers[m]), UserCategories)
                         /\ Has(FieldsIn(Containers[m]), OldPasswordCategories)
<1>1. PICK n \in DOMAIN Forms : form = Forms[n]
  BY DEF FormElements
<1>2. n \in DOMAIN Containers /\ Containers[n] = form
  BY <1>1, ContainerOrder
<1>3. IsLogin(n)
  BY <1>2, PlainIsDetected
<1>4. PICK best \in DOMAIN Containers :
        /\ \A m \in DOMAIN Containers : IsLogin(m) => best <= m
        /\ login.container = Containers[best]
  BY DEF FindBestLoginForm, First
<1> HIDE DEF IsLogin
<1>5. best <= n
  BY <1>2, <1>3, <1>4
<1>6. best \in DOMAIN Forms /\ Containers[best] = Forms[best]
  BY <1>5, ContainerOrder
<1> QED BY <1>4, <1>6 DEF FormElements

(* What is filled is a login.                                                *)
LEMMA FoundIsLogin ==
  ASSUME inputs \in InputPages, NEW login \in FindBestLoginForm
  PROVE  LET there == InputsIn(login.container) IN
         /\ login.username \in there /\ ~IsPassword(login.username)
         /\ login.password \in there /\ IsPassword(login.password)
         /\ Cardinality({k \in there : IsPassword(k)}) <= 2
         /\ \A k \in there : ~SpeaksForNew(k)
         /\ (\E form \in FormElements : PlainLogin(form)) => login.container \in FormElements
<1> DEFINE c == login.container
           fields == FieldsIn(c)
<1>1. /\ Detects(c, "login")
      /\ login.username \in Of(fields, UserCategories)
      /\ login.password \in Of(fields, OldPasswordCategories)
  BY DEF FindBestLoginForm, First
<1>2. fields \subseteq InputsIn(c)
  BY FieldsFinite
<1>3. /\ ~ChangesPassword(fields) /\ Has(fields, UserCategories)
      /\ ~Has(fields, {"new_password", "confirm_password"})
  BY <1>1 DEF Detects, ResolveCategory
<1>4. login.username \in fields /\ ~IsPassword(login.username)
  BY <1>1, PasswordIsField DEF Of
<1>5. login.password \in fields /\ IsPassword(login.password)
  BY <1>1, PasswordIsField DEF Of, OldPasswordCategories, PasswordCategories
<1>6. Cardinality({k \in InputsIn(c) : IsPassword(k)}) <= 2
  <2>1. IsFiniteSet({k \in InputsIn(c) : IsPassword(k)})
    BY FieldsFinite, FS_Subset
  <2>2. ~(Cardinality({k \in InputsIn(c) : IsPassword(k)}) >= 3)
    BY <1>3, Passwords DEF ChangesPassword, CountPasswords
  <2> QED BY <2>1, <2>2, FS_CardinalityType
<1>7. ASSUME NEW k \in InputsIn(c), SpeaksForNew(k)
      PROVE  FALSE
  <2>1. ClassifyField(k).category = "new_password"
    BY <1>7, NewSpeaksForNew
  <2>2. k \in fields
    BY <2>1, PasswordIsField, Passwords DEF PasswordCategories, Of
  <2> QED BY <1>3, <2>1, <2>2 DEF Has, Of
<1>8. (\E form \in FormElements : PlainLogin(form)) => c \in FormElements
  BY FormComesFirst
<1> QED BY <1>2, <1>4, <1>5, <1>6, <1>7, <1>8

(* A plain login among what is looked at makes some login best.              *)
LEMMA PlainIsFound ==
  ASSUME inputs \in InputPages, NEW n \in DOMAIN Containers, PlainLogin(Containers[n])
  PROVE  FindBestLoginForm # {}
<1> DEFINE IsLogin(m) == /\ Detects(Containers[m], "login")
                         /\ Has(FieldsIn(Containers[m]), UserCategories)
                         /\ Has(FieldsIn(Containers[m]), OldPasswordCategories)
           Logins == {m \in DOMAIN Containers : IsLogin(m)}
<1>3. n \in Logins /\ Logins \subseteq Nat
  BY ContainerOrder, PlainIsDetected
<1>4. PICK best \in Logins : \A m \in Logins : best <= m
  BY <1>3, LeastNumber
<1> DEFINE fields == FieldsIn(Containers[best])
<1>5. PICK u \in Of(fields, UserCategories) : \A k \in Of(fields, UserCategories) : u <= k
  <2>1. Of(fields, UserCategories) # {} /\ Of(fields, UserCategories) \subseteq Nat
    BY <1>4, FieldsFinite DEF Has, Of
  <2> QED BY <2>1, LeastNumber
<1>6. PICK p \in Of(fields, OldPasswordCategories) :
        \A k \in Of(fields, OldPasswordCategories) : p <= k
  <2>1. Of(fields, OldPasswordCategories) # {} /\ Of(fields, OldPasswordCategories) \subseteq Nat
    BY <1>4, FieldsFinite DEF Has, Of
  <2> QED BY <2>1, LeastNumber
<1>7. [container |-> Containers[best], username |-> u, password |-> p] \in FindBestLoginForm
  BY <1>4, <1>5, <1>6 DEF FindBestLoginForm, First
<1> QED BY <1>7

(* The two places in which a plain login is never missed.                    *)
LEMMA PlainIsLookedAt ==
  ASSUME inputs \in InputPages
  PROVE  /\ \A form \in FormElements : PlainLogin(form) => FindBestLoginForm # {}
         /\ \A k \in DOMAIN inputs :
              IsPassword(k) /\ PlainLogin(FindContainer(k)) => FindBestLoginForm # {}
<1>1. ASSUME NEW form \in FormElements, PlainLogin(form)
      PROVE  FindBestLoginForm # {}
  BY <1>1, ContainerOrder, PlainIsFound DEF FormElements
<1>2. ASSUME NEW k \in DOMAIN inputs, IsPassword(k), PlainLogin(FindContainer(k))
      PROVE  FindBestLoginForm # {}
  <2>1. PICK n \in DOMAIN Containers : Containers[n] = FindContainer(k)
    BY <1>2, ContainerOrder
  <2> QED BY <1>2, <2>1, PlainIsFound
<1> QED BY <1>1, <1>2

(* LoginIsLogin: of every page, with any number of forms and inputs.         *)
THEOREM LoginsAreFound == DetectorSpec => []LoginIsLogin
<1>1. inputs \in InputPages => LoginIsLogin
  BY FoundIsLogin, PlainIsLookedAt DEF LoginIsLogin
<1>2. DetectorInit => LoginIsLogin
  BY <1>1 DEF DetectorInit
<1>3. DetectorInit /\ [FALSE]_inputs => DetectorInit'
  BY DEF DetectorInit
<1> QED BY <1>2, <1>3, PTL DEF DetectorSpec
-----------------------------------------------------------------------------
(* KdbxReader                                                                *)
(* The fields of a type among the first p, and what the header holds of them: *)
(* the value of the last one, or what it began with.                         *)
FieldsAt(p, f) == {k \in 1 .. p : file.header[k].type = f}

HeaderOf(p) ==
  /\ DOMAIN header = HeaderFields
  /\ \A f \in HeaderFields :
       /\ FieldsAt(p, f) = {} => header[f] = Default(f)
       /\ \A k \in FieldsAt(p, f) :
            (\A j \in FieldsAt(p, f) : j <= k) => header[f] = file.header[k].data

HeaderRead == HeaderOf(pos)

(* Where the header ends.                                                    *)
Ended(p) ==
  /\ p \in DOMAIN file.header
  /\ file.header[p].type = "end"
  /\ \A k \in 1 .. p - 1 : file.header[k].type # "end"

KdbxInv ==
  /\ file \in Files
  /\ pos \in 0 .. Len(file.header)
  /\ HeaderRead
  /\ reading = "header" => \A k \in 1 .. pos : file.header[k].type # "end"
  /\ reading \in {"body", "contents"} => Ended(pos)
  /\ reading = "contents" /\ WellWritten => decrypted = file.body
  /\ KdbxReadsTrue
  /\ reading \in {"header", "body", "contents", "failed", "done"}

(* What the constants say of a value.                                        *)
TrueValue(value) ==
  /\ value.bytes \in Nat
  /\ value.form = "ivPrefixed" => value.bytes > 8
  /\ value.form \in {"ivPrefixed", "protected"} => value.text # ""

(* What the files are, field by field.                                       *)
LEMMA FileType ==
  ASSUME file \in Files
  PROVE  /\ Len(file.header) \in Nat /\ DOMAIN file.header = 1 .. Len(file.header)
         /\ \A k \in DOMAIN file.header : file.header[k].data # Missing
         /\ file.key = <<file.key[1], file.key[2], file.key[3], file.key[4]>>
         /\ file.body.start # "nothing" /\ file.body.compression \in {"none", "gzip"}
         /\ file.body.framed \in BOOLEAN
         /\ \A n \in DOMAIN file.body.entries :
              /\ Len(file.body.entries[n].strings) \in Nat
              /\ DOMAIN file.body.entries[n].strings = 1 .. Len(file.body.entries[n].strings)
              /\ \A k \in DOMAIN file.body.entries[n].strings :
                   TrueValue(file.body.entries[n].strings[k].value)
BY KdbxAssumption DEF Missing, TrueValue

(* What a well written file says before its header ends.                     *)
Upto == {k \in DOMAIN file.header : \A j \in 1 .. k : file.header[j].type # "end"}

(* The fields that a well written file gives with the value that was meant.  *)
LEMMA WellWrittenHeader ==
  ASSUME file \in Files, WellWritten, NEW p \in Nat, HeaderOf(p), Ended(p)
  PROVE  /\ header.transformSeed = file.key[2] /\ header.transformRounds = file.key[3]
         /\ header.masterSeed = file.key[4] /\ header.encryptionIv = file.iv
         /\ header.protectedStreamKey = file.streamKey
         /\ header.compression = file.body.compression
         /\ file.body.start # Missing => header.streamStartBytes = file.body.start
         /\ file.body.start = Missing => header.streamStartBytes = Missing
         /\ file.streamKey # Missing
         /\ file.key[2] # Missing /\ file.key[4] # Missing /\ file.iv # Missing
<1> DEFINE At(f) == {k \in Upto : file.header[k].type = f}
           Given(f, value) ==
             At(f) # {} /\ file.header[CHOOSE k \in At(f) : \A j \in At(f) : j <= k].data = value
<1>1. /\ Len(file.header) \in Nat /\ DOMAIN file.header = 1 .. Len(file.header)
      /\ \A k \in DOMAIN file.header : file.header[k].data # Missing
  BY FileType
<1>2. Upto = 1 .. p - 1
  BY <1>1 DEF Upto, Ended
<1>3. \A f \in HeaderFields : At(f) = FieldsAt(p, f)
  <2>1. ASSUME NEW f \in HeaderFields PROVE f # "end"
    BY DEF HeaderFields
  <2>2. file.header[p].type = "end" /\ p \in 1 .. Len(file.header)
    BY <1>1 DEF Ended
  <2> QED BY <1>2, <2>1, <2>2 DEF FieldsAt
<1>4. ASSUME NEW f \in HeaderFields, NEW value, Given(f, value)
      PROVE  header[f] = value /\ value # Missing
  <2> DEFINE S == FieldsAt(p, f)
  <2>1. S # {} /\ S \in SUBSET (1 .. p) /\ S \subseteq DOMAIN file.header
    <3>1. S # {}
      BY <1>3, <1>4
    <3>2. S \in SUBSET (1 .. p)
      BY DEF FieldsAt
    <3>3. p \in 1 .. Len(file.header)
      BY <1>1 DEF Ended
    <3> QED BY <1>1, <3>1, <3>2, <3>3
  <2>2. file.header[CHOOSE k \in S : \A j \in S : j <= k].data = value
    BY <1>3, <1>4
  <2> HIDE DEF S
  <2>3. \E k \in S : \A j \in S : j <= k
    BY <2>1, LastPosition
  <2> DEFINE k == CHOOSE k \in S : \A j \in S : j <= k
  <2>4. k \in S /\ \A j \in S : j <= k
    BY <2>3
  <2> HIDE DEF k
  <2>5. header[f] = file.header[k].data
    BY <2>4 DEF HeaderOf, S
  <2> QED BY <1>1, <2>1, <2>2, <2>4, <2>5 DEF k
<1>5. /\ Given("transformSeed", file.key[2]) /\ Given("transformRounds", file.key[3])
      /\ Given("masterSeed", file.key[4]) /\ Given("encryptionIv", file.iv)
      /\ Given("protectedStreamKey", file.streamKey)
      /\ Given("compression", file.body.compression)
      /\ file.body.start # Missing => Given("streamStartBytes", file.body.start)
      /\ file.body.start = Missing => At("streamStartBytes") = {}
  BY DEF WellWritten, Upto
<1> HIDE DEF Given
<1>6. {"transformSeed", "transformRounds", "masterSeed", "encryptionIv", "protectedStreamKey",
       "compression", "streamStartBytes"} \subseteq HeaderFields
  BY DEF HeaderFields
<1>7. header.transformSeed = file.key[2] /\ file.key[2] # Missing /\ header.transformRounds = file.key[3]
  BY <1>4, <1>5, <1>6
<1>8. header.masterSeed = file.key[4] /\ file.key[4] # Missing /\ file.iv # Missing /\ header.encryptionIv = file.iv
  BY <1>4, <1>5, <1>6
<1>9. header.protectedStreamKey = file.streamKey /\ file.streamKey # Missing
  BY <1>4, <1>5, <1>6
<1>10. header.compression = file.body.compression
  BY <1>4, <1>5, <1>6
<1>11. file.body.start # Missing => header.streamStartBytes = file.body.start
  BY <1>4, <1>5, <1>6
<1>12. file.body.start = Missing => header.streamStartBytes = Missing
  BY <1>3, <1>5, <1>6 DEF HeaderOf, Default
<1> QED BY <1>7, <1>8, <1>9, <1>10, <1>11, <1>12

(* Whether a file is well written depends on the file and the key alone.     *)
LEMMA SameFile ==
  ASSUME UNCHANGED <<file, typed>>
  PROVE  WellWritten' <=> WellWritten
BY DEF WellWritten

(* A well written header is never refused.                                   *)
LEMMA NeverRefused ==
  ASSUME file \in Files, pos \in 0 .. Len(file.header),
         \A k \in 1 .. pos : file.header[k].type # "end", Refused
  PROVE  ~WellWritten
<1>1. Len(file.header) \in Nat /\ DOMAIN file.header = 1 .. Len(file.header)
  BY FileType
<1>2. CASE ~file.signature \/ file.cut
  BY <1>2 DEF WellWritten
<1>3. CASE pos = Len(file.header)
  <2>1. Upto = DOMAIN file.header
    BY <1>1, <1>3 DEF Upto
  <2> QED BY <2>1 DEF WellWritten, Upto
<1>4. CASE pos + 1 \in DOMAIN file.header /\ file.header[pos + 1].type = "cipherId"
             /\ file.header[pos + 1].data # "AES-256"
  <2>1. \A j \in 1 .. pos + 1 : file.header[j].type # "end"
    BY <1>1, <1>4
  <2>2. pos + 1 \in Upto
    BY <1>4, <2>1 DEF Upto
  <2>3. pos + 1 \in {k \in Upto : file.header[k].type = "cipherId"}
    BY <1>4, <2>2
  <2>4. WellWritten => \A k \in {k \in Upto : file.header[k].type = "cipherId"} :
                         file.header[k].data = "AES-256"
    BY DEF WellWritten, Upto
  <2> QED BY <1>4, <2>3, <2>4
<1> QED BY <1>2, <1>3, <1>4 DEF Refused
-----------------------------------------------------------------------------
(* The forms a text may have that the reader does not take for another.      *)
TrueForms == {"plain", "ivPrefixed", "protected"}

(* Where nothing leads the parser astray, it makes of a block what was meant. *)
LEMMA StringsAreValues ==
  ASSUME NEW entry, Straight(entry, TrueForms),
         Len(entry.strings) \in Nat, DOMAIN entry.strings = 1 .. Len(entry.strings),
         \A k \in DOMAIN entry.strings : TrueValue(entry.strings[k].value),
         NEW f \in EntryFields
  PROVE  /\ StringsOf(entry.strings)[f] = ValueOf(entry, f)
         /\ TrueValue(ValueOf(entry, f)) /\ ValueOf(entry, f).form \in TrueForms
<1> DEFINE block == entry.strings
           n == Len(block)
           Value(k) == CHOOSE j \in k .. n : ~block[j].lines /\ \A i \in k .. j - 1 : block[i].lines
           Starts(k) == (k = 1 \/ ~block[k - 1].lines) /\ \E j \in k .. n : ~block[j].lines
           at == {k \in DOMAIN block : block[k].key = f}
           found == {k \in 1 .. n : Starts(k) /\ block[k].key = f}
           last == CHOOSE k \in at : \A j \in at : j <= k
<1>1. n \in Nat /\ DOMAIN block = 1 .. n
  OBVIOUS
<1>2. ASSUME NEW k \in 1 .. n
      PROVE  /\ ~block[k].lines
             /\ block[k].value.form \in TrueForms /\ TrueValue(block[k].value)
  BY <1>1 DEF Straight
<1> HIDE DEF block, n
<1>3. \A k \in 1 .. n : Starts(k)
  <2> SUFFICES ASSUME NEW k \in 1 .. n PROVE Starts(k)
    OBVIOUS
  <2>1. k \in k .. n /\ ~block[k].lines
    BY <1>1, <1>2
  <2>2. k # 1 => k - 1 \in 1 .. n
    BY <1>1
  <2> QED BY <1>2, <2>1, <2>2
<1>4. found = at
  BY <1>1, <1>3
<1>5. \A k \in 1 .. n : Value(k) = k
  <2> SUFFICES ASSUME NEW k \in 1 .. n PROVE Value(k) = k
    OBVIOUS
  <2> DEFINE Fits(j) == ~block[j].lines /\ \A i \in k .. j - 1 : block[i].lines
  <2>1. k \in k .. n /\ Fits(k)
    BY <1>1, <1>2
  <2>2. ASSUME NEW j \in k .. n, Fits(j) PROVE j = k
    <3>1. CASE j > k
      <4>1. k \in k .. j - 1
        BY <1>1, <3>1
      <4> QED BY <1>2, <2>2, <4>1
    <3> QED BY <1>1, <3>1
  <2> HIDE DEF Fits
  <2>3. (CHOOSE j \in k .. n : Fits(j)) = k
    BY <2>1, <2>2
  <2> QED BY <2>3 DEF Fits
<1>6. StringsOf(block)[f] = IF found = {} THEN EmptyValue
                            ELSE block[Value(CHOOSE k \in found : \A j \in found : j <= k)].value
  BY DEF StringsOf, n
<1>7. ValueOf(entry, f) = IF at = {} THEN EmptyValue ELSE block[last].value
  BY DEF ValueOf, block
<1> HIDE DEF Value, Starts, found
<1>8. CASE at = {}
  <2>1. StringsOf(block)[f] = EmptyValue /\ ValueOf(entry, f) = EmptyValue
    BY <1>4, <1>6, <1>7, <1>8
  <2>2. TrueValue(EmptyValue) /\ EmptyValue.form \in TrueForms
    BY DEF EmptyValue, TrueValue, TrueForms
  <2> QED BY <2>1, <2>2 DEF block
<1>9. CASE at # {}
  <2>1. at \in SUBSET (1 .. n)
    BY <1>1
  <2> HIDE DEF at
  <2>2. \E k \in at : \A j \in at : j <= k
    BY <1>1, <1>9, <2>1, LastPosition
  <2>3. last \in at
    BY <2>2
  <2>4. StringsOf(block)[f] = block[Value(last)].value
    BY <1>4, <1>6, <1>9
  <2> HIDE DEF last
  <2>5. StringsOf(block)[f] = block[last].value /\ last \in 1 .. n
    BY <1>5, <2>1, <2>3, <2>4
  <2> QED BY <1>2, <1>7, <1>9, <2>5 DEF block
<1> QED BY <1>8, <1>9

(* A value that was written for the reader comes back as it was meant.       *)
LEMMA ValueIsRead ==
  ASSUME NEW value, TrueValue(value), value.form \in TrueForms,
         header.protectedStreamKey = file.streamKey, file.streamKey # Missing
  PROVE  /\ DecryptProtectedString(value)
              = IF value.form = "protected" THEN "lost" ELSE value.text
         /\ Parsed(value) = IF value.form = "plain" THEN value.text ELSE "lost"
<1>1. Parsed(value) = IF value.form = "plain" THEN value.text ELSE "lost"
  BY DEF Parsed, TrueForms
<1>2. CASE value.form = "plain"
  BY <1>1, <1>2 DEF DecryptProtectedString
<1>3. CASE value.form = "ivPrefixed"
  <2>1. value.bytes \in Nat /\ value.bytes > 8
    BY <1>3 DEF TrueValue
  <2>2. ~(value.bytes < 8)
    BY <2>1
  <2>3. value.form \notin {"plain", "entity"}
    BY <1>3
  <2> QED BY <1>1, <1>3, <2>2, <2>3 DEF DecryptProtectedString
<1>4. CASE value.form = "protected"
  <2>1. value.form \notin {"plain", "entity"} /\ value.form # "ivPrefixed"
    BY <1>4
  <2> QED BY <1>1, <1>4, <2>1 DEF DecryptProtectedString
<1> QED BY <1>1, <1>2, <1>3, <1>4 DEF TrueForms

(* An entry is read as the item it was written for.                          *)
LEMMA ItemIsExpected ==
  ASSUME NEW entry, Straight(entry, TrueForms),
         Len(entry.strings) \in Nat, DOMAIN entry.strings = 1 .. Len(entry.strings),
         \A k \in DOMAIN entry.strings : TrueValue(entry.strings[k].value),
         header.protectedStreamKey = file.streamKey, file.streamKey # Missing
  PROVE  ItemsOf(entry.strings) = MeantItems(entry)
<1> DEFINE e == StringsOf(entry.strings)
           Given(f) == ValueOf(entry, f)
           Told(f) == Meant(entry, f)
<1>1. \A f \in EntryFields :
        e[f] = Given(f) /\ TrueValue(Given(f)) /\ Given(f).form \in TrueForms
  BY StringsAreValues
<1>2. {"Title", "UserName", "Password", "URL"} \subseteq EntryFields
  BY DEF EntryFields
<1>3. ItemsOf(entry.strings) =
        IF \E f \in {"Title", "UserName", "Password"} : e[f].text # "" THEN <<KdbxItem(e)>> ELSE <<>>
  BY DEF ItemsOf
<1>4. MeantItems(entry) =
        IF \E f \in {"Title", "UserName", "Password"} : Given(f).text # ""
        THEN <<[f \in EntryFields |-> Told(f)]>> ELSE <<>>
  BY DEF MeantItems
<1>5. ASSUME NEW f \in EntryFields, f # "Title"
      PROVE  Told(f) = IF Given(f).form = "protected" THEN "lost" ELSE Given(f).text
  BY <1>5 DEF Meant
<1>6. \E given : /\ given = (IF Given("Title").text = "" THEN Given("URL") ELSE Given("Title"))
                 /\ Told("Title") = IF given.text = "" THEN "imported"
                                    ELSE IF given.form \in {"protected", "ivPrefixed"}
                                    THEN "lost" ELSE given.text
  BY DEF Meant
<1> HIDE DEF e, Given, Told
<1>7. (\E f \in {"Title", "UserName", "Password"} : e[f].text # "")
        <=> (\E f \in {"Title", "UserName", "Password"} : Given(f).text # "")
  BY <1>1, <1>2
<1>8. ASSUME NEW f \in EntryFields, f # "Title"
      PROVE  DecryptProtectedString(e[f]) = Told(f)
  BY <1>1, <1>5, <1>8, ValueIsRead
<1>9. KdbxItem(e)["Title"] = Told("Title")
  <2>1. PICK given : /\ given = (IF Given("Title").text = "" THEN Given("URL") ELSE Given("Title"))
                     /\ Told("Title") = IF given.text = "" THEN "imported"
                                        ELSE IF given.form \in {"protected", "ivPrefixed"}
                                        THEN "lost" ELSE given.text
    BY <1>6
  <2>2. TrueValue(given) /\ given.form \in TrueForms
    BY <1>1, <1>2, <2>1
  <2>3. Parsed(given) = IF given.form = "plain" THEN given.text ELSE "lost"
    BY <2>2, ValueIsRead
  <2>4. given = (IF e.Title.text # "" THEN e.Title ELSE e.URL)
    BY <1>1, <1>2, <2>1
  <2>5. KdbxItem(e)["Title"] = IF given.text = "" THEN "imported" ELSE Parsed(given)
    BY <1>2, <2>4 DEF KdbxItem
  <2> QED BY <2>1, <2>2, <2>3, <2>5 DEF TrueForms
<1>10. \A f \in EntryFields : KdbxItem(e)[f] = Told(f)
  BY <1>8, <1>9 DEF KdbxItem
<1>11. KdbxItem(e) = [f \in EntryFields |-> KdbxItem(e)[f]]
  BY DEF KdbxItem
<1>12. KdbxItem(e) = [f \in EntryFields |-> Told(f)]
  BY <1>10, <1>11
<1> QED BY <1>3, <1>4, <1>7, <1>12

(* A single piece, flattened, is that piece.                                 *)
LEMMA OnePiece ==
  ASSUME NEW pieces, Len(pieces) = 1, DOMAIN pieces = {1}
  PROVE  FlattenSeq(pieces) = pieces[1]
<1> DEFINE Rule(f) == f = [i \in 1 .. Len(pieces) |-> IF i = 1 THEN pieces[i] ELSE f[i - 1] \o pieces[i]]
           g == [i \in 1 .. 1 |-> pieces[1]]
<1>1. 1 .. 1 = {1}
  OBVIOUS
<1>2. Rule(g)
  <2>1. \A f : [i \in 1 .. Len(pieces) |-> IF i = 1 THEN pieces[i] ELSE f[i - 1] \o pieces[i]]
                 = [i \in 1 .. 1 |-> pieces[1]]
    OBVIOUS
  <2> QED BY <2>1
<1>3. \A f : Rule(f) => f[1] = pieces[1]
  OBVIOUS
<1>4. (CHOOSE f : Rule(f))[1] = pieces[1]
  <2> HIDE DEF Rule, g
  <2> QED BY <1>2, <1>3
<1> QED BY <1>4 DEF FlattenSeq

(* The contents as a whole.                                                  *)
LEMMA ParsesTrue ==
  ASSUME file \in Files, AllStraight(TrueForms),
         header.protectedStreamKey = file.streamKey, file.streamKey # Missing
  PROVE  ParseKdbxXml(file.body.entries) =
           FlattenSeq([n \in DOMAIN file.body.entries |-> MeantItems(file.body.entries[n])])
<1> DEFINE entries == file.body.entries
           Items(n) == LET blocks == Blocks(entries[n]) IN
                       FlattenSeq([k \in DOMAIN blocks |-> ItemsOf(blocks[k])])
<1>1. ASSUME NEW n \in DOMAIN entries
      PROVE  Items(n) = MeantItems(entries[n])
  <2> DEFINE entry == entries[n]
             blocks == Blocks(entry)
             pieces == [k \in DOMAIN blocks |-> ItemsOf(blocks[k])]
  <2>1. Straight(entry, TrueForms)
    BY DEF AllStraight
  <2>2. /\ Len(entry.strings) \in Nat /\ DOMAIN entry.strings = 1 .. Len(entry.strings)
        /\ \A k \in DOMAIN entry.strings : TrueValue(entry.strings[k].value)
    BY FileType
  <2> HIDE DEF entry
  <2>3. blocks = <<entry.strings>>
    BY <2>1 DEF Straight, Blocks
  <2> HIDE DEF blocks
  <2>4. DOMAIN blocks = {1} /\ blocks[1] = entry.strings
    BY <2>3
  <2>5. pieces = <<ItemsOf(entry.strings)>>
    BY <2>3
  <2>6. Len(pieces) = 1 /\ DOMAIN pieces = {1} /\ pieces[1] = ItemsOf(entry.strings)
    <3> HIDE DEF pieces
    <3> QED BY <2>5
  <2> HIDE DEF pieces
  <2>7. FlattenSeq(pieces) = ItemsOf(entry.strings)
    BY <2>6, OnePiece
  <2>8. ItemsOf(entry.strings) = MeantItems(entry)
    BY <2>1, <2>2, ItemIsExpected
  <2> QED BY <2>7, <2>8 DEF pieces, blocks, entry
<1>2. ParseKdbxXml(entries) = FlattenSeq([n \in DOMAIN entries |-> Items(n)])
  BY DEF ParseKdbxXml
<1> HIDE DEF Items
<1>3. [n \in DOMAIN entries |-> Items(n)] = [n \in DOMAIN entries |-> MeantItems(entries[n])]
  BY <1>1
<1> QED BY <1>2, <1>3
-----------------------------------------------------------------------------
(* The invariant holds before anything is read.                              *)
LEMMA KdbxInvInit == KdbxInit => KdbxInv
<1> SUFFICES ASSUME KdbxInit PROVE KdbxInv
  OBVIOUS
<1> USE DEF KdbxInit
<1>1. Len(file.header) \in Nat
  BY FileType
<1>2. FieldsAt(pos, "masterSeed") = {}
  BY DEF FieldsAt
<1>3. \A f : FieldsAt(pos, f) = {}
  BY DEF FieldsAt
<1>4. HeaderRead
  BY <1>3 DEF HeaderRead, HeaderOf
<1> QED BY <1>1, <1>4 DEF KdbxInv, KdbxReadsTrue

(* A field of the header that is read keeps the header true to the file.     *)
LEMMA HeaderGoesOn ==
  ASSUME KdbxInv, ReadField
  PROVE  HeaderRead'
<1> DEFINE p == pos + 1
           field == file.header[p]
<1>1. /\ Len(file.header) \in Nat /\ DOMAIN file.header = 1 .. Len(file.header)
      /\ pos \in Nat /\ pos' = p /\ file' = file
      /\ header' = IF field.type \in HeaderFields THEN [header EXCEPT ![field.type] = field.data]
                   ELSE header
  BY FileType DEF KdbxInv, ReadField, FileVars
<1>2. \A f : FieldsAt(pos, f)' = FieldsAt(pos, f) \cup (IF field.type = f THEN {p} ELSE {})
  BY <1>1 DEF FieldsAt
<1>3. DOMAIN header = HeaderFields
  BY DEF KdbxInv, HeaderRead, HeaderOf
<1>4. DOMAIN header' = HeaderFields
  BY <1>1, <1>3
<1>5. ASSUME NEW f \in HeaderFields
      PROVE  /\ (FieldsAt(pos, f)' = {} => header'[f] = Default(f))
             /\ \A k \in FieldsAt(pos, f)' :
                  (\A j \in FieldsAt(pos, f)' : j <= k) => header'[f] = file.header[k].data
  <2>1. CASE field.type = f
    <3>1. FieldsAt(pos, f)' = FieldsAt(pos, f) \cup {p}
      BY <1>2, <2>1
    <3>2. header'[f] = field.data
      BY <1>1, <1>3, <2>1
    <3>3. \A k \in FieldsAt(pos, f) : k < p
      BY <1>1 DEF FieldsAt
    <3>4. \A k \in FieldsAt(pos, f)' : (\A j \in FieldsAt(pos, f)' : j <= k) => k = p
      <4> SUFFICES ASSUME NEW k \in FieldsAt(pos, f)', \A j \in FieldsAt(pos, f)' : j <= k
                   PROVE  k = p
        OBVIOUS
      <4>1. p <= k
        BY <3>1
      <4>2. k \in FieldsAt(pos, f) => k < p /\ k \in Int
        BY <1>1, <3>3 DEF FieldsAt
      <4> QED BY <1>1, <3>1, <4>1, <4>2
    <3> QED BY <3>1, <3>2, <3>4
  <2>2. CASE field.type # f
    <3>1. FieldsAt(pos, f)' = FieldsAt(pos, f)
      BY <1>2, <2>2
    <3>2. header'[f] = header[f]
      BY <1>1, <1>3, <2>2
    <3> QED BY <3>1, <3>2 DEF KdbxInv, HeaderRead, HeaderOf
  <2> QED BY <2>1, <2>2
<1> QED BY <1>1, <1>4, <1>5 DEF HeaderRead, HeaderOf

(* Every step keeps the invariant.                                           *)
LEMMA KdbxInvStep == KdbxInv /\ [KdbxNext]_kdbxVars => KdbxInv'
<1> SUFFICES ASSUME KdbxInv, [KdbxNext]_kdbxVars PROVE KdbxInv'
  OBVIOUS
<1>1. file \in Files /\ pos \in 0 .. Len(file.header) /\ HeaderRead
  BY DEF KdbxInv
<1>2. Len(file.header) \in Nat /\ DOMAIN file.header = 1 .. Len(file.header)
  BY <1>1, FileType
<1>3. CASE RefuseHeader
  <2>1. UNCHANGED <<file, typed, pos, header, decrypted, imported>> /\ reading' = "failed"
    BY <1>3 DEF RefuseHeader, KdbxFails, FileVars
  <2>2. ~WellWritten
    BY <1>1, <1>3, NeverRefused DEF KdbxInv, RefuseHeader
  <2>3. ~WellWritten'
    BY <2>1, <2>2, SameFile
  <2>4. HeaderRead'
    BY <1>1, <2>1 DEF HeaderRead, HeaderOf, FieldsAt
  <2> QED BY <1>1, <2>1, <2>3, <2>4 DEF KdbxInv, KdbxReadsTrue
<1>4. CASE ReadField
  <2>1. /\ UNCHANGED <<file, typed, reading, decrypted, imported>> /\ pos' = pos + 1
        /\ reading = "header" /\ ~Refused /\ file.header[pos + 1].type # "end"
    BY <1>4 DEF ReadField, FileVars
  <2>2. HeaderRead'
    BY <1>4, HeaderGoesOn
  <2>3. pos # Len(file.header)
    BY <2>1 DEF Refused
  <2>4. pos' \in 0 .. Len(file.header')
    BY <1>1, <1>2, <2>1, <2>3
  <2>5. \A k \in 1 .. pos' : file.header'[k].type # "end"
    BY <1>1, <1>2, <2>1 DEF KdbxInv
  <2> QED BY <1>1, <2>1, <2>2, <2>4, <2>5 DEF KdbxInv, KdbxReadsTrue
<1>5. CASE HeaderEnds
  <2>1. /\ UNCHANGED <<file, typed, header, decrypted, imported>> /\ pos' = pos + 1
        /\ reading = "header" /\ ~Refused /\ file.header[pos + 1].type = "end"
        /\ reading' = IF \E f \in {"masterSeed", "transformSeed", "encryptionIv"} :
                           header[f] = Missing
                      THEN "failed" ELSE "body"
    BY <1>5 DEF HeaderEnds, FileVars
  <2>2. pos # Len(file.header)
    BY <2>1 DEF Refused
  <2>3. pos' \in 0 .. Len(file.header) /\ pos' \in DOMAIN file.header
    BY <1>1, <1>2, <2>1, <2>2
  <2>4. Ended(pos')
    BY <1>1, <1>2, <2>1, <2>3 DEF KdbxInv, Ended
  <2>5. HeaderRead'
    <3>1. \A f \in HeaderFields : f # "end"
      BY DEF HeaderFields
    <3>2. \A f \in HeaderFields : FieldsAt(pos, f)' = FieldsAt(pos, f)
      BY <1>1, <1>2, <2>1, <3>1 DEF FieldsAt
    <3> QED BY <1>1, <2>1, <3>2 DEF HeaderRead, HeaderOf
  <2>6. reading' = "failed" => ~WellWritten
    <3> SUFFICES ASSUME reading' = "failed", WellWritten PROVE FALSE
      OBVIOUS
    <3>1. /\ header.transformSeed # Missing /\ header.masterSeed # Missing
          /\ header.encryptionIv # Missing
      <4>1. HeaderOf(pos + 1) /\ Ended(pos + 1) /\ pos + 1 \in Nat
        <5>1. \A f \in HeaderFields : FieldsAt(pos + 1, f) = FieldsAt(pos, f)
          <6>1. \A f \in HeaderFields : f # "end"
            BY DEF HeaderFields
          <6> QED BY <1>1, <1>2, <2>1, <6>1 DEF FieldsAt
        <5> QED BY <1>1, <2>1, <2>4, <5>1 DEF HeaderRead, HeaderOf
      <4> QED BY <1>1, <4>1, WellWrittenHeader
    <3> QED BY <2>1, <3>1
  <2>7. Ended(pos)'
    BY <2>1, <2>4 DEF Ended
  <2>8. ~WellWritten => ~WellWritten'
    BY <2>1, SameFile
  <2> QED BY <1>1, <2>1, <2>3, <2>5, <2>6, <2>7, <2>8 DEF KdbxInv, KdbxReadsTrue
<1>6. CASE DecryptBody
  <2>1. UNCHANGED <<file, typed, pos, header, imported>> /\ reading = "body" /\ Ended(pos)
    BY <1>6 DEF DecryptBody, FileVars, KdbxInv
  <2>2. PICK data \in KdbxDecrypt :
          /\ decrypted' = data
          /\ reading' = IF \/ data = Nothing
                           \/ /\ header.streamStartBytes # Missing
                              /\ data.start # header.streamStartBytes
                        THEN "failed" ELSE "contents"
    BY <1>6 DEF DecryptBody
  <2>3. WellWritten => data = file.body /\ reading' = "contents"
    <3> SUFFICES ASSUME WellWritten PROVE data = file.body /\ reading' = "contents"
      OBVIOUS
    <3>1. /\ header.transformSeed = file.key[2] /\ header.transformRounds = file.key[3]
          /\ header.masterSeed = file.key[4] /\ header.encryptionIv = file.iv
          /\ file.body.start # Missing => header.streamStartBytes = file.body.start
          /\ file.body.start = Missing => header.streamStartBytes = Missing
      BY <1>1, <2>1, WellWrittenHeader DEF HeaderRead
    <3>2. file.key[1] = typed
      BY DEF WellWritten
    <3>3. KdbxKey = file.key
      BY <1>1, <3>1, <3>2, FileType DEF KdbxKey
    <3>4. data = file.body
      BY <3>1, <3>3 DEF KdbxDecrypt
    <3>5. file.body # Nothing
      <4>1. Nothing.start = "nothing" /\ file.body.start # "nothing"
        BY <1>1, FileType DEF Nothing
      <4> QED BY <4>1
    <3> QED BY <2>2, <3>1, <3>4, <3>5
  <2>4. WellWritten' <=> WellWritten
    BY <2>1, SameFile
  <2>5. HeaderRead' /\ Ended(pos)'
    BY <1>1, <2>1 DEF HeaderRead, HeaderOf, FieldsAt, Ended
  <2>6. reading' = "contents" \/ reading' = "failed"
    BY <2>2
  <2> QED BY <1>1, <2>1, <2>2, <2>3, <2>4, <2>5, <2>6 DEF KdbxInv, KdbxReadsTrue
<1>7. CASE ParseContents
  <2>1. UNCHANGED <<file, typed, pos, header, decrypted>> /\ reading = "contents" /\ Ended(pos)
    BY <1>7 DEF ParseContents, FileVars, KdbxInv
  <2>2. WellWritten' <=> WellWritten
    BY <2>1, SameFile
  <2>3. HeaderRead' /\ Ended(pos)'
    BY <1>1, <2>1 DEF HeaderRead, HeaderOf, FieldsAt, Ended
  <2>4. WellWritten =>
          /\ Decompressed = IF file.body.compression = "gzip" /\ ~Bare THEN {}
                            ELSE {file.body.entries}
          /\ header.protectedStreamKey = file.streamKey /\ file.streamKey # Missing
          /\ file.body.compression \in {"none", "gzip"}
    <3> SUFFICES ASSUME WellWritten
                 PROVE  /\ Decompressed = IF file.body.compression = "gzip" /\ ~Bare THEN {}
                                          ELSE {file.body.entries}
                        /\ header.protectedStreamKey = file.streamKey
                        /\ file.streamKey # Missing
                        /\ file.body.compression \in {"none", "gzip"}
      OBVIOUS
    <3>1. /\ header.compression = file.body.compression
          /\ header.protectedStreamKey = file.streamKey /\ file.streamKey # Missing
      BY <1>1, <2>1, WellWrittenHeader DEF HeaderRead
    <3>2. decrypted = file.body
      BY <2>1 DEF KdbxInv
    <3>3. file.body.compression \in {"none", "gzip"} /\ file.body.framed \in BOOLEAN
      BY <1>1, FileType
    <3>4. Decompressed = IF file.body.compression = "gzip" /\ ~Bare THEN {}
                         ELSE {file.body.entries}
      BY <3>1, <3>2, <3>3 DEF Decompressed, Bare
    <3> QED BY <3>1, <3>3, <3>4
  <2>5. CASE Decompressed = {} /\ reading' = "failed" /\ UNCHANGED imported
    <3>1. WellWritten => file.body.compression = "gzip" /\ ~Bare
      BY <2>4, <2>5
    <3>2. KdbxReadsTrue'
      BY <2>1, <2>2, <2>5, <3>1 DEF KdbxReadsTrue, Bare
    <3> QED BY <1>1, <2>1, <2>3, <2>5, <3>2 DEF KdbxInv
  <2>6. ASSUME NEW entries \in Decompressed, reading' = "done", imported' = ParseKdbxXml(entries)
        PROVE  KdbxInv'
    <3>1. WellWritten => /\ entries = file.body.entries
                         /\ file.body.compression = "none" \/ Bare
      BY <2>4, <2>6
    <3>2. WellWritten /\ AllStraight(TrueForms) => AllMeant'
      <4> SUFFICES ASSUME WellWritten, AllStraight(TrueForms) PROVE AllMeant'
        OBVIOUS
      <4>1. imported' = FlattenSeq([n \in DOMAIN file.body.entries |->
                                      MeantItems(file.body.entries[n])])
        BY <1>1, <2>4, <2>6, <3>1, ParsesTrue
      <4> QED BY <2>1, <4>1 DEF AllMeant
    <3>3. (AllStraight(TrueForms))' <=> AllStraight(TrueForms)
      BY <2>1 DEF AllStraight
    <3>4. KdbxReadsTrue'
      BY <2>1, <2>2, <2>6, <3>1, <3>2, <3>3 DEF KdbxReadsTrue, Bare, TrueForms
    <3> QED BY <1>1, <2>1, <2>3, <2>6, <3>4 DEF KdbxInv
  <2> QED BY <1>7, <2>5, <2>6 DEF ParseContents
<1>8. CASE UNCHANGED kdbxVars
  <2>1. UNCHANGED <<file, typed, pos, header, reading, decrypted, imported>>
    BY <1>8 DEF kdbxVars
  <2>2. WellWritten' <=> WellWritten
    BY <2>1, SameFile
  <2>3. HeaderRead' /\ (Ended(pos)' <=> Ended(pos))
    BY <1>1, <2>1 DEF HeaderRead, HeaderOf, FieldsAt, Ended
  <2>4. KdbxReadsTrue'
    BY <2>1, <2>2 DEF KdbxInv, KdbxReadsTrue, AllStraight, AllMeant, Bare
  <2> QED BY <1>1, <2>1, <2>2, <2>3, <2>4 DEF KdbxInv
<1> QED BY <1>3, <1>4, <1>5, <1>6, <1>7, <1>8 DEF KdbxNext

(* FilesAreReadTrue: KdbxReadsTrue for headers of any length and order, with *)
(* start bytes and blocks or without, and for any entries: which files are   *)
(* refused, and what becomes of each text (kdbx-reader.ts 182-265, 433-532,  *)
(* 570-686).                                                                 *)
THEOREM FilesAreReadTrue == KdbxSpec => []KdbxReadsTrue
<1>1. KdbxInv => KdbxReadsTrue
  BY DEF KdbxInv
<1> QED BY <1>1, KdbxInvInit, KdbxInvStep, PTL DEF KdbxSpec
-----------------------------------------------------------------------------
(* Totp                                                                      *)
(* The numbers of eight bits, named so that the provers need not list them.  *)
Byte == 0 .. 255

(* They are numbers below 256.                                               *)
LEMMA ByteIsNat ==
  ASSUME NEW b \in Byte
  PROVE  b \in Nat /\ b <= 255
BY DEF Byte

(* Shifting by no place and by eight.                                        *)
LEMMA ShiftEnds ==
  ASSUME NEW x \in Nat
  PROVE  Shift(x, 0) = x /\ Shift(x, 8) = x \div 256
BY DEF Shift

(* Shifting by one place more halves.                                        *)
LEMMA ShiftHalf ==
  ASSUME NEW x \in Nat, NEW n \in 0 .. 11
  PROVE  Shift(x, n + 1) = Shift(x, n) \div 2 /\ Shift(x, n) \in Nat
<1>1. CASE n = 0
  BY <1>1 DEF Shift
<1>2. CASE n = 1
  BY <1>2 DEF Shift
<1>3. CASE n = 2
  BY <1>3 DEF Shift
<1>4. CASE n = 3
  BY <1>4 DEF Shift
<1>5. CASE n = 4
  BY <1>5 DEF Shift
<1>6. CASE n = 5
  BY <1>6 DEF Shift
<1>7. CASE n = 6
  BY <1>7 DEF Shift
<1>8. CASE n = 7
  BY <1>8 DEF Shift
<1>9. CASE n = 8
  BY <1>9 DEF Shift
<1>10. CASE n = 9
  BY <1>10 DEF Shift
<1>11. CASE n = 10
  BY <1>11 DEF Shift
<1>12. CASE n = 11
  BY <1>12 DEF Shift
<1> QED BY <1>1, <1>2, <1>3, <1>4, <1>5, <1>6, <1>7, <1>8, <1>9, <1>10, <1>11, <1>12

(* What shifting does, by any number of places that is needed.               *)
LEMMA Shifts ==
  ASSUME NEW x \in Nat
  PROVE  /\ Shift(x, 0) = x /\ Shift(x, 8) = x \div 256
         /\ \A n \in 0 .. 12 : Shift(x, n) \in Nat
         /\ \A n \in 0 .. 11 : Shift(x, n + 1) = Shift(x, n) \div 2
<1>1. Shift(x, 0) = x /\ Shift(x, 8) = x \div 256
  BY ShiftEnds
<1>2. \A n \in 0 .. 11 : Shift(x, n + 1) = Shift(x, n) \div 2 /\ Shift(x, n) \in Nat
  BY ShiftHalf
<1>3. Shift(x, 12) \in Nat
  BY DEF Shift
<1>4. \A n \in 0 .. 12 : Shift(x, n) \in Nat
  <2> SUFFICES ASSUME NEW n \in 0 .. 12 PROVE Shift(x, n) \in Nat
    OBVIOUS
  <2>1. n \in 0 .. 11 \/ n = 12
    OBVIOUS
  <2> QED BY <1>2, <1>3, <2>1
<1> QED BY <1>1, <1>2, <1>4

(* A bit is 0 or 1, and what a shift leaves in the last place.               *)
LEMMA BitIsBit ==
  ASSUME NEW x \in Nat, NEW n \in 0 .. 12
  PROVE  Bit(x, n) \in {0, 1} /\ Bit(x, n) = Shift(x, n) % 2
<1>1. Shift(x, n) \in Nat
  BY Shifts
<1> QED BY <1>1 DEF Bit

(* A number of eight bits is the sum of its bits.                            *)
LEMMA ByteIsBits ==
  ASSUME NEW b \in Byte
  PROVE  b = 128 * Bit(b, 7) + 64 * Bit(b, 6) + 32 * Bit(b, 5) + 16 * Bit(b, 4)
               + 8 * Bit(b, 3) + 4 * Bit(b, 2) + 2 * Bit(b, 1) + Bit(b, 0)
<1>1. b \in Nat
  BY ByteIsNat
<1>2. Shift(b, 0) = b /\ Shift(b, 8) = 0
  <2>1. Shift(b, 8) = b \div 256 /\ Shift(b, 0) = b
    BY <1>1, ShiftEnds
  <2>2. b \div 256 = 0
    BY ByteIsNat
  <2> QED BY <2>1, <2>2
<1>3. \A n \in 0 .. 7 : Shift(b, n) = 2 * Shift(b, n + 1) + Bit(b, n)
  <2> SUFFICES ASSUME NEW n \in 0 .. 7
               PROVE  Shift(b, n) = 2 * Shift(b, n + 1) + Bit(b, n)
    OBVIOUS
  <2>1. n \in 0 .. 11 /\ n \in 0 .. 12
    OBVIOUS
  <2>2. Shift(b, n + 1) = Shift(b, n) \div 2 /\ Shift(b, n) \in Nat
    BY <1>1, <2>1, ShiftHalf
  <2>3. Bit(b, n) = Shift(b, n) % 2
    BY DEF Bit
  <2> QED BY <2>2, <2>3
<1>4. /\ Shift(b, 0) = 2 * Shift(b, 1) + Bit(b, 0) /\ Shift(b, 1) = 2 * Shift(b, 2) + Bit(b, 1)
      /\ Shift(b, 2) = 2 * Shift(b, 3) + Bit(b, 2) /\ Shift(b, 3) = 2 * Shift(b, 4) + Bit(b, 3)
      /\ Shift(b, 4) = 2 * Shift(b, 5) + Bit(b, 4) /\ Shift(b, 5) = 2 * Shift(b, 6) + Bit(b, 5)
      /\ Shift(b, 6) = 2 * Shift(b, 7) + Bit(b, 6) /\ Shift(b, 7) = 2 * Shift(b, 8) + Bit(b, 7)
  BY <1>3
<1>5. /\ Shift(b, 1) \in Int /\ Shift(b, 2) \in Int /\ Shift(b, 3) \in Int /\ Shift(b, 4) \in Int
      /\ Shift(b, 5) \in Int /\ Shift(b, 6) \in Int /\ Shift(b, 7) \in Int
  BY <1>1, Shifts
<1>6. /\ Bit(b, 0) \in Int /\ Bit(b, 1) \in Int /\ Bit(b, 2) \in Int /\ Bit(b, 3) \in Int
      /\ Bit(b, 4) \in Int /\ Bit(b, 5) \in Int /\ Bit(b, 6) \in Int /\ Bit(b, 7) \in Int
  <2>1. \A n \in 0 .. 7 : Bit(b, n) \in Int
    BY <1>1, BitIsBit
  <2> QED BY <2>1
<1> QED BY <1>2, <1>4, <1>5, <1>6

(* The same number, shifted once more and once more.                         *)
LEMMA ShiftTwice ==
  ASSUME NEW x \in Nat, NEW e \in 0 .. 8, NEW t \in 0 .. 4
  PROVE  Shift(Shift(x, e), t) = Shift(x, e + t)
<1>1. \A n \in 0 .. 11 : Shift(x, n + 1) = Shift(x, n) \div 2
  BY Shifts
<1>2. Shift(x, e) \in Nat
  <2>1. e \in 0 .. 12
    OBVIOUS
  <2> QED BY <2>1, Shifts
<1>3. Shift(x, e + 1) = Shift(x, e) \div 2
  BY <1>1
<1>4. Shift(x, e + 2) = Shift(x, e + 1) \div 2
  <2>1. e + 1 \in 0 .. 11 /\ (e + 1) + 1 = e + 2
    OBVIOUS
  <2>2. Shift(x, (e + 1) + 1) = Shift(x, e + 1) \div 2
    BY <1>1, <2>1
  <2> QED BY <2>1, <2>2
<1>5. Shift(x, e + 3) = Shift(x, e + 2) \div 2
  <2>1. e + 2 \in 0 .. 11 /\ (e + 2) + 1 = e + 3
    OBVIOUS
  <2>2. Shift(x, (e + 2) + 1) = Shift(x, e + 2) \div 2
    BY <1>1, <2>1
  <2> QED BY <2>1, <2>2
<1>6. Shift(x, e + 4) = Shift(x, e + 3) \div 2
  <2>1. e + 3 \in 0 .. 11 /\ (e + 3) + 1 = e + 4
    OBVIOUS
  <2>2. Shift(x, (e + 3) + 1) = Shift(x, e + 3) \div 2
    BY <1>1, <2>1
  <2> QED BY <2>1, <2>2
<1> DEFINE y == Shift(x, e)
<1>7. /\ Shift(y, 0) = y /\ Shift(y, 1) = Shift(y, 0) \div 2 /\ Shift(y, 2) = Shift(y, 1) \div 2
      /\ Shift(y, 3) = Shift(y, 2) \div 2 /\ Shift(y, 4) = Shift(y, 3) \div 2
  <2>1. y \in Nat
    BY <1>2
  <2> HIDE DEF y
  <2>2. Shift(y, 0) = y /\ \A n \in 0 .. 11 : Shift(y, n + 1) = Shift(y, n) \div 2
    BY <2>1, Shifts
  <2> QED BY <2>2
<1>8. CASE t = 0
  <2>1. e + t = e
    BY <1>8
  <2> QED BY <1>7, <1>8, <2>1
<1>9. CASE t = 1
  BY <1>3, <1>7, <1>9
<1>10. CASE t = 2
  BY <1>3, <1>4, <1>7, <1>10
<1>11. CASE t = 3
  BY <1>3, <1>4, <1>5, <1>7, <1>11
<1>12. CASE t = 4
  BY <1>3, <1>4, <1>5, <1>6, <1>7, <1>12
<1> QED BY <1>8, <1>9, <1>10, <1>11, <1>12

(* What is cut off on the left does not change the bits on the right: half   *)
(* of the remainder is the remainder of the half.                            *)
LEMMA LowByte ==
  ASSUME NEW x \in Nat, NEW t \in 0 .. 7
  PROVE  Bit(x % 256, t) = Bit(x, t)
<1> DEFINE z == x % 256
<1>1. z \in Nat
  OBVIOUS
<1>2. /\ Shift(x, 0) = x /\ \A n \in 0 .. 11 : Shift(x, n + 1) = Shift(x, n) \div 2
      /\ \A n \in 0 .. 12 : Shift(x, n) \in Nat
  BY Shifts
<1>3. z = Shift(x, 0) % 256
  BY <1>2
<1> HIDE DEF z
<1>4. Shift(z, 0) = z /\ \A n \in 0 .. 11 : Shift(z, n + 1) = Shift(z, n) \div 2
  BY <1>1, Shifts
<1>5. Shift(z, 0) = Shift(x, 0) % 256
  BY <1>3, <1>4
<1>6. Shift(z, 1) = Shift(x, 1) % 128
  <2>1. Shift(x, 0) \in Nat /\ Shift(x, 1) = Shift(x, 0) \div 2 /\ Shift(z, 1) = Shift(z, 0) \div 2
    BY <1>2, <1>4
  <2> QED BY <1>5, <2>1
<1>7. Shift(z, 2) = Shift(x, 2) % 64
  <2>1. Shift(x, 1) \in Nat /\ Shift(x, 2) = Shift(x, 1) \div 2 /\ Shift(z, 2) = Shift(z, 1) \div 2
    BY <1>2, <1>4
  <2> QED BY <1>6, <2>1
<1>8. Shift(z, 3) = Shift(x, 3) % 32
  <2>1. Shift(x, 2) \in Nat /\ Shift(x, 3) = Shift(x, 2) \div 2 /\ Shift(z, 3) = Shift(z, 2) \div 2
    BY <1>2, <1>4
  <2> QED BY <1>7, <2>1
<1>9. Shift(z, 4) = Shift(x, 4) % 16
  <2>1. Shift(x, 3) \in Nat /\ Shift(x, 4) = Shift(x, 3) \div 2 /\ Shift(z, 4) = Shift(z, 3) \div 2
    BY <1>2, <1>4
  <2> QED BY <1>8, <2>1
<1>10. Shift(z, 5) = Shift(x, 5) % 8
  <2>1. Shift(x, 4) \in Nat /\ Shift(x, 5) = Shift(x, 4) \div 2 /\ Shift(z, 5) = Shift(z, 4) \div 2
    BY <1>2, <1>4
  <2> QED BY <1>9, <2>1
<1>11. Shift(z, 6) = Shift(x, 6) % 4
  <2>1. Shift(x, 5) \in Nat /\ Shift(x, 6) = Shift(x, 5) \div 2 /\ Shift(z, 6) = Shift(z, 5) \div 2
    BY <1>2, <1>4
  <2> QED BY <1>10, <2>1
<1>12. Shift(z, 7) = Shift(x, 7) % 2
  <2>1. Shift(x, 6) \in Nat /\ Shift(x, 7) = Shift(x, 6) \div 2 /\ Shift(z, 7) = Shift(z, 6) \div 2
    BY <1>2, <1>4
  <2> QED BY <1>11, <2>1
<1>13. Shift(z, t) % 2 = Shift(x, t) % 2
  <2>1. /\ Shift(x, 0) \in Nat /\ Shift(x, 1) \in Nat /\ Shift(x, 2) \in Nat /\ Shift(x, 3) \in Nat
        /\ Shift(x, 4) \in Nat /\ Shift(x, 5) \in Nat /\ Shift(x, 6) \in Nat /\ Shift(x, 7) \in Nat
    BY <1>2
  <2>2. CASE t = 0
    BY <1>5, <2>1, <2>2
  <2>3. CASE t = 1
    BY <1>6, <2>1, <2>3
  <2>4. CASE t = 2
    BY <1>7, <2>1, <2>4
  <2>5. CASE t = 3
    BY <1>8, <2>1, <2>5
  <2>6. CASE t = 4
    BY <1>9, <2>1, <2>6
  <2>7. CASE t = 5
    BY <1>10, <2>1, <2>7
  <2>8. CASE t = 6
    BY <1>11, <2>1, <2>8
  <2>9. CASE t = 7
    BY <1>12, <2>1, <2>9
  <2> QED BY <2>2, <2>3, <2>4, <2>5, <2>6, <2>7, <2>8, <2>9
<1> QED BY <1>13 DEF Bit, z

(* A group of five bits taken from the buffer.                               *)
LEMMA GroupBit ==
  ASSUME NEW x \in Nat, NEW e \in 0 .. 7, NEW t \in 0 .. 4
  PROVE  Bit(Shift(x, e) % 32, t) = Bit(x, e + t) /\ Shift(x, e) % 32 \in 0 .. 31
<1> DEFINE y == Shift(x, e)
<1>1. y \in Nat
  <2>1. e \in 0 .. 12
    OBVIOUS
  <2> QED BY <2>1, Shifts
<1>2. Shift(y, t) = Shift(x, e + t)
  BY ShiftTwice
<1> HIDE DEF y
<1>3. y % 32 \in 0 .. 31
  BY <1>1
<1>4. Bit(y % 32, t) = Bit(y, t)
  <2> DEFINE z == y % 32
  <2>1. z \in Nat
    BY <1>3
  <2>2. z = y % 32
    OBVIOUS
  <2> HIDE DEF z
  <2>3. /\ Shift(y, 0) = y /\ Shift(y, 1) = Shift(y, 0) \div 2 /\ Shift(y, 2) = Shift(y, 1) \div 2
        /\ Shift(y, 3) = Shift(y, 2) \div 2 /\ Shift(y, 4) = Shift(y, 3) \div 2
    <3>1. Shift(y, 0) = y /\ \A n \in 0 .. 11 : Shift(y, n + 1) = Shift(y, n) \div 2
      BY <1>1, Shifts
    <3> QED BY <3>1
  <2>4. /\ Shift(z, 0) = z /\ Shift(z, 1) = Shift(z, 0) \div 2 /\ Shift(z, 2) = Shift(z, 1) \div 2
        /\ Shift(z, 3) = Shift(z, 2) \div 2 /\ Shift(z, 4) = Shift(z, 3) \div 2
    <3>1. Shift(z, 0) = z /\ \A n \in 0 .. 11 : Shift(z, n + 1) = Shift(z, n) \div 2
      BY <2>1, Shifts
    <3> QED BY <3>1
  <2>5. Shift(y, 1) \in Nat /\ Shift(y, 2) \in Nat /\ Shift(y, 3) \in Nat /\ Shift(y, 4) \in Nat
    BY <1>1, Shifts
  <2>6. Shift(z, 1) = Shift(y, 1) % 16
    BY <1>1, <2>2, <2>3, <2>4
  <2>7. Shift(z, 2) = Shift(y, 2) % 8
    BY <2>3, <2>4, <2>5, <2>6
  <2>8. Shift(z, 3) = Shift(y, 3) % 4
    BY <2>3, <2>4, <2>5, <2>7
  <2>9. Shift(z, 4) = Shift(y, 4) % 2
    BY <2>3, <2>4, <2>5, <2>8
  <2>10. Shift(z, t) % 2 = Shift(y, t) % 2
    <3>1. CASE t = 0
      BY <1>1, <2>2, <2>3, <2>4, <3>1
    <3>2. CASE t = 1
      BY <2>5, <2>6, <3>2
    <3>3. CASE t = 2
      BY <2>5, <2>7, <3>3
    <3>4. CASE t = 3
      BY <2>5, <2>8, <3>4
    <3>5. CASE t = 4
      BY <2>5, <2>9, <3>5
    <3> QED BY <3>1, <3>2, <3>3, <3>4, <3>5
  <2> QED BY <2>10 DEF Bit, z
<1> QED BY <1>2, <1>3, <1>4 DEF Bit, y

(* A buffer that holds two bytes.                                            *)
IsWindow(x, a, b) ==
  a \in Nat /\ b \in Nat /\ a <= 255 /\ b <= 255 /\ x = a * 256 + b

(* The bits of the buffer are those of its two bytes.                        *)
LEMMA WindowBit ==
  ASSUME NEW x, NEW a, NEW b, IsWindow(x, a, b), NEW t \in 0 .. 11
  PROVE  Bit(x, t) = IF t < 8 THEN Bit(b, t) ELSE Bit(a, t - 8)
<1>1. x \in Nat /\ a \in Nat /\ x % 256 = b /\ x \div 256 = a
  BY DEF IsWindow
<1>2. CASE t < 8
  <2>1. t \in 0 .. 7
    BY <1>2
  <2>2. Bit(x % 256, t) = Bit(x, t)
    BY <1>1, <2>1, LowByte
  <2> QED BY <1>1, <1>2, <2>2
<1>3. CASE ~(t < 8)
  <2> DEFINE u == t - 8
  <2>1. u \in 0 .. 7 /\ 8 + u = t /\ 8 \in 0 .. 8
    BY <1>3
  <2> HIDE DEF u
  <2>2. Shift(x, 8) = a
    BY <1>1, ShiftEnds
  <2>3. Shift(Shift(x, 8), u) = Shift(x, 8 + u)
    BY <1>1, <2>1, ShiftTwice
  <2>4. Bit(a, u) = Bit(x, t)
    BY <2>1, <2>2, <2>3 DEF Bit
  <2> QED BY <1>3, <2>4 DEF u
<1> QED BY <1>2, <1>3
-----------------------------------------------------------------------------
(* The m-th bit of the secret; zeros follow.                                 *)
Source(bytes, m) ==
  IF m < 8 * Len(bytes) THEN Bit(bytes[(m \div 8) + 1], 7 - (m % 8)) ELSE 0

(* What bytesToBase32 has after i bytes.                                     *)
Encoded(bytes, s, i) ==
  /\ s.result \in Seq(0 .. 31) /\ Len(s.result) = (8 * i) \div 5
  /\ s.bitsInBuffer = (8 * i) % 5 /\ s.buffer \in Nat
  /\ s.buffer % 256 = IF i = 0 THEN 0 ELSE bytes[i]
  /\ \A k \in 1 .. Len(s.result) : \A j \in 0 .. 4 :
       Bit(s.result[k], 4 - j) = Source(bytes, 5 * (k - 1) + j)

(* Quotients and remainders.                                                 *)
LEMMA Quotients ==
  ASSUME NEW q \in Nat
  PROVE  /\ \A d \in 0 .. 4 : (5 * q + d) \div 5 = q /\ (5 * q + d) % 5 = d
         /\ \A d \in 0 .. 7 : (8 * q + d) \div 8 = q /\ (8 * q + d) % 8 = d
OBVIOUS

(* A position is a group of five and a place in it.                          *)
LEMMA Fifths ==
  ASSUME NEW n \in Nat
  PROVE  n \div 5 \in Nat /\ n % 5 \in 0 .. 4 /\ n = 5 * (n \div 5) + (n % 5)
OBVIOUS

(* A function on 1 .. n is a sequence of length n.                           *)
LEMMA FunctionIsSequence ==
  ASSUME NEW S, NEW n \in Nat, NEW f \in [1 .. n -> S]
  PROVE  f \in Seq(S) /\ Len(f) = n
<1>1. f \in Seq(S)
  BY SeqDef
<1>2. Len(f) \in Nat /\ DOMAIN f = 1 .. Len(f)
  BY <1>1, LenProperties
<1>3. 1 .. n = 1 .. Len(f)
  BY <1>2
<1> QED BY <1>1, <1>2, <1>3

(* One more byte is encoded.                                                 *)
LEMMA EncodeStep ==
  ASSUME NEW bytes \in Seq(Byte), NEW i \in 1 .. Len(bytes), NEW s, Encoded(bytes, s, i - 1)
  PROVE  Encoded(bytes, EncodeByte(s, bytes[i]), i)
<1> DEFINE L == Len(bytes)
           R == Len(s.result)
           cur == bytes[i]
           prev == IF i = 1 THEN 0 ELSE bytes[i - 1]
           r == s.bitsInBuffer
           groups == (r + 8) \div 5
           buffer == (s.buffer % 256) * 256 + cur
           more == Groups(buffer, r + 8)
           new == s.result \o more
<1>1. L \in Nat /\ i \in Nat /\ 1 <= i /\ i <= L
  BY LenProperties
<1>2. cur \in Byte /\ cur \in Nat /\ cur <= 255
  BY ElementOfSeq, ByteIsNat
<1>3. prev \in Nat /\ prev <= 255
  <2>1. CASE i = 1
    BY <2>1
  <2>2. CASE i # 1
    <3>1. i - 1 \in 1 .. L
      BY <1>1, <2>2
    <3>2. bytes[i - 1] \in Byte
      BY <3>1, ElementOfSeq
    <3> QED BY <2>2, <3>2, ByteIsNat
  <2> QED BY <2>1, <2>2
<1>4. s.buffer \in Nat /\ s.buffer % 256 = prev
  <2>1. s.buffer \in Nat /\ s.buffer % 256 = IF i - 1 = 0 THEN 0 ELSE bytes[i - 1]
    BY DEF Encoded
  <2>2. i - 1 = 0 <=> i = 1
    BY <1>1
  <2> QED BY <2>1, <2>2
<1>5. /\ s.result \in Seq(0 .. 31) /\ R = (8 * (i - 1)) \div 5
      /\ r = (8 * (i - 1)) % 5
      /\ \A k \in 1 .. R : \A j \in 0 .. 4 : Bit(s.result[k], 4 - j) = Source(bytes, 5 * (k - 1) + j)
  BY DEF Encoded
<1>6. /\ EncodeByte(s, cur).result = new
      /\ EncodeByte(s, cur).buffer = buffer
      /\ EncodeByte(s, cur).bitsInBuffer = (r + 8) % 5
  BY DEF EncodeByte
<1>7. buffer = prev * 256 + cur
  BY <1>4
<1> HIDE DEF L, R, cur, prev, r, groups, buffer, more, new
<1>8. buffer \in Nat
  BY <1>2, <1>3, <1>7
<1>9. /\ R \in Nat /\ r \in 0 .. 4 /\ (i = 1 => r = 0) /\ 5 * R + r = 8 * (i - 1)
      /\ groups \in {1, 2} /\ 5 * groups <= r + 8 /\ r + 8 < 5 * groups + 5
  <2> DEFINE n == 8 * (i - 1)
  <2>1. n \in Nat /\ R = n \div 5 /\ r = n % 5 /\ (i = 1 => n = 0)
    BY <1>1, <1>5
  <2> HIDE DEF n
  <2>2. R \in Nat /\ r \in 0 .. 4 /\ 5 * R + r = n /\ (n = 0 => r = 0)
    BY <2>1
  <2>3. groups \in {1, 2} /\ 5 * groups <= r + 8 /\ r + 8 < 5 * groups + 5
    BY <2>2 DEF groups
  <2> QED BY <2>1, <2>2, <2>3 DEF n
<1>10. ASSUME NEW k \in 1 .. groups, NEW j \in 0 .. 4
       PROVE  /\ more[k] \in 0 .. 31
              /\ Bit(more[k], 4 - j) = Source(bytes, 5 * (R + k - 1) + j)
  <2> DEFINE e == (r + 8) - 5 * k
             t == e + (4 - j)
             m == 5 * (R + k - 1) + j
  <2>1. e \in 0 .. 7 /\ 4 - j \in 0 .. 4 /\ (i = 1 => t < 8) /\ t \in 0 .. 11
    BY <1>1, <1>9
  <2>2. more[k] = Shift(buffer, e) % 32
    BY DEF more, groups, Groups
  <2>3. m = 8 * (i - 1) + 7 - t
    BY <1>1, <1>9
  <2> HIDE DEF e, m
  <2>4. Bit(more[k], 4 - j) = Bit(buffer, t) /\ more[k] \in 0 .. 31
    <3> DEFINE v == 4 - j
    <3>1. v \in 0 .. 4 /\ e \in 0 .. 7 /\ t = e + v
      BY <2>1
    <3> HIDE DEF v, t
    <3>2. Bit(Shift(buffer, e) % 32, v) = Bit(buffer, e + v) /\ Shift(buffer, e) % 32 \in 0 .. 31
      BY <1>8, <3>1, GroupBit
    <3> QED BY <2>2, <3>1, <3>2 DEF v
  <2> HIDE DEF t
  <2>5. Bit(buffer, t) = IF t < 8 THEN Bit(cur, t) ELSE Bit(prev, t - 8)
    <3>1. IsWindow(buffer, prev, cur)
      BY <1>2, <1>3, <1>7 DEF IsWindow
    <3> QED BY <2>1, <3>1, WindowBit
  <2>6. m < 8 * L
    BY <1>1, <2>1, <2>3
  <2>7. CASE t < 8
    <3>1. m \div 8 = i - 1 /\ m % 8 = 7 - t
      <4>1. m = 8 * (i - 1) + (7 - t) /\ i - 1 \in Nat /\ 7 - t \in 0 .. 7
        BY <1>1, <2>1, <2>3, <2>7
      <4> QED BY <4>1, Quotients
    <3>2. (m \div 8) + 1 = i /\ 7 - (m % 8) = t
      BY <1>1, <2>1, <3>1
    <3>3. Source(bytes, m) = Bit(cur, t)
      BY <2>6, <3>2 DEF Source, cur, L
    <3> QED BY <2>4, <2>5, <2>7, <3>3 DEF m
  <2>8. CASE ~(t < 8)
    <3>1. m = 8 * (i - 2) + (15 - t) /\ i >= 2 /\ 15 - t \in 0 .. 7
      BY <1>1, <2>1, <2>3, <2>8
    <3>2. m \div 8 = i - 2 /\ m % 8 = 15 - t
      <4>1. i - 2 \in Nat
        BY <1>1, <3>1
      <4>2. /\ (8 * (i - 2) + (15 - t)) \div 8 = i - 2
            /\ (8 * (i - 2) + (15 - t)) % 8 = 15 - t
        BY <3>1, <4>1, Quotients
      <4> QED BY <3>1, <4>2
    <3>3. (m \div 8) + 1 = i - 1 /\ 7 - (m % 8) = t - 8 /\ i # 1
      BY <1>1, <2>1, <3>1, <3>2
    <3>4. Source(bytes, m) = Bit(prev, t - 8)
      BY <2>6, <3>3 DEF Source, prev, L
    <3> QED BY <2>4, <2>5, <2>8, <3>4 DEF m
  <2> QED BY <2>7, <2>8
<1>11. more \in Seq(0 .. 31) /\ Len(more) = groups
  <2>1. groups \in Nat /\ more = [k \in 1 .. groups |-> more[k]]
    BY <1>9 DEF more, groups, Groups
  <2>2. \A k \in 1 .. groups : more[k] \in 0 .. 31
    BY <1>10
  <2>3. more \in [1 .. groups -> 0 .. 31]
    BY <2>1, <2>2
  <2> QED BY <2>1, <2>3, FunctionIsSequence
<1>12. /\ new \in Seq(0 .. 31) /\ Len(new) = R + groups
       /\ \A k \in 1 .. R + groups :
            new[k] = IF k <= R THEN s.result[k] ELSE more[k - R]
  <2> DEFINE old == s.result
  <2>1. old \in Seq(0 .. 31) /\ Len(old) = R
    BY <1>5 DEF R
  <2> HIDE DEF old
  <2>2. /\ old \o more \in Seq(0 .. 31) /\ Len(old \o more) = R + groups
        /\ \A k \in 1 .. R + groups :
             (old \o more)[k] = IF k <= R THEN old[k] ELSE more[k - R]
    <3>1. /\ old \o more \in Seq(0 .. 31) /\ Len(old \o more) = Len(old) + Len(more)
          /\ \A k \in 1 .. Len(old) + Len(more) :
               (old \o more)[k] = IF k <= Len(old) THEN old[k] ELSE more[k - Len(old)]
      <4>1. old \in Seq(0 .. 31) /\ more \in Seq(0 .. 31)
        BY <1>11, <2>1
      <4> QED BY <4>1, ConcatProperties
    <3> QED BY <1>11, <2>1, <3>1
  <2> QED BY <2>2 DEF new, old
<1>13. Len(new) = (8 * i) \div 5 /\ (r + 8) % 5 = (8 * i) % 5
  <2> DEFINE d == r + 8 - 5 * groups
             all == R + groups
  <2>1. /\ all \in Nat /\ groups \in Nat /\ d \in 0 .. 4
        /\ 8 * i = 5 * all + d /\ r + 8 = 5 * groups + d
    BY <1>1, <1>9
  <2>2. Len(new) = all
    BY <1>12
  <2> HIDE DEF d, all
  <2>3. (5 * all + d) \div 5 = all /\ (5 * all + d) % 5 = d
    BY <2>1, Quotients
  <2>4. (5 * groups + d) % 5 = d
    BY <2>1, Quotients
  <2> QED BY <2>1, <2>2, <2>3, <2>4
<1>14. ASSUME NEW k \in 1 .. Len(new), NEW j \in 0 .. 4
       PROVE  Bit(new[k], 4 - j) = Source(bytes, 5 * (k - 1) + j)
  <2>1. CASE k <= R
    <3>1. k \in 1 .. R /\ new[k] = s.result[k]
      BY <1>9, <1>12, <2>1
    <3> QED BY <1>5, <3>1
  <2>2. CASE ~(k <= R)
    <3> DEFINE n == k - R
    <3>1. n \in 1 .. groups /\ new[k] = more[n] /\ R + n - 1 = k - 1
      BY <1>9, <1>12, <2>2
    <3> HIDE DEF n
    <3>2. Bit(more[n], 4 - j) = Source(bytes, 5 * (R + n - 1) + j)
      BY <1>10, <3>1
    <3> QED BY <3>1, <3>2
  <2> QED BY <2>1, <2>2
<1>15. i # 0
  BY <1>1
<1> DEFINE out == EncodeByte(s, cur)
<1>16. buffer % 256 = IF i = 0 THEN 0 ELSE cur
  <2>1. (prev * 256 + cur) % 256 = cur
    BY <1>2, <1>3
  <2> QED BY <1>7, <1>15, <2>1
<1>17. out.result = new /\ out.buffer = buffer /\ out.bitsInBuffer = (r + 8) % 5
  BY <1>6
<1> HIDE DEF out
<1>18. Encoded(bytes, out, i)
  BY <1>8, <1>12, <1>13, <1>14, <1>16, <1>17 DEF Encoded, cur
<1> QED BY <1>18 DEF out, cur

(* The recursive function exists: it is built up byte by byte.               *)
Start == [result |-> <<>>, buffer |-> 0, bitsInBuffer |-> 0]

(* The recursive function of the encoding exists.                            *)
LEMMA EncodingDef ==
  ASSUME NEW bytes \in Seq(Byte)
  PROVE  /\ Encoding(bytes)[0] = Start
         /\ \A i \in 1 .. Len(bytes) :
              Encoding(bytes)[i] = EncodeByte(Encoding(bytes)[i - 1], bytes[i])
<1> DEFINE L == Len(bytes)
           Rule(f, n) == f = [i \in 0 .. n |-> IF i = 0 THEN Start
                                               ELSE EncodeByte(f[i - 1], bytes[i])]
           Undefined == {n \in 0 .. L : ~ \E f : Rule(f, n)}
<1>1. L \in Nat
  BY LenProperties
<1>2. 0 \notin Undefined
  <2> DEFINE f == [i \in 0 .. 0 |-> Start]
  <2>1. Rule(f, 0)
    OBVIOUS
  <2> QED BY <2>1
<1>3. ASSUME NEW n \in 1 .. L, n - 1 \notin Undefined
      PROVE  n \notin Undefined
  <2>1. n - 1 \in 0 .. L /\ n \in 0 .. L /\ n # 0
    BY <1>1
  <2>2. PICK g : Rule(g, n - 1)
    BY <1>3, <2>1
  <2> DEFINE f == [i \in 0 .. n |-> IF i = n THEN EncodeByte(g[n - 1], bytes[n]) ELSE g[i]]
  <2>3. ASSUME NEW i \in 0 .. n
        PROVE  f[i] = IF i = 0 THEN Start ELSE EncodeByte(f[i - 1], bytes[i])
    <3>1. CASE i = n
      <4>1. f[i] = EncodeByte(g[i - 1], bytes[i]) /\ i - 1 \in 0 .. n /\ i - 1 # n /\ i # 0
        BY <1>1, <2>1, <3>1
      <4>2. f[i - 1] = g[i - 1]
        BY <4>1
      <4> QED BY <4>1, <4>2
    <3>2. CASE i # n
      <4>1. i \in 0 .. n - 1 /\ f[i] = g[i]
        BY <1>1, <3>2
      <4>2. g[i] = IF i = 0 THEN Start ELSE EncodeByte(g[i - 1], bytes[i])
        BY <2>2, <4>1
      <4>3. CASE i = 0
        BY <4>1, <4>2, <4>3
      <4>4. CASE i # 0
        <5>1. i - 1 \in 0 .. n /\ i - 1 # n
          BY <1>1, <4>1, <4>4
        <5>2. f[i - 1] = g[i - 1]
          BY <5>1
        <5> QED BY <4>1, <4>2, <4>4, <5>2
      <4> QED BY <4>3, <4>4
    <3> QED BY <3>1, <3>2
  <2>4. f = [i \in 0 .. n |-> f[i]]
    OBVIOUS
  <2> HIDE DEF f
  <2>5. Rule(f, n)
    BY <2>3, <2>4
  <2> QED BY <2>5
<1>4. Undefined = {}
  <2>1. SUFFICES ASSUME Undefined # {} PROVE FALSE
    OBVIOUS
  <2>2. Undefined \in SUBSET Nat
    BY <1>1
  <2> HIDE DEF Undefined
  <2>3. PICK n \in Undefined : \A k \in Undefined : n <= k
    BY <2>1, <2>2, LeastNumber
  <2>4. n \in 1 .. L /\ n - 1 \notin Undefined
    <3>1. n \in 0 .. L
      BY DEF Undefined
    <3> QED BY <1>1, <1>2, <2>2, <2>3, <3>1
  <2> QED BY <1>3, <2>3, <2>4
<1>5. \E f : Rule(f, L)
  <2>1. L \in 0 .. L
    BY <1>1
  <2> QED BY <1>4, <2>1
<1>6. Rule(Encoding(bytes), L)
  BY <1>5 DEF Encoding, Start
<1> DEFINE e == Encoding(bytes)
<1>7. /\ e[0] = Start
      /\ \A i \in 1 .. L : e[i] = EncodeByte(e[i - 1], bytes[i])
  <2> HIDE DEF e
  <2>1. Rule(e, L)
    BY <1>6 DEF e
  <2>2. \A i \in 0 .. L : e[i] = IF i = 0 THEN Start ELSE EncodeByte(e[i - 1], bytes[i])
    BY <2>1
  <2> QED BY <1>1, <2>2
<1> QED BY <1>7

(* After i bytes the groups hold the bits of these bytes.                    *)
LEMMA AllEncoded ==
  ASSUME NEW bytes \in Seq(Byte)
  PROVE  \A i \in 0 .. Len(bytes) : Encoded(bytes, Encoding(bytes)[i], i)
<1> DEFINE L == Len(bytes)
           e == Encoding(bytes)
           Bad == {i \in 0 .. L : ~Encoded(bytes, e[i], i)}
<1>1. L \in Nat
  BY LenProperties
<1>2. 0 \notin Bad
  <2>1. e[0] = Start
    BY EncodingDef
  <2>2. Encoded(bytes, Start, 0)
    BY EmptySeq DEF Encoded, Start
  <2> QED BY <2>1, <2>2
<1>3. ASSUME NEW i \in 1 .. L, i - 1 \notin Bad
      PROVE  i \notin Bad
  <2>1. i - 1 \in 0 .. L
    BY <1>1
  <2>2. Encoded(bytes, e[i - 1], i - 1)
    BY <1>3, <2>1
  <2>3. e[i] = EncodeByte(e[i - 1], bytes[i])
    BY EncodingDef
  <2> HIDE DEF e
  <2>4. Encoded(bytes, EncodeByte(e[i - 1], bytes[i]), i)
    BY <2>2, EncodeStep
  <2> QED BY <2>3, <2>4
<1> HIDE DEF e
<1>4. Bad = {}
  <2>1. SUFFICES ASSUME Bad # {} PROVE FALSE
    OBVIOUS
  <2>2. Bad \in SUBSET Nat
    BY <1>1
  <2> HIDE DEF Bad
  <2>3. PICK n \in Bad : \A k \in Bad : n <= k
    BY <2>1, <2>2, LeastNumber
  <2>4. n \in 1 .. L /\ n - 1 \notin Bad
    <3>1. n \in 0 .. L
      BY DEF Bad
    <3> QED BY <1>1, <1>2, <2>2, <2>3, <3>1
  <2> QED BY <1>3, <2>3, <2>4
<1> QED BY <1>4 DEF e

(* The zeros behind what is left.                                            *)
LEMMA Doubled ==
  ASSUME NEW y \in Nat, NEW t \in 0 .. 4
  PROVE  2 * y \in Nat /\ Bit(2 * y, t) = IF t = 0 THEN 0 ELSE Bit(y, t - 1)
<1> DEFINE z == 2 * y
<1>1. z \in Nat /\ z \div 2 = y /\ z % 2 = 0
  OBVIOUS
<1> HIDE DEF z
<1>2. Shift(z, 0) = z /\ Shift(y, 0) = y
  BY <1>1, Shifts
<1>3. \A n \in 0 .. 11 : Shift(z, n + 1) = Shift(z, n) \div 2
  BY <1>1, ShiftHalf
<1>4. \A n \in 0 .. 11 : Shift(y, n + 1) = Shift(y, n) \div 2
  BY ShiftHalf
<1>5. Shift(z, 1) = Shift(y, 0)
  BY <1>1, <1>2, <1>3
<1>6. Shift(z, 2) = Shift(y, 1)
  <2>1. Shift(z, 2) = Shift(z, 1) \div 2 /\ Shift(y, 1) = Shift(y, 0) \div 2
    BY <1>3, <1>4
  <2> QED BY <1>5, <2>1
<1>7. Shift(z, 3) = Shift(y, 2)
  <2>1. Shift(z, 3) = Shift(z, 2) \div 2 /\ Shift(y, 2) = Shift(y, 1) \div 2
    BY <1>3, <1>4
  <2> QED BY <1>6, <2>1
<1>8. Shift(z, 4) = Shift(y, 3)
  <2>1. Shift(z, 4) = Shift(z, 3) \div 2 /\ Shift(y, 3) = Shift(y, 2) \div 2
    BY <1>3, <1>4
  <2> QED BY <1>7, <2>1
<1>9. Bit(z, t) = IF t = 0 THEN 0 ELSE Bit(y, t - 1)
  <2>1. CASE t = 0
    BY <1>1, <1>2, <2>1 DEF Bit
  <2>2. CASE t = 1
    BY <1>5, <2>2 DEF Bit
  <2>3. CASE t = 2
    BY <1>6, <2>3 DEF Bit
  <2>4. CASE t = 3
    BY <1>7, <2>4 DEF Bit
  <2>5. CASE t = 4
    BY <1>8, <2>5 DEF Bit
  <2> QED BY <2>1, <2>2, <2>3, <2>4, <2>5
<1> QED BY <1>1, <1>9 DEF z

(* The last group is filled up with zeros.                                   *)
LEMMA LastGroup ==
  ASSUME NEW x \in Nat, NEW r \in 1 .. 4, NEW j \in 0 .. 4
  PROVE  /\ (x * 2^(5 - r)) % 32 \in 0 .. 31
         /\ Bit((x * 2^(5 - r)) % 32, 4 - j) = IF j < r THEN Bit(x, r - 1 - j) ELSE 0
<1> DEFINE t == 4 - j
           w == x * 2^(5 - r)
<1>1. t \in 0 .. 4 /\ j = 4 - t
  OBVIOUS
<1>2. w \in Nat /\ Bit(w, t) = IF t >= 5 - r THEN Bit(x, t - (5 - r)) ELSE 0
  <2> DEFINE x2 == 2 * x
             x4 == 2 * x2
             x8 == 2 * x4
             x16 == 2 * x8
  <2>1. x2 \in Nat /\ x4 \in Nat /\ x8 \in Nat /\ x16 \in Nat
    OBVIOUS
  <2>2. w = IF r = 4 THEN x2 ELSE IF r = 3 THEN x4 ELSE IF r = 2 THEN x8 ELSE x16
    <3>1. CASE r = 4
      BY <3>1
    <3>2. CASE r = 3
      BY <3>2
    <3>3. CASE r = 2
      BY <3>3
    <3>4. CASE r = 1
      BY <3>4
    <3> QED BY <3>1, <3>2, <3>3, <3>4
  <2> HIDE DEF t, w
  <2>3. \A s \in 0 .. 4 : Bit(x2, s) = IF s = 0 THEN 0 ELSE Bit(x, s - 1)
    BY Doubled
  <2> HIDE DEF x2
  <2>4. \A s \in 0 .. 4 : Bit(x4, s) = IF s = 0 THEN 0 ELSE Bit(x2, s - 1)
    BY <2>1, Doubled
  <2> HIDE DEF x4
  <2>5. \A s \in 0 .. 4 : Bit(x8, s) = IF s = 0 THEN 0 ELSE Bit(x4, s - 1)
    BY <2>1, Doubled
  <2> HIDE DEF x8
  <2>6. \A s \in 0 .. 4 : Bit(x16, s) = IF s = 0 THEN 0 ELSE Bit(x8, s - 1)
    BY <2>1, Doubled
  <2> HIDE DEF x16
  <2>7. t = 0 \/ t = 1 \/ t = 2 \/ t = 3 \/ t = 4
    BY <1>1
  <2>8. Bit(x2, t) = IF t >= 1 THEN Bit(x, t - 1) ELSE 0
    BY <1>1, <2>3
  <2>9. Bit(x4, t) = IF t >= 2 THEN Bit(x, t - 2) ELSE 0
    BY <2>3, <2>4, <2>7
  <2>10. Bit(x8, t) = IF t >= 3 THEN Bit(x, t - 3) ELSE 0
    BY <2>3, <2>4, <2>5, <2>7
  <2>11. Bit(x16, t) = IF t >= 4 THEN Bit(x, t - 4) ELSE 0
    BY <2>3, <2>4, <2>5, <2>6, <2>7
  <2>12. CASE r = 4
    BY <2>1, <2>2, <2>8, <2>12
  <2>13. CASE r = 3
    BY <2>1, <2>2, <2>9, <2>13
  <2>14. CASE r = 2
    BY <2>1, <2>2, <2>10, <2>14
  <2>15. CASE r = 1
    BY <2>1, <2>2, <2>11, <2>15
  <2> QED BY <2>12, <2>13, <2>14, <2>15
<1> HIDE DEF t, w
<1>3. Bit(w % 32, t) = Bit(w, t) /\ w % 32 \in 0 .. 31
  <2>1. Shift(w, 0) = w
    BY <1>2, Shifts
  <2>2. /\ Bit(Shift(w, 0) % 32, t) = Bit(w, 0 + t) /\ Shift(w, 0) % 32 \in 0 .. 31
    BY <1>1, <1>2, GroupBit
  <2> QED BY <1>1, <2>1, <2>2
<1>4. (t >= 5 - r <=> j < r) /\ t - (5 - r) = r - 1 - j
  BY <1>1
<1>5. w % 32 \in 0 .. 31 /\ Bit(w % 32, t) = IF j < r THEN Bit(x, r - 1 - j) ELSE 0
  BY <1>2, <1>3, <1>4
<1> QED BY <1>5 DEF t, w

(* The text holds the secret's bits, five to a character, and zeros.         *)
LEMMA TextBits ==
  ASSUME NEW bytes \in Seq(Byte), NEW text, text = BytesToBase32(bytes)
  PROVE  /\ text \in Seq(0 .. 31)
         /\ 5 * Len(text) - 8 * Len(bytes) \in 0 .. 4
         /\ \A k \in 1 .. Len(text) : \A j \in 0 .. 4 :
              Bit(text[k], 4 - j) = Source(bytes, 5 * (k - 1) + j)
<1> DEFINE L == Len(bytes)
           last == Encoding(bytes)[L]
           R == Len(last.result)
           r == last.bitsInBuffer
           x == last.buffer
           letter == (x * 2^(5 - r)) % 32
<1>1. L \in Nat /\ L \in 0 .. L
  BY LenProperties
<1>2. Encoded(bytes, last, L)
  BY <1>1, AllEncoded
<1>3. text = IF r = 0 THEN last.result ELSE Append(last.result, letter)
  BY DEF BytesToBase32
<1> HIDE DEF L, last
<1>4. /\ last.result \in Seq(0 .. 31) /\ R = (8 * L) \div 5 /\ r = (8 * L) % 5 /\ x \in Nat
      /\ x % 256 = IF L = 0 THEN 0 ELSE bytes[L]
  BY <1>2 DEF Encoded
<1>9. \A k \in 1 .. R : \A j \in 0 .. 4 : Bit(last.result[k], 4 - j) = Source(bytes, 5 * (k - 1) + j)
  BY <1>2 DEF Encoded
<1> HIDE DEF R, r, x
<1>8. x \in Nat
  BY <1>4
<1>5. R \in Nat /\ r \in 0 .. 4 /\ 5 * R + r = 8 * L
  <2> DEFINE n == 8 * L
  <2>1. n \in Nat /\ R = n \div 5 /\ r = n % 5
    BY <1>1, <1>4
  <2> HIDE DEF n
  <2>2. n \div 5 \in Nat /\ n % 5 \in 0 .. 4 /\ n = 5 * (n \div 5) + (n % 5)
    BY <2>1, Fifths
  <2> QED BY <2>1, <2>2 DEF n
<1>6. CASE r = 0
  <2>1. text = last.result
    BY <1>3, <1>6
  <2>2. 5 * Len(text) - 8 * L \in 0 .. 4
    BY <1>1, <1>5, <1>6, <2>1 DEF R
  <2> QED BY <1>4, <1>9, <2>1, <2>2 DEF R, L
<1>7. CASE r # 0
  <2>1. text = Append(last.result, letter)
    BY <1>3, <1>7
  <2>2. r \in 1 .. 4 /\ L # 0
    BY <1>1, <1>5, <1>7
  <2>3. letter \in 0 .. 31
    <3>1. 0 \in 0 .. 4 /\ x \in Nat /\ r \in 1 .. 4
      BY <1>8, <2>2
    <3>2. (x * 2^(5 - r)) % 32 \in 0 .. 31
      BY ONLY <3>1, LastGroup
    <3> HIDE DEF letter
    <3> QED BY <3>2 DEF letter
  <2>4. \A j \in 0 .. 4 : Bit(letter, 4 - j) = IF j < r THEN Bit(x, r - 1 - j) ELSE 0
    BY <1>8, <2>2, LastGroup
  <2> HIDE DEF letter
  <2>5. /\ text \in Seq(0 .. 31) /\ Len(text) = R + 1 /\ text[R + 1] = letter
        /\ \A k \in 1 .. R : text[k] = last.result[k]
    <3> DEFINE all == Append(last.result, letter)
    <3> DEFINE S == 0 .. 31
    <3>0. last.result \in Seq(S) /\ letter \in S
      BY <1>4, <2>3
    <3> HIDE DEF S
    <3>1. /\ all \in Seq(S) /\ Len(all) = Len(last.result) + 1
          /\ \A k \in 1 .. Len(last.result) : all[k] = last.result[k]
          /\ all[Len(last.result) + 1] = letter
      BY <3>0, AppendProperties
    <3> HIDE DEF all
    <3>2. text = all
      BY <2>1 DEF all
    <3> QED BY <3>1, <3>2 DEF R, S
  <2>6. 5 * Len(text) - 8 * L \in 0 .. 4
    BY <1>1, <1>5, <2>2, <2>5
  <2>7. ASSUME NEW k \in 1 .. Len(text), NEW j \in 0 .. 4
        PROVE  Bit(text[k], 4 - j) = Source(bytes, 5 * (k - 1) + j)
    <3>1. CASE k \in 1 .. R
      BY <1>9, <2>5, <3>1
    <3>2. CASE k = R + 1
      <4> DEFINE m == 5 * (k - 1) + j
      <4>1. m = 8 * L - r + j /\ m \in Int
        BY <1>1, <1>5, <3>2
      <4> HIDE DEF m
      <4>2. CASE j < r
        <5>1. m < 8 * L /\ m = 8 * (L - 1) + (8 - r + j) /\ L - 1 \in Nat /\ 8 - r + j \in 0 .. 7
          BY <1>1, <2>2, <4>1, <4>2
        <5>2. /\ (8 * (L - 1) + (8 - r + j)) \div 8 = L - 1
              /\ (8 * (L - 1) + (8 - r + j)) % 8 = 8 - r + j
          BY <5>1, Quotients
        <5>3. (m \div 8) + 1 = L /\ 7 - (m % 8) = r - 1 - j
          BY <1>1, <2>2, <5>1, <5>2
        <5>4. Source(bytes, m) = Bit(bytes[L], r - 1 - j)
          BY <5>1, <5>3 DEF Source, L
        <5> DEFINE u == r - 1 - j
        <5>5. u \in 0 .. 7
          BY <2>2, <4>2
        <5> HIDE DEF u
        <5>6. Bit(x % 256, u) = Bit(x, u)
          BY <1>8, <5>5, LowByte
        <5>7. x % 256 = bytes[L]
          BY <1>4, <2>2
        <5>8. text[k] = letter /\ Bit(letter, 4 - j) = Bit(x, r - 1 - j)
          BY <2>4, <2>5, <3>2, <4>2
        <5> QED BY <5>4, <5>6, <5>7, <5>8 DEF m, u
      <4>3. CASE ~(j < r)
        <5>1. ~(m < 8 * L)
          BY <1>1, <2>2, <4>1, <4>3
        <5>2. Source(bytes, m) = 0
          BY <5>1 DEF Source, L
        <5> QED BY <2>4, <2>5, <3>2, <4>3, <5>2 DEF m
      <4> QED BY <4>2, <4>3
    <3> QED BY <1>5, <2>5, <3>1, <3>2
  <2> QED BY <2>5, <2>6, <2>7 DEF L
<1> QED BY <1>6, <1>7

(* What bytesToBase32 writes is what base32ToBytes reads.                    *)
LEMMA Base32RoundTrip ==
  ASSUME NEW bytes \in Seq(Byte)
  PROVE  Base32ToBytes(BytesToBase32(bytes)) = bytes
<1> DEFINE text == BytesToBase32(bytes)
           L == Len(bytes)
           N == Len(text)
           back == Base32ToBytes(text)
<1>1. /\ text \in Seq(0 .. 31) /\ 5 * N - 8 * L \in 0 .. 4
      /\ \A k \in 1 .. N : \A j \in 0 .. 4 : Bit(text[k], 4 - j) = Source(bytes, 5 * (k - 1) + j)
  BY TextBits
<1> HIDE DEF text
<1>2. L \in Nat /\ N \in Nat
  BY <1>1, LenProperties
<1>3. (5 * N) \div 8 = L
  <2> DEFINE d == 5 * N - 8 * L
  <2>1. 5 * N = 8 * L + d /\ d \in 0 .. 7
    BY <1>1, <1>2
  <2> HIDE DEF d, L, N
  <2> QED BY <1>2, <2>1, Quotients
<1>4. back = [n \in 1 .. L |-> ByteOf(text, 8 * (n - 1))]
  BY <1>3 DEF Base32ToBytes
<1> HIDE DEF L, N, back
<1>5. ASSUME NEW n \in 1 .. L
      PROVE  ByteOf(text, 8 * (n - 1)) = bytes[n] /\ bytes[n] \in Byte
  <2> DEFINE b == bytes[n]
             k == 8 * (n - 1)
  <2>1. b \in Byte
    BY ElementOfSeq DEF L
  <2>2. ASSUME NEW j \in 0 .. 7 PROVE BitOf(text, k + j) = Bit(b, 7 - j)
    <3> DEFINE m == k + j
               q == m \div 5
               d == m % 5
    <3>1. m = 8 * (n - 1) + j /\ m \in Nat /\ m < 8 * L
      BY <1>2
    <3>2. /\ (8 * (n - 1) + j) \div 8 = n - 1 /\ (8 * (n - 1) + j) % 8 = j
      <4>1. n - 1 \in Nat
        BY <1>2
      <4> QED BY <4>1, Quotients
    <3>3. Source(bytes, m) = Bit(b, 7 - j)
      <4>1. (m \div 8) + 1 = n /\ 7 - (m % 8) = 7 - j
        BY <1>2, <3>1, <3>2
      <4> HIDE DEF m
      <4>2. m < 8 * Len(bytes)
        BY <3>1 DEF L
      <4> QED BY <4>1, <4>2 DEF Source
    <3> HIDE DEF m
    <3>4. q \in Nat /\ d \in 0 .. 4 /\ m = 5 * q + d
      BY <3>1, Fifths
    <3>5. BitOf(text, m) = Bit(text[q + 1], 4 - d)
      BY DEF BitOf
    <3> HIDE DEF q, d
    <3>6. q + 1 \in 1 .. N /\ (q + 1) - 1 = q
      BY <1>1, <1>2, <3>1, <3>4
    <3>7. Bit(text[q + 1], 4 - d) = Source(bytes, 5 * ((q + 1) - 1) + d)
      BY <1>1, <3>4, <3>6
    <3> QED BY <3>3, <3>4, <3>5, <3>6, <3>7 DEF m
  <2>3. k \in Int
    BY <1>2
  <2> HIDE DEF b, k
  <2>4. /\ BitOf(text, k) = Bit(b, 7) /\ BitOf(text, k + 1) = Bit(b, 6)
        /\ BitOf(text, k + 2) = Bit(b, 5) /\ BitOf(text, k + 3) = Bit(b, 4)
        /\ BitOf(text, k + 4) = Bit(b, 3) /\ BitOf(text, k + 5) = Bit(b, 2)
        /\ BitOf(text, k + 6) = Bit(b, 1) /\ BitOf(text, k + 7) = Bit(b, 0)
    <3>1. BitOf(text, k + 0) = Bit(b, 7 - 0) /\ k + 0 = k
      BY <2>2, <2>3
    <3>2. /\ BitOf(text, k + 1) = Bit(b, 7 - 1) /\ BitOf(text, k + 2) = Bit(b, 7 - 2)
          /\ BitOf(text, k + 3) = Bit(b, 7 - 3) /\ BitOf(text, k + 4) = Bit(b, 7 - 4)
      BY <2>2
    <3>3. /\ BitOf(text, k + 5) = Bit(b, 7 - 5) /\ BitOf(text, k + 6) = Bit(b, 7 - 6)
          /\ BitOf(text, k + 7) = Bit(b, 7 - 7)
      BY <2>2
    <3> QED BY <3>1, <3>2, <3>3
  <2>5. ByteOf(text, k) = b
    BY <2>1, <2>4, ByteIsBits DEF ByteOf
  <2> QED BY <2>1, <2>5 DEF b, k
<1>6. back = [n \in 1 .. L |-> bytes[n]]
  BY <1>4, <1>5
<1>7. bytes = [n \in 1 .. L |-> bytes[n]]
  BY LenProperties DEF L
<1> QED BY <1>6, <1>7 DEF back, text
-----------------------------------------------------------------------------
(* Windows of the clock.                                                     *)
LEMMA Windows ==
  ASSUME NEW c \in Nat, NEW P \in Nat \ {0}
  PROVE  /\ c \div P \in Nat /\ c % P \in 0 .. P - 1
         /\ (c \div P) * P <= c /\ c < ((c \div P) + 1) * P
<1>1. c \div P \in Nat /\ c % P \in 0 .. P - 1 /\ c = P * (c \div P) + (c % P)
  OBVIOUS
<1> QED BY <1>1

(* A later window starts when the earlier one has ended, or after.           *)
LEMMA LaterWindow ==
  ASSUME NEW p \in Nat, NEW q \in Nat, NEW P \in Nat \ {0}, p * P < q * P
  PROVE  (p + 1) * P <= q * P
<1>1. p < q
  BY Z3
<1> QED BY <1>1, Z3

(* What is kept from step to step: the counter's window began no later than  *)
(* now, and what was read from the clock is later than that.                 *)
TotpInv ==
  /\ secret \in Secrets
  /\ clock \in Nat /\ counter \in Nat
  /\ counter * TotpPeriod <= clock
  /\ generating \in {"counted", "done"} =>
       totpCode = <<secret, counter>> /\ remaining \in 1 .. TotpPeriod
  /\ generating = "done" =>
       nextCodeAt > clock /\ nextCodeAt >= (counter + 1) * TotpPeriod
  /\ generating = "failed" => secret = <<>>

(* The invariant holds at the start.                                         *)
LEMMA TotpInvInit == TotpInit => TotpInv
  BY TotpAssumption DEF TotpInit, TotpInv

(* Every step keeps the invariant.                                           *)
LEMMA TotpInvStep == TotpInv /\ [TotpNext]_totpVars => TotpInv'
<1> SUFFICES ASSUME TotpInv, [TotpNext]_totpVars PROVE TotpInv'
  OBVIOUS
<1> USE DEF TotpInv
<1>1. TotpPeriod \in Nat \ {0}
  BY TotpAssumption
<1>2. CASE ReadCounter
  <2>1. clock \div TotpPeriod \in Nat /\ (clock \div TotpPeriod) * TotpPeriod <= clock
    BY <1>1, Windows
  <2> QED BY <1>2, <2>1 DEF ReadCounter
<1>7. Base32ToBytes(BytesToBase32(secret)) = secret
  <2>1. secret \in Seq(Byte)
    BY TotpAssumption DEF Byte
  <2> QED BY <2>1, Base32RoundTrip
<1>3. CASE HmacDone
  <2>1. Base32ToBytes(BytesToBase32(secret)) = secret
    BY <1>7
  <2>2. remaining' \in 1 .. TotpPeriod
    <3>1. clock % TotpPeriod \in 0 .. TotpPeriod - 1
      BY <1>1, Windows
    <3>2. remaining' = TotpPeriod - (clock % TotpPeriod)
      BY <1>3 DEF HmacDone, GetRemainingSeconds
    <3> QED BY <1>1, <3>1, <3>2
  <2> QED BY <1>3, <2>1, <2>2 DEF HmacDone
<1>4. CASE ReadNextCodeAt
  <2> DEFINE q == clock \div TotpPeriod
  <2>1. q \in Nat /\ clock < (q + 1) * TotpPeriod
    BY <1>1, Windows
  <2>2. nextCodeAt' = (q + 1) * TotpPeriod
    BY <1>4 DEF ReadNextCodeAt
  <2> HIDE DEF q
  <2>3. counter * TotpPeriod < (q + 1) * TotpPeriod /\ q + 1 \in Nat
    <3>1. counter * TotpPeriod \in Nat /\ (q + 1) * TotpPeriod \in Nat /\ q + 1 \in Nat
      BY <1>1, <2>1
    <3> QED BY <2>1, <3>1
  <2>4. (counter + 1) * TotpPeriod <= (q + 1) * TotpPeriod
    BY <1>1, <2>3, LaterWindow
  <2>5. (q + 1) * TotpPeriod \in Nat /\ (counter + 1) * TotpPeriod \in Nat
    BY <1>1, <2>1
  <2> QED BY <1>4, <2>1, <2>2, <2>4, <2>5 DEF ReadNextCodeAt
<1>5. CASE TotpSecond
  <2>1. counter * TotpPeriod \in Nat
    BY <1>1
  <2> QED BY <1>5, <2>1 DEF TotpSecond
<1>6. CASE UNCHANGED totpVars
  BY <1>6 DEF totpVars
<1>8. CASE HmacFails
  BY <1>7, <1>8 DEF HmacFails
<1> QED BY <1>2, <1>3, <1>4, <1>5, <1>6, <1>8 DEF TotpNext

(* CodeIsOfSecret, for secrets of any bytes and any length, any period and   *)
(* any reading of the clock: base32ToBytes gives back the very bytes that    *)
(* bytesToBase32 was given, and the countdown is never shorter than the      *)
(* window of the code (totp.ts 51-105, 213-234, 363-370).                    *)
THEOREM CodesAreOfSecret == TotpSpec => []CodeIsOfSecret
<1>1. TotpInv => CodeIsOfSecret
  BY DEF TotpInv, CodeIsOfSecret
<1> QED BY <1>1, TotpInvInit, TotpInvStep, PTL DEF TotpSpec
-----------------------------------------------------------------------------
(* CsvFormat: a file is written and read back.                               *)

(* Induction along an interval, as a fact about sets.                        *)
LEMMA Along ==
  ASSUME NEW a \in Nat, NEW b \in Nat, NEW T, a \in T,
         \A n \in a .. b - 1 : n \in T => n + 1 \in T
  PROVE  \A n \in a .. b : n \in T
<1> DEFINE Out == {n \in a .. b : n \notin T}
<1>1. SUFFICES ASSUME Out # {} PROVE FALSE
  OBVIOUS
<1>2. Out \in SUBSET Nat
  OBVIOUS
<1> HIDE DEF Out
<1>3. PICK n \in Out : \A k \in Out : n <= k
  BY <1>1, <1>2, LeastNumber
<1>4. n \in a .. b /\ n \notin T /\ n # a
  BY DEF Out
<1>5. n - 1 \in a .. b - 1 /\ n - 1 \notin Out
  BY <1>3, <1>4
<1>6. n - 1 \in T
  BY <1>5 DEF Out
<1> QED BY <1>4, <1>5, <1>6
-----------------------------------------------------------------------------
(* A text is read by steps: of splitCsvLine, of the cut into lines, or of a   *)
(* sequence of texts that is joined.                                          *)
Step(kind, s, x) ==
  IF kind = "join" THEN s \o x
  ELSE IF kind = "fields" THEN SplitStep(s, x) ELSE LineStep(s, x)

Scans(kind, f, s, w, a, b) ==
  f = [n \in a .. b |-> IF n = a THEN s ELSE Step(kind, f[n - 1], w[n])]

(* The recursive function exists.                                            *)
LEMMA ScanExists ==
  ASSUME NEW kind, NEW s, NEW w, NEW a \in Nat, NEW b \in Nat, a <= b
  PROVE  \E f : Scans(kind, f, s, w, a, b)
<1> DEFINE T == {m \in a .. b : \E f : Scans(kind, f, s, w, a, m)}
<1>1. a \in T
  <2> DEFINE f == [n \in a .. a |-> s]
  <2>1. Scans(kind, f, s, w, a, a)
    BY DEF Scans
  <2> QED BY <2>1
<1>2. ASSUME NEW m \in a .. b - 1, m \in T
      PROVE  m + 1 \in T
  <2>1. PICK g : Scans(kind, g, s, w, a, m)
    BY <1>2
  <2> DEFINE f == [n \in a .. m + 1 |-> IF n = m + 1 THEN Step(kind, g[m], w[n]) ELSE g[n]]
  <2>2. ASSUME NEW n \in a .. m + 1
        PROVE  f[n] = IF n = a THEN s ELSE Step(kind, f[n - 1], w[n])
    <3>1. CASE n = m + 1
      <4>1. n # a /\ n - 1 = m /\ m \in a .. m + 1 /\ m # m + 1
        BY <3>1
      <4>2. f[n - 1] = g[m]
        BY <4>1
      <4> QED BY <3>1, <4>1, <4>2
    <3>2. CASE n # m + 1
      <4>1. n \in a .. m /\ f[n] = g[n]
        BY <3>2
      <4>2. g[n] = IF n = a THEN s ELSE Step(kind, g[n - 1], w[n])
        BY <2>1, <4>1 DEF Scans
      <4>3. n # a => n - 1 \in a .. m + 1 /\ n - 1 # m + 1
        BY <4>1
      <4>4. n # a => f[n - 1] = g[n - 1]
        BY <4>3
      <4> QED BY <4>1, <4>2, <4>4
    <3> QED BY <3>1, <3>2
  <2>3. f = [n \in a .. m + 1 |-> f[n]]
    OBVIOUS
  <2> HIDE DEF f
  <2>4. Scans(kind, f, s, w, a, m + 1)
    BY <2>2, <2>3 DEF Scans
  <2>5. m + 1 \in a .. b
    OBVIOUS
  <2> QED BY <2>4, <2>5
<1> HIDE DEF T
<1>3. b \in T
  <2>1. \A n \in a .. b : n \in T
    BY <1>1, <1>2, Along
  <2> QED BY <2>1
<1> QED BY <1>3 DEF T

(* A scan starts at its state and goes on step by step.                      *)
LEMMA ScanRule ==
  ASSUME NEW kind, NEW f, NEW s, NEW w, NEW a \in Nat, NEW b \in Nat, a <= b,
         Scans(kind, f, s, w, a, b)
  PROVE  f[a] = s /\ \A n \in a + 1 .. b : f[n] = Step(kind, f[n - 1], w[n])
<1>1. \A n \in a .. b : f[n] = IF n = a THEN s ELSE Step(kind, f[n - 1], w[n])
  BY DEF Scans
<1> QED BY <1>1

Steps(kind, f, s, w, L) ==
  f[0] = s /\ \A n \in 1 .. L : f[n] = Step(kind, f[n - 1], w[n])

(* There is a scan of a text from any state.                                 *)
LEMMA ScanFrom ==
  ASSUME NEW kind, NEW s, NEW w, NEW L \in Nat
  PROVE  \E f : Steps(kind, f, s, w, L)
<1>1. 0 \in Nat /\ 0 <= L /\ 0 + 1 = 1
  OBVIOUS
<1>2. PICK f : Scans(kind, f, s, w, 0, L)
  BY <1>1, ScanExists
<1>3. f[0] = s /\ \A n \in 0 + 1 .. L : f[n] = Step(kind, f[n - 1], w[n])
  BY <1>1, <1>2, ScanRule
<1> QED BY <1>1, <1>3 DEF Steps

(* Where a text ends, when it is read from the state s on.                   *)
Run(kind, s, w) == (CHOOSE f : Scans(kind, f, s, w, 0, Len(w)))[Len(w)]

(* Whatever goes on step by step ends where the scan ends.                   *)
LEMMA RunIs ==
  ASSUME NEW kind, NEW w, Len(w) \in Nat, NEW f,
         \A n \in 1 .. Len(w) : f[n] = Step(kind, f[n - 1], w[n])
  PROVE  Run(kind, f[0], w) = f[Len(w)]
<1> DEFINE L == Len(w)
           g == CHOOSE g : Scans(kind, g, f[0], w, 0, L)
           T == {n \in 0 .. L : g[n] = f[n]}
<1>1. Scans(kind, g, f[0], w, 0, L)
  <2>1. 0 \in Nat /\ L \in Nat /\ 0 <= L
    OBVIOUS
  <2> HIDE DEF L
  <2>2. \E h : Scans(kind, h, f[0], w, 0, L)
    BY <2>1, ScanExists
  <2> QED BY <2>2
<1>2. Run(kind, f[0], w) = g[L]
  BY DEF Run
<1> HIDE DEF g
<1>3. g[0] = f[0] /\ \A n \in 1 .. L : g[n] = Step(kind, g[n - 1], w[n])
  BY <1>1, ScanRule
<1>4. 0 \in T
  BY <1>3
<1>5. ASSUME NEW n \in 0 .. L - 1, n \in T PROVE n + 1 \in T
  <2>1. n + 1 \in 1 .. L /\ n + 1 \in 0 .. L /\ (n + 1) - 1 = n /\ g[n] = f[n]
    BY <1>5
  <2>2. g[n + 1] = Step(kind, g[(n + 1) - 1], w[n + 1])
    BY <1>3, <2>1
  <2>3. f[n + 1] = Step(kind, f[(n + 1) - 1], w[n + 1])
    BY <2>1
  <2> QED BY <2>1, <2>2, <2>3
<1> HIDE DEF T
<1>6. \A n \in 0 .. L : n \in T
  BY <1>4, <1>5, Along
<1>7. g[L] = f[L]
  BY <1>6 DEF T
<1> QED BY <1>2, <1>7

(* The characters: what fields are made of, and what the export adds.        *)
Alphabet == STRING \cup {",", "\"", "\n"} \cup {AmeenColumns[k] : k \in DOMAIN AmeenColumns}

Text == Seq(Alphabet)

(* An empty text changes nothing.                                            *)
LEMMA RunEmpty ==
  ASSUME NEW kind, NEW s
  PROVE  Run(kind, s, <<>>) = s
<1> DEFINE f == [n \in 0 .. 0 |-> s]
<1>1. \A n \in 1 .. 0 : f[n] = Step(kind, f[n - 1], <<>>[n])
  OBVIOUS
<1>2. f[0] = s
  OBVIOUS
<1> HIDE DEF f
<1>3. Run(kind, f[0], <<>>) = f[0]
  BY <1>1, RunIs
<1> QED BY <1>2, <1>3

(* A text of one character is one step.                                      *)
LEMMA RunOne ==
  ASSUME NEW kind, NEW s, NEW c
  PROVE  Run(kind, s, <<c>>) = Step(kind, s, c)
<1> DEFINE f == [n \in 0 .. 1 |-> IF n = 0 THEN s ELSE Step(kind, s, c)]
<1>1. f[0] = s /\ f[1] = Step(kind, s, c)
  OBVIOUS
<1> HIDE DEF f
<1> DEFINE w == <<c>>
<1>2. Len(w) = 1 /\ Len(w) \in Nat /\ w[1] = c
  OBVIOUS
<1> HIDE DEF w
<1>3. \A n \in 1 .. Len(w) : f[n] = Step(kind, f[n - 1], w[n])
  <2>1. \A n \in 1 .. Len(w) : n = 1 /\ n - 1 = 0
    BY <1>2
  <2> QED BY <1>1, <1>2, <2>1
<1>4. Run(kind, f[0], w) = f[Len(w)]
  BY <1>2, <1>3, RunIs
<1> QED BY <1>1, <1>2, <1>4 DEF w

(* What is read in two pieces is read as a whole.                            *)
LEMMA RunConcat ==
  ASSUME NEW kind, NEW s, NEW u \in Text, NEW w \in Text
  PROVE  Run(kind, s, u \o w) = Run(kind, Run(kind, s, u), w)
<1> DEFINE K == Len(u)  L == Len(w)
<1>1. K \in Nat /\ L \in Nat
  BY LenProperties DEF Text
<1> HIDE DEF K, L
<1>2. PICK f : Steps(kind, f, s, u, K)
  BY <1>1, ScanFrom
<1>3. f[0] = s /\ \A n \in 1 .. K : f[n] = Step(kind, f[n - 1], u[n])
  BY <1>2 DEF Steps
<1>4. Run(kind, s, u) = f[K]
  BY <1>1, <1>3, RunIs DEF K
<1>5. PICK g : Steps(kind, g, f[K], w, L)
  BY <1>1, ScanFrom
<1>6. g[0] = f[K] /\ \A n \in 1 .. L : g[n] = Step(kind, g[n - 1], w[n])
  BY <1>5 DEF Steps
<1>7. Run(kind, f[K], w) = g[L]
  BY <1>1, <1>6, RunIs DEF L
<1>8. /\ Len(u \o w) = K + L
      /\ \A n \in 1 .. K + L : (u \o w)[n] = IF n <= K THEN u[n] ELSE w[n - K]
  BY ConcatProperties DEF Text, K, L
<1> DEFINE h == [n \in 0 .. K + L |-> IF n <= K THEN f[n] ELSE g[n - K]]
<1>9. /\ \A n \in 0 .. K : h[n] = f[n]
      /\ \A n \in 1 .. L : h[K + n] = g[n]
  <2>1. \A n \in 0 .. K : n \in 0 .. K + L
    BY <1>1
  <2>2. \A n \in 1 .. L : K + n \in 0 .. K + L /\ ~(K + n <= K) /\ (K + n) - K = n
    BY <1>1
  <2> QED BY <2>1, <2>2
<1> HIDE DEF h
<1>10. \A n \in 0 .. L : h[K + n] = g[n]
  <2>1. K \in 0 .. K /\ K + 0 = K
    BY <1>1
  <2>2. h[K + 0] = g[0]
    BY <1>6, <1>9, <2>1
  <2> QED BY <1>1, <1>9, <2>2
<1>11. ASSUME NEW n \in 1 .. K + L
       PROVE  h[n] = Step(kind, h[n - 1], (u \o w)[n])
  <2>1. CASE n <= K
    <3>1. n \in 1 .. K /\ n \in 0 .. K /\ n - 1 \in 0 .. K
      BY <1>1, <2>1
    <3> QED BY <1>3, <1>8, <1>9, <2>1, <3>1
  <2>2. CASE ~(n <= K)
    <3> DEFINE m == n - K
    <3>1. m \in 1 .. L /\ m - 1 \in 0 .. L /\ n = K + m /\ n - 1 = K + (m - 1)
      BY <1>1, <2>2
    <3>2. (u \o w)[n] = w[m]
      BY <1>8, <2>2
    <3> HIDE DEF m
    <3>3. h[n] = g[m] /\ h[n - 1] = g[m - 1]
      BY <1>9, <1>10, <3>1
    <3> QED BY <1>6, <3>1, <3>2, <3>3
  <2> QED BY <2>1, <2>2
<1>12. Run(kind, h[0], u \o w) = h[K + L]
  <2> DEFINE v == u \o w
  <2>1. Len(v) \in Nat /\ Len(v) = K + L
    BY <1>1, <1>8
  <2>2. \A n \in 1 .. Len(v) : h[n] = Step(kind, h[n - 1], v[n])
    BY <1>11, <2>1
  <2> HIDE DEF v
  <2>3. Run(kind, h[0], v) = h[Len(v)]
    BY <2>1, <2>2, RunIs
  <2> QED BY <2>1, <2>3 DEF v
<1>13. h[0] = s /\ h[K + L] = g[L]
  <2>1. 0 \in 0 .. K /\ L \in 0 .. L
    BY <1>1
  <2> QED BY <1>3, <1>9, <1>10, <2>1
<1> QED BY <1>4, <1>7, <1>12, <1>13
-----------------------------------------------------------------------------
(* What is flattened is put together from the left.                          *)
JoinedBy(f, ss, N) ==
  f[1] = ss[1] /\ \A n \in 2 .. N : f[n] = f[n - 1] \o ss[n]

(* FlattenSeq puts together from the left.                                   *)
LEMMA Joined ==
  ASSUME NEW ss, NEW N \in Nat \ {0}, Len(ss) = N
  PROVE  \E f : JoinedBy(f, ss, N) /\ FlattenSeq(ss) = f[N]
<1> DEFINE Rule(f) == f = [i \in 1 .. N |-> IF i = 1 THEN ss[i] ELSE f[i - 1] \o ss[i]]
<1>1. \E f : Rule(f)
  <2>1. 1 \in Nat /\ 1 <= N /\ N \in Nat
    OBVIOUS
  <2>2. PICK f : Scans("join", f, ss[1], ss, 1, N)
    BY <2>1, ScanExists
  <2>3. f = [i \in 1 .. N |-> IF i = 1 THEN ss[1] ELSE f[i - 1] \o ss[i]]
    BY <2>2 DEF Scans, Step
  <2>4. Rule(f)
    BY <2>3
  <2> QED BY <2>4
<1> DEFINE f == CHOOSE f : Rule(f)
<1>2. Rule(f)
  BY <1>1
<1>3. FlattenSeq(ss) = f[N]
  BY DEF FlattenSeq
<1> HIDE DEF f
<1>4. \A i \in 1 .. N : f[i] = IF i = 1 THEN ss[i] ELSE f[i - 1] \o ss[i]
  BY <1>2
<1>5. JoinedBy(f, ss, N)
  <2>1. f[1] = ss[1]
    BY <1>4
  <2>2. ASSUME NEW n \in 2 .. N PROVE f[n] = f[n - 1] \o ss[n]
    <3>1. n \in 1 .. N /\ n # 1
      OBVIOUS
    <3> QED BY <1>4, <3>1
  <2> QED BY <2>1, <2>2 DEF JoinedBy
<1> QED BY <1>3, <1>5

(* Texts without a line break, put together, are one.                        *)
Clean == {w \in Text : \A k \in DOMAIN w : w[k] # "\n"}

(* Two such texts make one, which starts as the first does.                  *)
LEMMA CleanConcat ==
  ASSUME NEW u \in Text, NEW w \in Text
  PROVE  /\ u \o w \in Text /\ (u \in Clean /\ w \in Clean => u \o w \in Clean)
         /\ Len(u) >= 1 => Len(u \o w) >= 1 /\ (u \o w)[1] = u[1]
<1>1. /\ Len(u) \in Nat /\ Len(w) \in Nat /\ DOMAIN u = 1 .. Len(u) /\ DOMAIN w = 1 .. Len(w)
  BY LenProperties DEF Text
<1>2. /\ u \o w \in Text /\ Len(u \o w) = Len(u) + Len(w)
      /\ \A k \in 1 .. Len(u) + Len(w) :
           (u \o w)[k] = IF k <= Len(u) THEN u[k] ELSE w[k - Len(u)]
  BY ConcatProperties DEF Text
<1>3. DOMAIN (u \o w) = 1 .. Len(u) + Len(w)
  BY <1>2, LenProperties DEF Text
<1>4. ASSUME u \in Clean, w \in Clean, NEW k \in 1 .. Len(u) + Len(w)
      PROVE  (u \o w)[k] # "\n"
  <2>1. CASE k <= Len(u)
    <3>1. k \in DOMAIN u /\ (u \o w)[k] = u[k]
      BY <1>1, <1>2, <2>1
    <3> QED BY <1>4, <3>1 DEF Clean
  <2>2. CASE ~(k <= Len(u))
    <3>1. k - Len(u) \in DOMAIN w /\ (u \o w)[k] = w[k - Len(u)]
      BY <1>1, <1>2, <2>2
    <3> QED BY <1>4, <3>1 DEF Clean
  <2> QED BY <2>1, <2>2
<1>5. Len(u) >= 1 => Len(u \o w) >= 1 /\ (u \o w)[1] = u[1]
  BY <1>1, <1>2
<1>6. u \in Clean /\ w \in Clean => u \o w \in Clean
  BY <1>2, <1>3, <1>4 DEF Clean
<1> QED BY <1>2, <1>5, <1>6

(* A character is a text.                                                    *)
LEMMA OneIsText ==
  ASSUME NEW c \in Alphabet
  PROVE  /\ <<c>> \in Text /\ Len(<<c>>) = 1 /\ <<c>>[1] = c
         /\ c # "\n" => <<c>> \in Clean
  BY DEF Text, Clean

(* So do any number of them.                                                 *)
LEMMA FlattenClean ==
  ASSUME NEW N \in Nat \ {0}, NEW ss \in [1 .. N -> Text]
  PROVE  /\ FlattenSeq(ss) \in Text
         /\ (\A k \in 1 .. N : ss[k] \in Clean) => FlattenSeq(ss) \in Clean
         /\ Len(ss[1]) >= 1 => Len(FlattenSeq(ss)) >= 1 /\ FlattenSeq(ss)[1] = ss[1][1]
<1>1. Len(ss) = N
  OBVIOUS
<1>2. PICK f : JoinedBy(f, ss, N) /\ FlattenSeq(ss) = f[N]
  BY <1>1, Joined
<1> DEFINE T == {n \in 1 .. N :
                   /\ f[n] \in Text
                   /\ (\A k \in 1 .. N : ss[k] \in Clean) => f[n] \in Clean
                   /\ Len(ss[1]) >= 1 => Len(f[n]) >= 1 /\ f[n][1] = ss[1][1]}
<1>3. 1 \in T
  BY <1>2 DEF JoinedBy
<1>4. ASSUME NEW n \in 1 .. N - 1, n \in T PROVE n + 1 \in T
  <2>0. n + 1 \in 1 .. N /\ n + 1 \in 2 .. N /\ (n + 1) - 1 = n
    OBVIOUS
  <2>1. f[n + 1] = f[n] \o ss[n + 1] /\ n + 1 \in 1 .. N
    BY <1>2, <2>0 DEF JoinedBy
  <2>2. f[n] \in Text /\ ss[n + 1] \in Text
    BY <1>4, <2>1
  <2>3. /\ f[n + 1] \in Text /\ (f[n] \in Clean /\ ss[n + 1] \in Clean => f[n + 1] \in Clean)
        /\ Len(f[n]) >= 1 => Len(f[n + 1]) >= 1 /\ f[n + 1][1] = f[n][1]
    <3> DEFINE u == f[n]  w == ss[n + 1]
    <3>1. u \in Text /\ w \in Text /\ f[n + 1] = u \o w
      BY <2>1, <2>2
    <3> HIDE DEF u, w
    <3>2. /\ u \o w \in Text /\ (u \in Clean /\ w \in Clean => u \o w \in Clean)
          /\ Len(u) >= 1 => Len(u \o w) >= 1 /\ (u \o w)[1] = u[1]
      BY <3>1, CleanConcat
    <3> QED BY <3>1, <3>2 DEF u, w
  <2>4. /\ (\A k \in 1 .. N : ss[k] \in Clean) => f[n + 1] \in Clean
        /\ Len(ss[1]) >= 1 => Len(f[n + 1]) >= 1 /\ f[n + 1][1] = ss[1][1]
    BY <1>4, <2>1, <2>3
  <2> QED BY <2>1, <2>3, <2>4
<1> HIDE DEF T
<1>5. N \in T
  <2>1. \A n \in 1 .. N : n \in T
    BY <1>3, <1>4, Along
  <2> QED BY <2>1
<1> QED BY <1>2, <1>5 DEF T

(* join puts a separator before every part but the first.                    *)
LEMMA JoinClean ==
  ASSUME NEW N \in Nat \ {0}, NEW ps \in [1 .. N -> Text], NEW c \in Alphabet
  PROVE  /\ JoinWith(c, ps) \in Text
         /\ c # "\n" /\ (\A k \in 1 .. N : ps[k] \in Clean) => JoinWith(c, ps) \in Clean
         /\ Len(ps[1]) >= 1 => Len(JoinWith(c, ps)) >= 1 /\ JoinWith(c, ps)[1] = ps[1][1]
<1> DEFINE ss == [k \in 1 .. N |-> IF k = 1 THEN ps[k] ELSE <<c>> \o ps[k]]
<1>1. JoinWith(c, ps) = FlattenSeq(ss)
  BY DEF JoinWith
<1>2. ASSUME NEW k \in 1 .. N
      PROVE  ss[k] \in Text /\ (c # "\n" /\ ps[k] \in Clean => ss[k] \in Clean)
  <2>1. <<c>> \in Text /\ (c # "\n" => <<c>> \in Clean) /\ ps[k] \in Text
    BY OneIsText
  <2>2. <<c>> \o ps[k] \in Text /\ (<<c>> \in Clean /\ ps[k] \in Clean => <<c>> \o ps[k] \in Clean)
    BY <2>1, CleanConcat
  <2> QED BY <2>1, <2>2
<1>3. ss[1] = ps[1] /\ ss = [k \in 1 .. N |-> ss[k]]
  OBVIOUS
<1> HIDE DEF ss
<1>4. ss \in [1 .. N -> Text]
  BY <1>2, <1>3
<1> QED BY <1>1, <1>2, <1>3, <1>4, FlattenClean
-----------------------------------------------------------------------------
(* The two readers of the source, as runs.                                   *)
Blank == [fields |-> <<>>, current |-> <<>>, mode |-> "plain"]
Begin == [lines |-> <<>>, current |-> <<>>]

(* splitCsvLine is such a scan.                                              *)
LEMMA SplitIsRun ==
  ASSUME NEW line \in Text
  PROVE  SplitCsvLine(line) = Append(Run("fields", Blank, line).fields,
                                     Trim(Run("fields", Blank, line).current))
<1> DEFINE L == Len(line)
           Rule(f) == f = [n \in 0 .. L |-> IF n = 0 THEN Blank
                                            ELSE SplitStep(f[n - 1], line[n])]
           f == CHOOSE f : Rule(f)
<1>1. L \in Nat /\ 0 \in Nat /\ 0 <= L
  BY LenProperties DEF Text
<1>2. \E g : Rule(g)
  <2> HIDE DEF L
  <2>1. PICK g : Scans("fields", g, Blank, line, 0, L)
    BY <1>1, ScanExists
  <2>2. Rule(g)
    BY <2>1 DEF Scans, Step
  <2> QED BY <2>2
<1>3. Rule(f)
  BY <1>2
<1>4. SplitCsvLine(line) = Append(f[L].fields, Trim(f[L].current))
  BY DEF SplitCsvLine, Blank
<1> HIDE DEF f
<1>5. f[0] = Blank /\ \A n \in 1 .. L : f[n] = SplitStep(f[n - 1], line[n])
  <2>1. \A n \in 0 .. L : f[n] = IF n = 0 THEN Blank ELSE SplitStep(f[n - 1], line[n])
    BY <1>3
  <2> QED BY <1>1, <2>1
<1>6. \A n \in 1 .. L : f[n] = Step("fields", f[n - 1], line[n])
  BY <1>5 DEF Step
<1>7. Run("fields", f[0], line) = f[L]
  BY <1>1, <1>6, RunIs
<1> QED BY <1>4, <1>5, <1>7

(* The cut into lines is such a scan.                                        *)
LEMMA LinesIsRun ==
  ASSUME NEW text \in Text
  PROVE  Lines(text) = Run("lines", Begin, text).lines
                         \o Inked(Run("lines", Begin, text).current)
<1> DEFINE L == Len(text)
           Rule(f) == f = [n \in 0 .. L |-> IF n = 0 THEN Begin
                                            ELSE LineStep(f[n - 1], text[n])]
           f == CHOOSE f : Rule(f)
<1>1. L \in Nat /\ 0 \in Nat /\ 0 <= L
  BY LenProperties DEF Text
<1>2. \E g : Rule(g)
  <2> HIDE DEF L
  <2>1. PICK g : Scans("lines", g, Begin, text, 0, L)
    BY <1>1, ScanExists
  <2>2. Rule(g)
    BY <2>1 DEF Scans, Step
  <2> QED BY <2>2
<1>3. Rule(f)
  BY <1>2
<1>4. Lines(text) = f[L].lines \o Inked(f[L].current)
  BY DEF Lines, Begin
<1> HIDE DEF f
<1>5. f[0] = Begin /\ \A n \in 1 .. L : f[n] = LineStep(f[n - 1], text[n])
  <2>1. \A n \in 0 .. L : f[n] = IF n = 0 THEN Begin ELSE LineStep(f[n - 1], text[n])
    BY <1>3
  <2> QED BY <1>1, <2>1
<1>6. \A n \in 1 .. L : f[n] = Step("lines", f[n - 1], text[n])
  BY <1>5 DEF Step
<1>7. Run("lines", f[0], text) = f[L]
  BY <1>1, <1>6, RunIs
<1> QED BY <1>4, <1>5, <1>7

(* A text is what comes before its last character, and that character.       *)
LEMMA Beginnings ==
  ASSUME NEW t \in Text
  PROVE  /\ Len(t) \in Nat /\ DOMAIN t = 1 .. Len(t) /\ \A n \in 1 .. Len(t) : t[n] \in Alphabet
         /\ SubSeq(t, 1, 0) = <<>> /\ SubSeq(t, 1, Len(t)) = t
         /\ \A n \in 0 .. Len(t) : SubSeq(t, 1, n) \in Text
         /\ \A n \in 1 .. Len(t) : SubSeq(t, 1, n) = Append(SubSeq(t, 1, n - 1), t[n])
<1>1. Len(t) \in Nat /\ DOMAIN t = 1 .. Len(t) /\ t \in Seq(Alphabet)
  BY LenProperties DEF Text
<1>2. \A n \in 1 .. Len(t) : t[n] \in Alphabet
  BY <1>1, ElementOfSeq
<1>3. SubSeq(t, 1, 0) = <<>>
  BY SubSeqEmpty
<1>4. SubSeq(t, 1, Len(t)) = t
  BY <1>1, SubSeqFull
<1>5. ASSUME NEW n \in 0 .. Len(t) PROVE SubSeq(t, 1, n) \in Text
  <2>1. 1 \in Int /\ n \in Int /\ \A i \in 1 .. n : t[i] \in Alphabet
    BY <1>1, <1>2
  <2> QED BY <2>1, SubSeqProperties DEF Text
<1>6. ASSUME NEW n \in 1 .. Len(t)
      PROVE  SubSeq(t, 1, n) = Append(SubSeq(t, 1, n - 1), t[n])
  <2>1. 1 \in 1 .. Len(t) /\ n \in 1 .. Len(t) /\ n - 1 \in 0 .. Len(t)
    BY <1>1
  <2>2. SubSeq(t, 1, n) = SubSeq(t, 1, n - 1) \o <<t[n]>>
    BY <1>1, <2>1, SubSeqRecursiveSecond
  <2>3. SubSeq(t, 1, n - 1) \in Seq(Alphabet)
    BY <1>5, <2>1 DEF Text
  <2>4. Append(SubSeq(t, 1, n - 1), t[n]) = SubSeq(t, 1, n - 1) \o <<t[n]>>
    BY <1>2, <2>3, AppendIsConcat
  <2> QED BY <2>2, <2>4
<1> QED BY <1>1, <1>2, <1>3, <1>4, <1>5, <1>6
-----------------------------------------------------------------------------
(* What splitCsvLine does at a character.                                    *)
After(fields, current, mode) == [fields |-> fields, current |-> current, mode |-> mode]

(* A plain character outside quotes is kept.                                 *)
LEMMA PlainStep ==
  ASSUME NEW F, NEW c, NEW x, x # "\"", x # ","
  PROVE  Step("fields", After(F, c, "plain"), x) = After(F, Append(c, x), "plain")
  BY DEF Step, After, SplitStep

(* Inside quotes every character but the quote is kept.                      *)
LEMMA QuotedStep ==
  ASSUME NEW F, NEW c, NEW x, x # "\""
  PROVE  Step("fields", After(F, c, "quoted"), x) = After(F, Append(c, x), "quoted")
  BY DEF Step, After, SplitStep

(* A quote opens or ends the quoted part; a second one is kept.              *)
LEMMA QuoteSteps ==
  ASSUME NEW F, NEW c
  PROVE  /\ Step("fields", After(F, c, "quoted"), "\"") = After(F, c, "quote")
         /\ Step("fields", After(F, c, "quote"), "\"") = After(F, Append(c, "\""), "quoted")
         /\ Step("fields", After(F, c, "plain"), "\"") = After(F, c, "quoted")
  BY DEF Step, After, SplitStep

(* A comma outside quotes ends the field.                                    *)
LEMMA CommaStep ==
  ASSUME NEW F, NEW c, NEW m \in {"plain", "quote"}
  PROVE  Step("fields", After(F, c, m), ",") = After(Append(F, Trim(c)), <<>>, "plain")
<1>1. "\"" # ","
  OBVIOUS
<1> QED BY <1>1 DEF Step, After, SplitStep

(* A field is read as it was before it was escaped.                          *)
Special == {",", "\"", "\n"}

(* A text without special characters is written, and read, as it is.         *)
LEMMA PlainField ==
  ASSUME NEW t \in Text, NEW F, \A k \in DOMAIN t : t[k] \notin Special
  PROVE  /\ EscapeField(t) = t
         /\ Run("fields", After(F, <<>>, "plain"), t) = After(F, t, "plain")
<1>1. EscapeField(t) = t
  BY DEF EscapeField, Special
<1> DEFINE L == Len(t)
           f == [n \in 0 .. L |-> After(F, SubSeq(t, 1, n), "plain")]
<1>2. L \in Nat /\ f[0] = After(F, <<>>, "plain") /\ f[L] = After(F, t, "plain")
  <2>1. L \in Nat /\ SubSeq(t, 1, 0) = <<>> /\ SubSeq(t, 1, L) = t
    BY Beginnings
  <2>2. 0 \in 0 .. L /\ L \in 0 .. L
    BY <2>1
  <2>3. f[0] = After(F, SubSeq(t, 1, 0), "plain") /\ f[L] = After(F, SubSeq(t, 1, L), "plain")
    BY <2>2
  <2> QED BY <2>1, <2>3
<1>3. ASSUME NEW n \in 1 .. L PROVE f[n] = Step("fields", f[n - 1], t[n])
  <2>1. n \in 0 .. L /\ n - 1 \in 0 .. L /\ n \in DOMAIN t
    BY <1>2, Beginnings
  <2>2. /\ f[n] = After(F, SubSeq(t, 1, n), "plain")
        /\ f[n - 1] = After(F, SubSeq(t, 1, n - 1), "plain")
    BY <2>1
  <2>3. SubSeq(t, 1, n) = Append(SubSeq(t, 1, n - 1), t[n])
    BY Beginnings
  <2>4. t[n] \notin {"\"", ","}
    BY <2>1 DEF Special
  <2>5. Step("fields", After(F, SubSeq(t, 1, n - 1), "plain"), t[n])
          = After(F, Append(SubSeq(t, 1, n - 1), t[n]), "plain")
    <3> DEFINE c == SubSeq(t, 1, n - 1)  x == t[n]
    <3>1. x # "\"" /\ x # ","
      BY <2>4
    <3> HIDE DEF c, x
    <3>2. Step("fields", After(F, c, "plain"), x) = After(F, Append(c, x), "plain")
      BY <3>1, PlainStep
    <3> QED BY <3>2 DEF c, x
  <2> HIDE DEF f
  <2> QED BY <2>2, <2>3, <2>5
<1> HIDE DEF f
<1>4. Run("fields", f[0], t) = f[L]
  BY <1>2, <1>3, RunIs
<1> QED BY <1>1, <1>2, <1>4

Twice(x) == IF x = "\"" THEN <<"\"", "\"">> ELSE <<x>>

(* Two texts of one character make one of two.                               *)
LEMMA TwoCharacters ==
  ASSUME NEW S, NEW a \in S, NEW b \in S
  PROVE  <<a>> \o <<b>> = <<a, b>>
<1> DEFINE u == <<a>>  v == <<b>>  w == <<a, b>>
<1>1. /\ u \in Seq(S) /\ v \in Seq(S) /\ w \in Seq(S)
      /\ Len(u) = 1 /\ Len(v) = 1 /\ Len(w) = 2
      /\ u[1] = a /\ v[1] = b /\ w[1] = a /\ w[2] = b
  OBVIOUS
<1> HIDE DEF u, v, w
<1>2. /\ u \o v \in Seq(S) /\ Len(u \o v) = 1 + 1
      /\ \A i \in 1 .. 1 + 1 : (u \o v)[i] = IF i <= 1 THEN u[i] ELSE v[i - 1]
  BY <1>1, ConcatProperties
<1>3. \A i \in 1 .. Len(u \o v) : (u \o v)[i] = w[i]
  BY <1>1, <1>2
<1>4. u \o v = w
  BY <1>1, <1>2, <1>3, SeqEqual
<1> QED BY <1>4 DEF u, v, w

(* A character that is written in quotes is read back, a doubled quote once. *)
LEMMA TwiceRun ==
  ASSUME NEW F, NEW c, NEW x \in Alphabet
  PROVE  /\ Twice(x) \in Text /\ (x # "\n" => Twice(x) \in Clean)
         /\ Run("fields", After(F, c, "quoted"), Twice(x)) = After(F, Append(c, x), "quoted")
<1>1. CASE x # "\""
  <2>1. Twice(x) = <<x>>
    BY <1>1 DEF Twice
  <2>2. Run("fields", After(F, c, "quoted"), <<x>>) = Step("fields", After(F, c, "quoted"), x)
    BY RunOne
  <2>3. Step("fields", After(F, c, "quoted"), x) = After(F, Append(c, x), "quoted")
    BY <1>1, QuotedStep
  <2> QED BY <2>1, <2>2, <2>3, OneIsText
<1>2. CASE x = "\""
  <2> DEFINE q == <<"\"">>
  <2>1. "\"" \in Alphabet /\ "\"" # "\n"
    BY DEF Alphabet
  <2>2. q \in Text /\ q \in Clean
    BY <2>1, OneIsText
  <2>3. Twice(x) = q \o q
    BY <1>2, TwoCharacters DEF Twice
  <2>4. Run("fields", After(F, c, "quoted"), q) = After(F, c, "quote")
    <3>1. Run("fields", After(F, c, "quoted"), q) = Step("fields", After(F, c, "quoted"), "\"")
      BY RunOne
    <3> QED BY <3>1, QuoteSteps
  <2>5. Run("fields", After(F, c, "quote"), q) = After(F, Append(c, "\""), "quoted")
    <3>1. Run("fields", After(F, c, "quote"), q) = Step("fields", After(F, c, "quote"), "\"")
      BY RunOne
    <3> QED BY <3>1, QuoteSteps
  <2> HIDE DEF q
  <2>6. Run("fields", After(F, c, "quoted"), q \o q)
          = Run("fields", Run("fields", After(F, c, "quoted"), q), q)
    BY <2>2, RunConcat
  <2>7. q \o q \in Text /\ q \o q \in Clean
    BY <2>2, CleanConcat
  <2> QED BY <1>2, <2>3, <2>4, <2>5, <2>6, <2>7
<1> QED BY <1>1, <1>2

(* A text with a special character is quoted, and read back.                 *)
LEMMA QuotedField ==
  ASSUME NEW t \in Text, NEW F, NEW i \in DOMAIN t, t[i] \in Special
  PROVE  /\ EscapeField(t) \in Text /\ (t \in Clean => EscapeField(t) \in Clean)
         /\ Run("fields", After(F, <<>>, "plain"), EscapeField(t)) = After(F, t, "quote")
<1> DEFINE L == Len(t)
           dd == [k \in 1 .. L |-> Twice(t[k])]
           D == FlattenSeq(dd)
           q == <<"\"">>
<1>1. /\ L \in Nat \ {0} /\ DOMAIN t = 1 .. L /\ \A n \in 1 .. L : t[n] \in Alphabet
      /\ SubSeq(t, 1, 0) = <<>> /\ SubSeq(t, 1, L) = t
      /\ \A n \in 1 .. L : SubSeq(t, 1, n) = Append(SubSeq(t, 1, n - 1), t[n])
  BY Beginnings
<1>2. EscapeField(t) = (q \o D) \o q
  <2>1. \E k \in DOMAIN t : t[k] \in {",", "\"", "\n"}
    BY DEF Special
  <2>2. dd = [k \in DOMAIN t |-> IF t[k] = "\"" THEN <<"\"", "\"">> ELSE <<t[k]>>]
    BY <1>1 DEF Twice
  <2> QED BY <2>1, <2>2 DEF EscapeField
<1>3. q \in Text /\ q \in Clean
  <2>1. "\"" \in Alphabet /\ "\"" # "\n"
    BY DEF Alphabet
  <2> QED BY <2>1, OneIsText
<1>4. \A k \in 1 .. L : dd[k] = Twice(t[k])
  OBVIOUS
<1>5. Len(dd) = L /\ dd = [k \in 1 .. L |-> dd[k]]
  BY <1>1
<1> HIDE DEF dd, q, L
<1>6. dd \in [1 .. L -> Text]
  BY <1>1, <1>4, <1>5, TwiceRun
<1>7. D \in Text /\ (t \in Clean => D \in Clean)
  <2>1. D \in Text /\ ((\A k \in 1 .. L : dd[k] \in Clean) => D \in Clean)
    BY <1>1, <1>6, FlattenClean
  <2>2. ASSUME t \in Clean, NEW k \in 1 .. L PROVE dd[k] \in Clean
    <3>1. t[k] # "\n" /\ t[k] \in Alphabet
      BY <1>1, <2>2 DEF Clean
    <3> QED BY <1>4, <3>1, TwiceRun
  <2> QED BY <2>1, <2>2
<1>8. Run("fields", After(F, <<>>, "quoted"), D) = After(F, t, "quoted")
  <2>1. PICK f : JoinedBy(f, dd, L) /\ D = f[L]
    BY <1>1, <1>5, Joined
  <2> DEFINE T == {n \in 1 .. L :
                     /\ f[n] \in Text
                     /\ Run("fields", After(F, <<>>, "quoted"), f[n])
                          = After(F, SubSeq(t, 1, n), "quoted")}
  <2>2. 1 \in T
    <3>1. f[1] = dd[1] /\ 1 \in 1 .. L /\ 1 - 1 = 0
      BY <1>1, <2>1 DEF JoinedBy
    <3>2. dd[1] = Twice(t[1]) /\ t[1] \in Alphabet /\ SubSeq(t, 1, 1) = Append(<<>>, t[1])
      BY <1>1, <1>4, <3>1
    <3>3. /\ Twice(t[1]) \in Text
          /\ Run("fields", After(F, <<>>, "quoted"), Twice(t[1]))
               = After(F, Append(<<>>, t[1]), "quoted")
      BY <3>2, TwiceRun
    <3> QED BY <3>1, <3>2, <3>3
  <2>3. ASSUME NEW n \in 1 .. L - 1, n \in T PROVE n + 1 \in T
    <3>1. n + 1 \in 1 .. L /\ n + 1 \in 2 .. L /\ (n + 1) - 1 = n
      BY <1>1
    <3>2. f[n + 1] = f[n] \o dd[n + 1] /\ dd[n + 1] = Twice(t[n + 1])
      BY <1>4, <2>1, <3>1 DEF JoinedBy
    <3>3. t[n + 1] \in Alphabet /\ SubSeq(t, 1, n + 1) = Append(SubSeq(t, 1, n), t[n + 1])
      BY <1>1, <3>1
    <3> DEFINE u == f[n]  w == dd[n + 1]  c == SubSeq(t, 1, n)  x == t[n + 1]
    <3>4. /\ u \in Text
          /\ Run("fields", After(F, <<>>, "quoted"), u) = After(F, c, "quoted")
      BY <2>3
    <3>5. w = Twice(x) /\ x \in Alphabet
      BY <3>2, <3>3
    <3> HIDE DEF u, w, c, x
    <3>6. w \in Text /\ Run("fields", After(F, c, "quoted"), w) = After(F, Append(c, x), "quoted")
      BY <3>5, TwiceRun
    <3>7. Run("fields", After(F, <<>>, "quoted"), u \o w) = After(F, Append(c, x), "quoted")
      BY <3>4, <3>6, RunConcat
    <3>8. u \o w \in Text
      BY <3>4, <3>6, CleanConcat
    <3>9. f[n + 1] = u \o w /\ SubSeq(t, 1, n + 1) = Append(c, x)
      BY <3>2, <3>3 DEF u, w, c, x
    <3> QED BY <3>1, <3>7, <3>8, <3>9
  <2> HIDE DEF T
  <2>4. L \in T
    <3>1. \A n \in 1 .. L : n \in T
      BY <1>1, <2>2, <2>3, Along
    <3> QED BY <1>1, <3>1
  <2> QED BY <1>1, <2>1, <2>4 DEF T
<1> HIDE DEF D
<1>9. /\ q \o D \in Text /\ (q \o D) \o q \in Text
      /\ t \in Clean => (q \o D) \o q \in Clean
  BY <1>3, <1>7, CleanConcat
<1>10. Run("fields", After(F, <<>>, "plain"), (q \o D) \o q) = After(F, t, "quote")
  <2>1. Run("fields", After(F, <<>>, "plain"), q) = After(F, <<>>, "quoted")
    <3>1. Run("fields", After(F, <<>>, "plain"), q) = Step("fields", After(F, <<>>, "plain"), "\"")
      BY RunOne DEF q
    <3> QED BY <3>1, QuoteSteps
  <2>2. Run("fields", After(F, t, "quoted"), q) = After(F, t, "quote")
    <3>1. Run("fields", After(F, t, "quoted"), q) = Step("fields", After(F, t, "quoted"), "\"")
      BY RunOne DEF q
    <3> QED BY <3>1, QuoteSteps
  <2>3. Run("fields", After(F, <<>>, "plain"), q \o D) = After(F, t, "quoted")
    BY <1>3, <1>7, <1>8, <2>1, RunConcat
  <2> QED BY <1>3, <1>9, <2>2, <2>3, RunConcat
<1> QED BY <1>2, <1>9, <1>10

(* An escaped field is read back, whatever it holds.                         *)
LEMMA FieldRun ==
  ASSUME NEW t \in Text, NEW F
  PROVE  /\ EscapeField(t) \in Text /\ (t \in Clean => EscapeField(t) \in Clean)
         /\ \E m \in {"plain", "quote"} :
              Run("fields", After(F, <<>>, "plain"), EscapeField(t)) = After(F, t, m)
<1>1. CASE \A k \in DOMAIN t : t[k] \notin Special
  BY <1>1, PlainField
<1>2. CASE ~ \A k \in DOMAIN t : t[k] \notin Special
  <2>1. PICK i \in DOMAIN t : t[i] \in Special
    BY <1>2
  <2> QED BY <2>1, QuotedField
<1> QED BY <1>1, <1>2

-----------------------------------------------------------------------------
(* The first n of a list.                                                    *)
FirstOnes(g, n) == [j \in 1 .. n |-> g[j]]

(* The first n of a list are the first n - 1 and one more.                   *)
LEMMA FrontGrows ==
  ASSUME NEW g, NEW n \in Nat \ {0}
  PROVE  /\ Append(FirstOnes(g, n - 1), g[n]) = FirstOnes(g, n)
         /\ FirstOnes(g, n - 1) \o <<g[n]>> = FirstOnes(g, n)
         /\ FirstOnes(g, 0) = <<>>
<1> DEFINE S == {g[j] : j \in 1 .. n}
           u == FirstOnes(g, n - 1)
           w == FirstOnes(g, n)
<1>1. u \in [1 .. n - 1 -> S] /\ w \in [1 .. n -> S] /\ g[n] \in S /\ n - 1 \in Nat
  BY DEF FirstOnes
<1>2. /\ \A j \in 1 .. n - 1 : u[j] = g[j]
      /\ \A j \in 1 .. n : w[j] = g[j]
  BY DEF FirstOnes
<1> HIDE DEF S, u, w
<1>3. u \in Seq(S) /\ Len(u) = n - 1 /\ w \in Seq(S) /\ Len(w) = n
  BY <1>1, FunctionIsSequence
<1>4. /\ Append(u, g[n]) \in Seq(S) /\ Len(Append(u, g[n])) = n
      /\ \A j \in 1 .. n - 1 : Append(u, g[n])[j] = u[j]
      /\ Append(u, g[n])[n] = g[n]
  <2>1. Len(u) + 1 = n
    BY <1>3
  <2> QED BY <1>1, <1>3, <2>1, AppendProperties
<1>5. \A j \in 1 .. n : Append(u, g[n])[j] = w[j]
  <2>1. \A j \in 1 .. n : j \in 1 .. n - 1 \/ j = n
    OBVIOUS
  <2> QED BY <1>2, <1>4, <2>1
<1>6. Append(u, g[n]) = w
  BY <1>3, <1>4, <1>5, SeqEqual
<1>7. Append(u, g[n]) = u \o <<g[n]>>
  BY <1>1, <1>3, AppendIsConcat
<1>8. FirstOnes(g, 0) = <<>>
  BY DEF FirstOnes
<1> QED BY <1>6, <1>7, <1>8 DEF u, w

(* A row of escaped fields is read as these fields, trimmed.                 *)
LEMMA RowRun ==
  ASSUME NEW N \in Nat \ {0}, NEW c \in [1 .. N -> Text]
  PROVE  LET line == JoinWith(",", [k \in 1 .. N |-> EscapeField(c[k])]) IN
         line \in Text /\ SplitCsvLine(line) = [k \in 1 .. N |-> Trim(c[k])]
<1> DEFINE ps == [k \in 1 .. N |-> EscapeField(c[k])]
           ss == [k \in 1 .. N |-> IF k = 1 THEN ps[k] ELSE <<",">> \o ps[k]]
           line == JoinWith(",", ps)
           g == [k \in 1 .. N |-> Trim(c[k])]
<1>0. 1 \in 1 .. N /\ N \in 1 .. N
  OBVIOUS
<1>1. line = FlattenSeq(ss) /\ Len(ss) = N
  BY DEF JoinWith
<1>2. \A k \in 1 .. N : ps[k] = EscapeField(c[k]) /\ g[k] = Trim(c[k]) /\ c[k] \in Text
  OBVIOUS
<1>14. FirstOnes(g, N) = g
  BY DEF FirstOnes
<1>15. ps = [k \in 1 .. N |-> ps[k]]
  BY <1>2
<1>16. ss[1] = ps[1] /\ \A k \in 2 .. N : ss[k] = <<",">> \o ps[k]
  <2> HIDE DEF ps
  <2>1. ss[1] = ps[1]
    BY <1>0
  <2>2. ASSUME NEW k \in 2 .. N PROVE ss[k] = <<",">> \o ps[k]
    <3>1. k \in 1 .. N /\ k # 1
      OBVIOUS
    <3> QED BY <3>1
  <2> QED BY <2>1, <2>2
<1> HIDE DEF ps, ss, g
<1>3. \A k \in 1 .. N : ps[k] \in Text
  BY <1>2, FieldRun
<1>4. <<",">> \in Text /\ "," \in Alphabet
  <2>1. "," \in Alphabet
    BY DEF Alphabet
  <2> QED BY <2>1, OneIsText
<1>5. line \in Text
  <2>1. ps \in [1 .. N -> Text]
    BY <1>3, <1>15
  <2> QED BY <1>4, <2>1, JoinClean
<1>6. PICK f : JoinedBy(f, ss, N) /\ line = f[N]
  BY <1>1, Joined
<1> DEFINE T == {n \in 1 .. N :
                   /\ f[n] \in Text
                   /\ \E m \in {"plain", "quote"} :
                        Run("fields", Blank, f[n]) = After(FirstOnes(g, n - 1), c[n], m)}
<1>7. 1 \in T
  <2>1. f[1] = ps[1] /\ ps[1] = EscapeField(c[1]) /\ c[1] \in Text /\ 1 - 1 = 0 /\ f[1] \in Text
    <3> HIDE DEF line, T
    <3>1. f[1] = ss[1]
      BY <1>6 DEF JoinedBy
    <3>2. ps[1] = EscapeField(c[1]) /\ c[1] \in Text
      BY <1>0, <1>2
    <3>3. ps[1] \in Text
      BY <1>0, <1>3
    <3>4. f[1] = ps[1]
      BY <1>16, <3>1
    <3> QED BY <3>2, <3>3, <3>4
  <2>2. Blank = After(FirstOnes(g, 0), <<>>, "plain")
    BY FrontGrows DEF Blank, After
  <2>3. \E m \in {"plain", "quote"} :
          Run("fields", After(FirstOnes(g, 0), <<>>, "plain"), EscapeField(c[1]))
            = After(FirstOnes(g, 0), c[1], m)
    BY <2>1, FieldRun
  <2> QED BY <2>1, <2>2, <2>3
<1>8. ASSUME NEW n \in 1 .. N - 1, n \in T PROVE n + 1 \in T
  <2>1. n + 1 \in 1 .. N /\ n + 1 \in 2 .. N /\ (n + 1) - 1 = n /\ n \in Nat \ {0} /\ n \in 1 .. N
    OBVIOUS
  <2>2. f[n + 1] = f[n] \o (<<",">> \o ps[n + 1]) /\ ps[n + 1] = EscapeField(c[n + 1])
    BY <1>2, <1>6, <1>16, <2>1 DEF JoinedBy
  <2>3. PICK m \in {"plain", "quote"} :
          Run("fields", Blank, f[n]) = After(FirstOnes(g, n - 1), c[n], m)
    BY <1>8
  <2>4. f[n] \in Text
    BY <1>8
  <2> HIDE DEF T
  <2>5. Step("fields", After(FirstOnes(g, n - 1), c[n], m), ",") = After(FirstOnes(g, n), <<>>, "plain")
    <3>1. Step("fields", After(FirstOnes(g, n - 1), c[n], m), ",")
            = After(Append(FirstOnes(g, n - 1), Trim(c[n])), <<>>, "plain")
      BY CommaStep
    <3>2. Append(FirstOnes(g, n - 1), Trim(c[n])) = FirstOnes(g, n)
      BY <1>2, <2>1, FrontGrows
    <3> QED BY <3>1, <3>2
  <2> DEFINE u == f[n]  w == ps[n + 1]
  <2>6. u \in Text /\ w \in Text /\ c[n + 1] \in Text /\ w = EscapeField(c[n + 1])
    BY <1>2, <1>3, <2>1, <2>2, <2>4
  <2>7. f[n + 1] = u \o (<<",">> \o w) /\ Run("fields", Blank, u) = After(FirstOnes(g, n - 1), c[n], m)
    BY <2>2, <2>3
  <2> HIDE DEF u, w
  <2>8. <<",">> \o w \in Text /\ u \o (<<",">> \o w) \in Text
    BY <1>4, <2>6, CleanConcat
  <2>9. Run("fields", Blank, u \o (<<",">> \o w))
          = Run("fields", After(FirstOnes(g, n), <<>>, "plain"), w)
    <3> DEFINE q == <<",">>
               s == After(FirstOnes(g, n - 1), c[n], m)
               r == After(FirstOnes(g, n), <<>>, "plain")
    <3>1. q \in Text /\ q \o w \in Text /\ Run("fields", Blank, u) = s
      BY <1>4, <2>7, <2>8
    <3>2. Run("fields", s, q) = r
      BY <2>5, RunOne
    <3> HIDE DEF q, s, r
    <3>3. Run("fields", s, q \o w) = Run("fields", Run("fields", s, q), w)
      BY <2>6, <3>1, RunConcat
    <3>4. Run("fields", Blank, u \o (q \o w)) = Run("fields", Run("fields", Blank, u), q \o w)
      BY <2>6, <3>1, RunConcat
    <3>5. Run("fields", Blank, u \o (q \o w)) = Run("fields", r, w)
      BY <3>1, <3>2, <3>3, <3>4
    <3> QED BY <3>5 DEF q, r
  <2>10. \E k \in {"plain", "quote"} :
           Run("fields", After(FirstOnes(g, n), <<>>, "plain"), w) = After(FirstOnes(g, n), c[n + 1], k)
    BY <2>6, FieldRun
  <2>11. /\ f[n + 1] \in Text
         /\ \E k \in {"plain", "quote"} :
              Run("fields", Blank, f[n + 1]) = After(FirstOnes(g, (n + 1) - 1), c[n + 1], k)
    BY <2>1, <2>7, <2>8, <2>9, <2>10
  <2> QED BY <2>1, <2>11 DEF T
<1> HIDE DEF T
<1>9. N \in T
  <2>1. \A n \in 1 .. N : n \in T
    BY <1>7, <1>8, Along
  <2> QED BY <2>1
<1>10. PICK m \in {"plain", "quote"} : Run("fields", Blank, line) = After(FirstOnes(g, N - 1), c[N], m)
  BY <1>6, <1>9 DEF T
<1>11. SplitCsvLine(line) = Append(FirstOnes(g, N - 1), Trim(c[N]))
  <2>1. SplitCsvLine(line) = Append(Run("fields", Blank, line).fields,
                                    Trim(Run("fields", Blank, line).current))
    BY <1>5, SplitIsRun
  <2> HIDE DEF line
  <2> QED BY <1>10, <2>1 DEF After
<1>12. Append(FirstOnes(g, N - 1), g[N]) = g /\ g[N] = Trim(c[N])
  BY <1>0, <1>2, <1>14, FrontGrows
<1>13. line \in Text /\ SplitCsvLine(line) = g
  <2> HIDE DEF line
  <2> QED BY <1>5, <1>11, <1>12
<1> QED BY <1>13 DEF line, ps, g
-----------------------------------------------------------------------------
(* The cut into lines: a line is kept whole.                                 *)
Reading(lines, current) == [lines |-> lines, current |-> current]

(* A line grows until its break, and is kept if there is ink on it.          *)
LEMMA LineSteps ==
  ASSUME NEW F, NEW c, NEW x
  PROVE  /\ x # "\n" => Step("lines", Reading(F, c), x) = Reading(F, Append(c, x))
         /\ Step("lines", Reading(F, c), "\n") = Reading(F \o Inked(c), <<>>)
<1>1. "lines" # "join" /\ "lines" # "fields"
  OBVIOUS
<1> QED BY <1>1 DEF Step, Reading, LineStep

(* A text without a break is read as one line.                               *)
LEMMA CleanRun ==
  ASSUME NEW t \in Clean, NEW F
  PROVE  Run("lines", Reading(F, <<>>), t) = Reading(F, t)
<1> DEFINE L == Len(t)
           f == [n \in 0 .. L |-> Reading(F, SubSeq(t, 1, n))]
<1>1. t \in Text
  BY DEF Clean
<1>2. L \in Nat /\ f[0] = Reading(F, <<>>) /\ f[L] = Reading(F, t)
  <2>1. L \in Nat /\ SubSeq(t, 1, 0) = <<>> /\ SubSeq(t, 1, L) = t
    BY <1>1, Beginnings
  <2>2. 0 \in 0 .. L /\ L \in 0 .. L
    BY <2>1
  <2>3. f[0] = Reading(F, SubSeq(t, 1, 0)) /\ f[L] = Reading(F, SubSeq(t, 1, L))
    BY <2>2
  <2> QED BY <2>1, <2>3
<1>3. ASSUME NEW n \in 1 .. L PROVE f[n] = Step("lines", f[n - 1], t[n])
  <2>1. n \in 0 .. L /\ n - 1 \in 0 .. L /\ n \in DOMAIN t
    BY <1>1, <1>2, Beginnings
  <2>2. /\ f[n] = Reading(F, SubSeq(t, 1, n))
        /\ f[n - 1] = Reading(F, SubSeq(t, 1, n - 1))
    BY <2>1
  <2>3. SubSeq(t, 1, n) = Append(SubSeq(t, 1, n - 1), t[n])
    BY <1>1, Beginnings
  <2>4. t[n] # "\n"
    BY <2>1 DEF Clean
  <2>5. Step("lines", Reading(F, SubSeq(t, 1, n - 1)), t[n])
          = Reading(F, Append(SubSeq(t, 1, n - 1), t[n]))
    BY <2>4, LineSteps
  <2> HIDE DEF f
  <2> QED BY <2>2, <2>3, <2>5
<1> HIDE DEF f
<1>4. Run("lines", f[0], t) = f[L]
  BY <1>2, <1>3, RunIs
<1> QED BY <1>2, <1>4

(* Lines that are joined are cut apart as they were.                         *)
LEMMA LinesBack ==
  ASSUME NEW N \in Nat \ {0}, NEW ps \in [1 .. N -> Clean],
         \A k \in 1 .. N : Trim(ps[k]) # <<>>
  PROVE  Lines(JoinWith("\n", ps)) = ps
<1> DEFINE nl == <<"\n">>
           ss == [k \in 1 .. N |-> IF k = 1 THEN ps[k] ELSE <<"\n">> \o ps[k]]
           text == JoinWith("\n", ps)
<1>0. 1 \in 1 .. N /\ N \in 1 .. N
  OBVIOUS
<1>1. text = FlattenSeq(ss) /\ Len(ss) = N
  BY DEF JoinWith
<1>2. \A k \in 1 .. N : ps[k] \in Clean /\ ps[k] \in Text /\ Inked(ps[k]) = <<ps[k]>>
  BY DEF Clean, Inked
<1>3. FirstOnes(ps, N) = ps
  BY DEF FirstOnes
<1>4. ss[1] = ps[1] /\ \A k \in 2 .. N : ss[k] = nl \o ps[k]
  <2>1. ss[1] = ps[1]
    BY <1>0
  <2>2. ASSUME NEW k \in 2 .. N PROVE ss[k] = nl \o ps[k]
    <3>1. k \in 1 .. N /\ k # 1
      OBVIOUS
    <3> QED BY <3>1
  <2> QED BY <2>1, <2>2
<1> HIDE DEF ss
<1>5. nl \in Text /\ "\n" \in Alphabet
  <2>1. "\n" \in Alphabet
    BY DEF Alphabet
  <2> QED BY <2>1, OneIsText
<1>6. text \in Text
  <2>1. ps \in [1 .. N -> Text]
    BY <1>2
  <2> QED BY <1>5, <2>1, JoinClean
<1> HIDE DEF text
<1>7. PICK f : JoinedBy(f, ss, N) /\ text = f[N]
  BY <1>1, Joined
<1> DEFINE T == {n \in 1 .. N :
                   /\ f[n] \in Text
                   /\ Run("lines", Begin, f[n]) = Reading(FirstOnes(ps, n - 1), ps[n])}
<1>8. 1 \in T
  <2> HIDE DEF T
  <2>1. f[1] = ps[1]
    BY <1>4, <1>7 DEF JoinedBy
  <2>2. ps[1] \in Clean /\ ps[1] \in Text
    BY <1>0, <1>2
  <2>3. Begin = Reading(FirstOnes(ps, 0), <<>>)
    BY FrontGrows DEF Begin, Reading
  <2>4. Run("lines", Begin, ps[1]) = Reading(FirstOnes(ps, 0), ps[1])
    BY <2>2, <2>3, CleanRun
  <2>5. 1 - 1 = 0
    OBVIOUS
  <2> QED BY <1>0, <2>1, <2>2, <2>4, <2>5 DEF T
<1>9. ASSUME NEW n \in 1 .. N - 1, n \in T PROVE n + 1 \in T
  <2>1. n + 1 \in 1 .. N /\ n + 1 \in 2 .. N /\ (n + 1) - 1 = n /\ n \in Nat \ {0} /\ n \in 1 .. N
    OBVIOUS
  <2>2. f[n] \in Text /\ Run("lines", Begin, f[n]) = Reading(FirstOnes(ps, n - 1), ps[n])
    BY <1>9
  <2> HIDE DEF T
  <2>3. f[n + 1] = f[n] \o ss[n + 1]
    BY <1>7, <2>1 DEF JoinedBy
  <2>4. ss[n + 1] = nl \o ps[n + 1]
    BY <1>4, <2>1
  <2> DEFINE u == f[n]  w == ps[n + 1]
             s == Reading(FirstOnes(ps, n - 1), ps[n])
             r == Reading(FirstOnes(ps, n), <<>>)
  <2>5. u \in Text /\ w \in Text /\ w \in Clean /\ Run("lines", Begin, u) = s
    BY <1>2, <2>1, <2>2
  <2>6. Run("lines", s, nl) = r
    <3>1. Run("lines", s, nl) = Step("lines", s, "\n")
      BY RunOne
    <3>2. Step("lines", s, "\n") = Reading(FirstOnes(ps, n - 1) \o Inked(ps[n]), <<>>)
      BY LineSteps
    <3>3. Inked(ps[n]) = <<ps[n]>> /\ FirstOnes(ps, n - 1) \o <<ps[n]>> = FirstOnes(ps, n)
      BY <1>2, <2>1, FrontGrows
    <3> QED BY <3>1, <3>2, <3>3
  <2>7. Run("lines", r, w) = Reading(FirstOnes(ps, n), w)
    BY <2>5, CleanRun
  <2>8. f[n + 1] = u \o (nl \o w)
    BY <2>3, <2>4
  <2> HIDE DEF u, w, s, r, nl
  <2>9. nl \o w \in Text /\ u \o (nl \o w) \in Text
    BY <1>5, <2>5, CleanConcat
  <2>10. Run("lines", s, nl \o w) = Run("lines", Run("lines", s, nl), w)
    BY <1>5, <2>5, RunConcat
  <2>11. Run("lines", Begin, u \o (nl \o w)) = Run("lines", Run("lines", Begin, u), nl \o w)
    BY <2>5, <2>9, RunConcat
  <2>12. f[n + 1] \in Text /\ Run("lines", Begin, f[n + 1]) = Reading(FirstOnes(ps, n), w)
    BY <2>5, <2>6, <2>7, <2>8, <2>9, <2>10, <2>11
  <2> QED BY <2>1, <2>12 DEF T, w
<1> HIDE DEF T
<1>10. N \in T
  <2>1. \A n \in 1 .. N : n \in T
    BY <1>8, <1>9, Along
  <2> QED BY <2>1
<1>11. Run("lines", Begin, text) = Reading(FirstOnes(ps, N - 1), ps[N])
  BY <1>7, <1>10 DEF T
<1>12. Lines(text) = FirstOnes(ps, N - 1) \o Inked(ps[N])
  <2>1. Lines(text) = Run("lines", Begin, text).lines \o Inked(Run("lines", Begin, text).current)
    BY <1>6, LinesIsRun
  <2> DEFINE a == FirstOnes(ps, N - 1)  b == ps[N]
  <2>2. Reading(a, b).lines = a /\ Reading(a, b).current = b
    <3> HIDE DEF a, b
    <3> QED BY DEF Reading
  <2>3. Run("lines", Begin, text) = Reading(a, b)
    BY <1>11
  <2> HIDE DEF a, b
  <2>4. Lines(text) = a \o Inked(b)
    BY <2>1, <2>2, <2>3
  <2> QED BY <2>4 DEF a, b
<1>13. FirstOnes(ps, N - 1) \o <<ps[N]>> = FirstOnes(ps, N) /\ Inked(ps[N]) = <<ps[N]>>
  BY <1>0, <1>2, FrontGrows
<1> QED BY <1>3, <1>12, <1>13 DEF text
-----------------------------------------------------------------------------
(* What trim leaves.                                                          *)
LEMMA TrimEmpty == Trim(<<>>) = <<>>
  BY DEF Trim

(* A text with ink on it is not trimmed away.                                *)
LEMMA TrimInk ==
  ASSUME NEW t \in Text, NEW i \in DOMAIN t, ~IsBlank(t[i])
  PROVE  Trim(t) # <<>>
<1> DEFINE ink == {k \in DOMAIN t : ~IsBlank(t[k])}
           lo == CHOOSE k \in ink : \A j \in ink : k <= j
           hi == CHOOSE k \in ink : \A j \in ink : j <= k
<1>1. Len(t) \in Nat /\ DOMAIN t = 1 .. Len(t)
  BY Beginnings
<1>2. ink \in SUBSET (1 .. Len(t)) /\ ink \in SUBSET Nat /\ i \in ink /\ ink # {}
  BY <1>1
<1>3. Trim(t) = SubSeq(t, lo, hi)
  BY <1>2 DEF Trim
<1> HIDE DEF ink
<1>4. lo \in ink /\ \A j \in ink : lo <= j
  <2>1. \E k \in ink : \A j \in ink : k <= j
    BY <1>2, LeastNumber
  <2> QED BY <2>1
<1>5. hi \in ink /\ \A j \in ink : j <= hi
  <2>1. \E k \in ink : \A j \in ink : j <= k
    BY <1>1, <1>2, LastPosition
  <2> QED BY <2>1
<1> HIDE DEF lo, hi
<1>6. lo \in 1 .. Len(t) /\ hi \in 1 .. Len(t) /\ lo <= hi
  BY <1>2, <1>4, <1>5
<1>7. Len(SubSeq(t, lo, hi)) = hi - lo + 1
  <2>1. t \in Seq(Alphabet)
    BY DEF Text
  <2> QED BY <1>1, <1>6, <2>1, SubSeqProperties
<1>8. Len(<<>>) = 0 /\ hi - lo + 1 # 0
  BY <1>6
<1> QED BY <1>3, <1>7, <1>8

(* A character with ink is not trimmed.                                      *)
LEMMA TrimOne ==
  ASSUME NEW c \in Alphabet, ~IsBlank(c)
  PROVE  Trim(<<c>>) = <<c>>
<1> DEFINE t == <<c>>
           ink == {k \in DOMAIN t : ~IsBlank(t[k])}
<1>1. t \in Text /\ Len(t) = 1 /\ t[1] = c
  BY OneIsText
<1>2. DOMAIN t = 1 .. 1 /\ SubSeq(t, 1, 1) = t
  BY <1>1, Beginnings
<1>3. ink = {1}
  BY <1>1, <1>2
<1>4. Trim(t) = SubSeq(t, CHOOSE k \in ink : \A j \in ink : k <= j,
                          CHOOSE k \in ink : \A j \in ink : j <= k)
  BY <1>3 DEF Trim
<1>5. (CHOOSE k \in ink : \A j \in ink : k <= j) = 1 /\ (CHOOSE k \in ink : \A j \in ink : j <= k) = 1
  BY <1>3
<1> QED BY <1>2, <1>4, <1>5
-----------------------------------------------------------------------------
(* The columns: thirteen names, each a single character that needs no quotes. *)
Columns == 1 .. 13
Headers == [k \in Columns |-> <<AmeenColumns[k]>>]

(* What the columns are, and where each one stands.                          *)
LEMMA ColumnsAre ==
  /\ DOMAIN AmeenColumns = Columns
  /\ \A k \in Columns : /\ AmeenColumns[k] \in Alphabet /\ AmeenColumns[k] \notin Special
                        /\ ~IsBlank(AmeenColumns[k]) /\ AmeenColumns[k] # ""
  /\ AmeenColumns[1] = "id"
  /\ \A k \in Columns : AmeenColumns[k] = "title" <=> k = 3
  /\ \A k \in Columns : AmeenColumns[k] = "username" <=> k = 4
  /\ \A k \in Columns : AmeenColumns[k] = "password" <=> k = 5
  /\ \A k \in Columns : AmeenColumns[k] = "url" <=> k = 6
  /\ \A k \in Columns : AmeenColumns[k] = "notes" <=> k = 12
  /\ \A k \in Columns : AmeenColumns[k] = "otpSecret" <=> k = 13
<1>1. DOMAIN AmeenColumns = Columns
  BY DEF AmeenColumns, Columns
<1>2. \A k \in Columns : AmeenColumns[k] \in Alphabet
  BY <1>1 DEF Alphabet
<1>3. \A k \in Columns : k = 1 \/ k = 2 \/ k = 3 \/ k = 4 \/ k = 5 \/ k = 6 \/ k = 7 \/ k = 8
                         \/ k = 9 \/ k = 10 \/ k = 11 \/ k = 12 \/ k = 13
  BY DEF Columns
<1>4. /\ AmeenColumns[1] = "id" /\ AmeenColumns[2] = "type" /\ AmeenColumns[3] = "title"
      /\ AmeenColumns[4] = "username" /\ AmeenColumns[5] = "password" /\ AmeenColumns[6] = "url"
      /\ AmeenColumns[7] = "content" /\ AmeenColumns[8] = "cardholder"
      /\ AmeenColumns[9] = "number" /\ AmeenColumns[10] = "expiry" /\ AmeenColumns[11] = "cvv"
      /\ AmeenColumns[12] = "notes" /\ AmeenColumns[13] = "otpSecret"
  BY DEF AmeenColumns
<1>5. \A k \in Columns : /\ AmeenColumns[k] \notin Special /\ ~IsBlank(AmeenColumns[k])
                         /\ AmeenColumns[k] # ""
  BY <1>3, <1>4 DEF Special, IsBlank
<1>6. /\ \A k \in Columns : AmeenColumns[k] = "title" <=> k = 3
      /\ \A k \in Columns : AmeenColumns[k] = "username" <=> k = 4
      /\ \A k \in Columns : AmeenColumns[k] = "password" <=> k = 5
  BY <1>3, <1>4
<1>7. /\ \A k \in Columns : AmeenColumns[k] = "url" <=> k = 6
      /\ \A k \in Columns : AmeenColumns[k] = "notes" <=> k = 12
      /\ \A k \in Columns : AmeenColumns[k] = "otpSecret" <=> k = 13
  BY <1>3, <1>4
<1> QED BY <1>1, <1>2, <1>4, <1>5, <1>6, <1>7

(* A single character is its own escaped form.                                *)
LEMMA EscapeOne ==
  ASSUME NEW c \in Alphabet, c \notin Special
  PROVE  EscapeField(<<c>>) = <<c>>
<1>1. <<c>> \in Text /\ Len(<<c>>) = 1 /\ <<c>>[1] = c
  BY OneIsText
<1>2. DOMAIN <<c>> = 1 .. 1
  BY <1>1, Beginnings
<1>3. \A k \in DOMAIN <<c>> : <<c>>[k] \notin Special
  BY <1>1, <1>2
<1> QED BY <1>1, <1>3, PlainField

(* A line whose first character has ink is not dropped.                       *)
LEMMA StartsInked ==
  ASSUME NEW w \in Text, Len(w) >= 1, w[1] = "id"
  PROVE  Trim(w) # <<>>
<1>1. 1 \in DOMAIN w
  <2>1. Len(w) \in Nat /\ DOMAIN w = 1 .. Len(w)
    BY Beginnings
  <2> QED BY <2>1
<1>2. ~IsBlank(w[1])
  BY DEF IsBlank
<1> QED BY <1>1, <1>2, TrimInk

(* The header line is read as the thirteen columns.                           *)
LEMMA HeaderBack ==
  /\ HeaderLine \in Clean /\ Trim(HeaderLine) # <<>>
  /\ SplitCsvLine(HeaderLine) = Headers
<1> DEFINE es == [k \in Columns |-> EscapeField(Headers[k])]
           ts == [k \in Columns |-> Trim(Headers[k])]
<1>1. ASSUME NEW k \in Columns
      PROVE  /\ Headers[k] = <<AmeenColumns[k]>> /\ Headers[k] \in Text /\ Headers[k] \in Clean
             /\ EscapeField(Headers[k]) = Headers[k] /\ Trim(Headers[k]) = Headers[k]
  <2>1. AmeenColumns[k] \in Alphabet /\ AmeenColumns[k] \notin Special /\ ~IsBlank(AmeenColumns[k])
    BY ColumnsAre
  <2>2. AmeenColumns[k] # "\n"
    BY <2>1 DEF Special
  <2>3. Headers[k] = <<AmeenColumns[k]>>
    BY DEF Headers
  <2> DEFINE c == AmeenColumns[k]
  <2> HIDE DEF c
  <2>4. c \in Alphabet /\ c \notin Special /\ ~IsBlank(c) /\ c # "\n"
    BY <2>1, <2>2 DEF c
  <2>5. /\ <<c>> \in Text /\ <<c>> \in Clean /\ EscapeField(<<c>>) = <<c>> /\ Trim(<<c>>) = <<c>>
    BY <2>4, OneIsText, EscapeOne, TrimOne
  <2> QED BY <2>3, <2>5 DEF c
<1>2. Headers \in [Columns -> Text]
  <2>1. Headers = [k \in Columns |-> Headers[k]]
    BY DEF Headers
  <2> QED BY <1>1, <2>1
<1>3. es = Headers /\ ts = Headers
  <2>1. Headers = [k \in Columns |-> Headers[k]]
    BY DEF Headers
  <2> QED BY <1>1, <2>1
<1>4. HeaderLine = JoinWith(",", Headers)
  BY ColumnsAre DEF HeaderLine, Headers
<1>5. 13 \in Nat \ {0} /\ Columns = 1 .. 13 /\ 1 \in Columns
  BY DEF Columns
<1>6. "," \in Alphabet /\ "," # "\n"
  BY DEF Alphabet
<1>7. Len(Headers[1]) = 1 /\ Headers[1][1] = "id"
  <2>1. Headers[1] = <<AmeenColumns[1]>>
    BY <1>1, <1>5
  <2>2. AmeenColumns[1] = "id"
    BY ColumnsAre
  <2>3. Headers[1] = <<"id">>
    BY <2>1, <2>2
  <2> QED BY <2>3
<1>8. HeaderLine \in Text /\ HeaderLine \in Clean /\ Len(HeaderLine) >= 1 /\ HeaderLine[1] = "id"
  <2>1. JoinWith(",", Headers) \in Text
    BY <1>2, <1>5, <1>6, JoinClean
  <2>2. JoinWith(",", Headers) \in Clean
    BY <1>1, <1>2, <1>5, <1>6, JoinClean
  <2>3. Len(Headers[1]) >= 1
    BY <1>7
  <2>4. Len(JoinWith(",", Headers)) >= 1 /\ JoinWith(",", Headers)[1] = Headers[1][1]
    BY <1>2, <1>5, <1>6, <2>3, JoinClean
  <2> QED BY <1>4, <1>7, <2>1, <2>2, <2>4
<1>9. SplitCsvLine(JoinWith(",", es)) = ts
  BY <1>2, <1>5, RowRun
<1> HIDE DEF es, ts
<1> QED BY <1>3, <1>4, <1>8, <1>9, StartsInked

-----------------------------------------------------------------------------
(* An item that holds no line break, as the run has them.                     *)
Items == [ItemFields -> Seq(STRING)]

Cells(item) == [k \in Columns |-> Cell(item, AmeenColumns[k])]

(* An item's fields are texts.                                               *)
LEMMA FieldsAreText ==
  ASSUME NEW item \in Items
  PROVE  \A f \in ItemFields : /\ item[f] \in Text
                               /\ ~Contains(item[f], "\n") => item[f] \in Clean
<1>1. ASSUME NEW f \in ItemFields
      PROVE  item[f] \in Text /\ (~Contains(item[f], "\n") => item[f] \in Clean)
  <2> DEFINE t == item[f]
  <2>1. t \in Seq(STRING)
    BY DEF Items
  <2>2. STRING \subseteq Alphabet
    BY DEF Alphabet
  <2> HIDE DEF t
  <2>3. t \in Text
    BY <2>1, <2>2, SeqMonotonic DEF Text
  <2>4. ASSUME ~Contains(t, "\n") PROVE t \in Clean
    <3>1. \A k \in DOMAIN t : t[k] # "\n"
      <4>1. DOMAIN t = 1 .. Len(t)
        BY <2>3, Beginnings
      <4> QED BY <2>4, <4>1 DEF Contains
    <3> QED BY <2>3, <3>1 DEF Clean
  <2> QED BY <2>3, <2>4 DEF t
<1> QED BY <1>1

(* What the cells of an item are.                                             *)
LEMMA CellsAre ==
  ASSUME NEW item \in Items, \A f \in ItemFields : ~Contains(item[f], "\n")
  PROVE  /\ Cells(item) \in [Columns -> Text] /\ \A k \in Columns : Cells(item)[k] \in Clean
         /\ Cells(item)[1] = <<"id">>
         /\ Cells(item)[3] = item["title"] /\ Cells(item)[4] = item["username"]
         /\ Cells(item)[5] = item["password"] /\ Cells(item)[6] = item["url"]
         /\ Cells(item)[12] = item["notes"] /\ Cells(item)[13] = item["otpSecret"]
<1>1. ASSUME NEW k \in Columns
      PROVE  Cells(item)[k] = Cell(item, AmeenColumns[k]) /\ Cells(item)[k] \in Clean
  <2>1. Cells(item)[k] = Cell(item, AmeenColumns[k])
    BY DEF Cells
  <2> DEFINE c == AmeenColumns[k]
  <2>2. c \in Alphabet /\ c # "\n"
    BY ColumnsAre DEF Special
  <2> HIDE DEF c
  <2>3. <<c>> \in Clean
    BY <2>2, OneIsText
  <2>4. <<>> \in Clean
    BY DEF Clean, Text
  <2>5. \A f \in ItemFields : item[f] \in Clean
    BY FieldsAreText
  <2>6. Cell(item, c) \in Clean
    <3>1. CASE c \in ItemFields
      BY <2>5, <3>1 DEF Cell
    <3>2. CASE c \notin ItemFields
      BY <2>3, <2>4, <3>2 DEF Cell
    <3> QED BY <3>1, <3>2
  <2> QED BY <2>1, <2>6 DEF c
<1>2. Cells(item) \in [Columns -> Text]
  <2>1. Cells(item) = [k \in Columns |-> Cells(item)[k]]
    BY DEF Cells
  <2>2. \A k \in Columns : Cells(item)[k] \in Text
    BY <1>1 DEF Clean
  <2> QED BY <2>1, <2>2
<1>3. /\ 1 \in Columns /\ 3 \in Columns /\ 4 \in Columns /\ 5 \in Columns /\ 6 \in Columns
      /\ 12 \in Columns /\ 13 \in Columns
  BY DEF Columns
<1>4. /\ AmeenColumns[1] = "id" /\ AmeenColumns[3] = "title" /\ AmeenColumns[4] = "username"
      /\ AmeenColumns[5] = "password" /\ AmeenColumns[6] = "url" /\ AmeenColumns[12] = "notes"
      /\ AmeenColumns[13] = "otpSecret"
  BY DEF AmeenColumns
<1>5. /\ Cell(item, "id") = <<"id">> /\ Cell(item, "title") = item["title"]
      /\ Cell(item, "username") = item["username"] /\ Cell(item, "password") = item["password"]
      /\ Cell(item, "url") = item["url"] /\ Cell(item, "notes") = item["notes"]
      /\ Cell(item, "otpSecret") = item["otpSecret"]
  <2>1. {"title", "username", "password", "url", "notes", "otpSecret"} \subseteq ItemFields
    BY DEF ItemFields
  <2>2. "id" \notin ItemFields
    BY DEF ItemFields
  <2>3. Cell(item, "id") = <<"id">>
    BY <2>2 DEF Cell
  <2>4. \A f \in ItemFields : Cell(item, f) = item[f]
    BY DEF Cell
  <2> QED BY <2>1, <2>3, <2>4
<1> QED BY <1>1, <1>2, <1>3, <1>4, <1>5

(* A row is read as the trimmed cells of its item.                            *)
LEMMA RowBack ==
  ASSUME NEW item \in Items, \A f \in ItemFields : ~Contains(item[f], "\n")
  PROVE  /\ Row(item) \in Clean /\ Trim(Row(item)) # <<>>
         /\ SplitCsvLine(Row(item)) = [k \in Columns |-> Trim(Cells(item)[k])]
<1> DEFINE c == Cells(item)
           es == [k \in Columns |-> EscapeField(c[k])]
<1>1. c \in [Columns -> Text] /\ (\A k \in Columns : c[k] \in Clean) /\ c[1] = <<"id">>
  BY CellsAre
<1>2. Row(item) = JoinWith(",", es)
  BY ColumnsAre DEF Row, Cells
<1> HIDE DEF c
<1>3. \A k \in Columns : es[k] = EscapeField(c[k]) /\ es[k] \in Text /\ es[k] \in Clean
  <2>1. \A k \in Columns : c[k] \in Text
    BY <1>1
  <2> QED BY <1>1, <2>1, FieldRun
<1>4. es \in [Columns -> Text]
  BY <1>3
<1>5. 13 \in Nat \ {0} /\ Columns = 1 .. 13 /\ 1 \in Columns
  BY DEF Columns
<1>6. "," \in Alphabet /\ "," # "\n"
  BY DEF Alphabet
<1>7. Len(es[1]) >= 1 /\ es[1][1] = "id"
  <2>0. AmeenColumns[1] = "id" /\ AmeenColumns[1] \in Alphabet /\ AmeenColumns[1] \notin Special
    BY <1>5, ColumnsAre
  <2>1. "id" \in Alphabet /\ "id" \notin Special
    BY <2>0
  <2>2. es[1] = <<"id">>
    BY <1>1, <1>3, <1>5, <2>1, EscapeOne
  <2> QED BY <2>2
<1>8. SplitCsvLine(JoinWith(",", es)) = [k \in Columns |-> Trim(c[k])]
  BY <1>1, <1>5, RowRun
<1> HIDE DEF es
<1>9. JoinWith(",", es) \in Text
  BY <1>4, <1>5, <1>6, JoinClean
<1>10. JoinWith(",", es) \in Clean
  BY <1>3, <1>4, <1>5, <1>6, JoinClean
<1>11. Len(JoinWith(",", es)) >= 1 /\ JoinWith(",", es)[1] = "id"
  BY <1>4, <1>5, <1>6, <1>7, JoinClean
<1>12. Trim(JoinWith(",", es)) # <<>>
  BY <1>9, <1>11, StartsInked
<1> QED BY <1>2, <1>8, <1>10, <1>12 DEF c
-----------------------------------------------------------------------------
(* The header is this code's own: no browser's file has thirteen columns.     *)
LEMMA HeaderIsOwn == DetectCsvFormat(Headers) = {"ameen"}
<1> DEFINE As(f) == [k \in DOMAIN Signature[f] |-> <<Signature[f][k]>>]
<1>1. DOMAIN Signature = {"chrome", "firefox", "edge", "safari", "ameen"}
  BY DEF Signature
<1>2. Signature["ameen"] = AmeenColumns
  BY DEF Signature
<1>3. As("ameen") = Headers
  BY <1>2, ColumnsAre DEF Headers
<1>4. ASSUME NEW f \in {"chrome", "firefox", "edge", "safari"} PROVE As(f) # Headers
  <2>1. 13 \notin DOMAIN Signature[f]
    <3>1. CASE f = "chrome"
      BY <3>1 DEF Signature
    <3>2. CASE f = "firefox"
      BY <3>2 DEF Signature
    <3>3. CASE f = "edge"
      BY <3>3 DEF Signature
    <3>4. CASE f = "safari"
      BY <3>4 DEF Signature
    <3> QED BY <3>1, <3>2, <3>3, <3>4
  <2>2. 13 \in DOMAIN Headers
    BY DEF Headers, Columns
  <2>3. DOMAIN As(f) = DOMAIN Signature[f]
    OBVIOUS
  <2> QED BY <2>1, <2>2, <2>3
<1>5. DetectCsvFormat(Headers) = {f \in DOMAIN Signature : Headers = As(f)}
  BY DEF DetectCsvFormat
<1> HIDE DEF As
<1> QED BY <1>1, <1>3, <1>4, <1>5

(* A row's items are read from their own columns.                             *)
LEMMA CellsMapBack ==
  ASSUME NEW item \in Items, item["content"] = <<>>,
         \A f \in ItemFields : ~Contains(item[f], "\n")
  PROVE  MapRow([k \in Columns |-> Trim(Cells(item)[k])], Headers, "ameen") = Kept(item)
<1> DEFINE fields == [k \in Columns |-> Trim(Cells(item)[k])]
           At(name) == {k \in DOMAIN Headers \cap DOMAIN fields : Headers[k] = <<name>>}
           Get(name) == IF At(name) = {} THEN <<>>
                        ELSE fields[CHOOSE k \in At(name) : \A j \in At(name) : k <= j]
           read == [f \in ItemFields |-> Get(ColumnOf["ameen"][f])]
           kept == [f \in ItemFields |-> Trim(item[f])]
<1>1. MapRow(fields, Headers, "ameen") = ItemOf(read, read.title)
  BY DEF MapRow
<1>2. \A name : At(name) = {k \in Columns : AmeenColumns[k] = name}
  <2>1. DOMAIN Headers \cap DOMAIN fields = Columns
    BY DEF Headers
  <2>2. \A name : \A k \in Columns : Headers[k] = <<name>> <=> AmeenColumns[k] = name
    <3>1. \A k \in Columns : Headers[k] = <<AmeenColumns[k]>>
      BY DEF Headers
    <3>2. \A a, b : <<a>> = <<b>> <=> a = b
      OBVIOUS
    <3> QED BY <3>1, <3>2
  <2> HIDE DEF fields
  <2> QED BY <2>1, <2>2
<1>3. /\ At("title") = {3} /\ At("username") = {4} /\ At("password") = {5} /\ At("url") = {6}
      /\ At("notes") = {12} /\ At("otpSecret") = {13} /\ At("") = {}
  <2> HIDE DEF At
  <2>1. 3 \in Columns /\ 4 \in Columns /\ 5 \in Columns /\ 6 \in Columns /\ 12 \in Columns /\ 13 \in Columns
    BY DEF Columns
  <2>2. At("title") = {3}
    <3>1. \A k \in Columns : AmeenColumns[k] = "title" <=> k = 3
      BY ColumnsAre
    <3> QED BY <1>2, <2>1, <3>1
  <2>3. At("username") = {4}
    <3>1. \A k \in Columns : AmeenColumns[k] = "username" <=> k = 4
      BY ColumnsAre
    <3> QED BY <1>2, <2>1, <3>1
  <2>4. At("password") = {5}
    <3>1. \A k \in Columns : AmeenColumns[k] = "password" <=> k = 5
      BY ColumnsAre
    <3> QED BY <1>2, <2>1, <3>1
  <2>5. At("url") = {6}
    <3>1. \A k \in Columns : AmeenColumns[k] = "url" <=> k = 6
      BY ColumnsAre
    <3> QED BY <1>2, <2>1, <3>1
  <2>6. At("notes") = {12}
    <3>1. \A k \in Columns : AmeenColumns[k] = "notes" <=> k = 12
      BY ColumnsAre
    <3> QED BY <1>2, <2>1, <3>1
  <2>7. At("otpSecret") = {13}
    <3>1. \A k \in Columns : AmeenColumns[k] = "otpSecret" <=> k = 13
      BY ColumnsAre
    <3> QED BY <1>2, <2>1, <3>1
  <2>8. At("") = {}
    <3>1. {k \in Columns : AmeenColumns[k] = ""} = {}
      BY ColumnsAre
    <3> QED BY <1>2, <3>1
  <2> QED BY <2>2, <2>3, <2>4, <2>5, <2>6, <2>7, <2>8
<1>4. \A name, k : k \in Nat /\ At(name) = {k} => Get(name) = fields[k]
  <2> HIDE DEF At, fields
  <2>1. ASSUME NEW name, NEW k \in Nat, At(name) = {k} PROVE Get(name) = fields[k]
    <3>1. At(name) # {}
      BY <2>1
    <3>2. (CHOOSE i \in At(name) : \A j \in At(name) : i <= j) = k
      BY <2>1
    <3> QED BY <3>1, <3>2
  <2> QED BY <2>1
<1>5. Get("") = <<>>
  BY <1>3
<1> HIDE DEF At
<1>6. /\ fields[3] = Trim(item["title"]) /\ fields[4] = Trim(item["username"])
      /\ fields[5] = Trim(item["password"]) /\ fields[6] = Trim(item["url"])
      /\ fields[12] = Trim(item["notes"]) /\ fields[13] = Trim(item["otpSecret"])
  <2>1. /\ 3 \in Columns /\ 4 \in Columns /\ 5 \in Columns /\ 6 \in Columns
        /\ 12 \in Columns /\ 13 \in Columns
    BY DEF Columns
  <2>2. /\ Cells(item)[3] = item["title"] /\ Cells(item)[4] = item["username"]
        /\ Cells(item)[5] = item["password"] /\ Cells(item)[6] = item["url"]
        /\ Cells(item)[12] = item["notes"] /\ Cells(item)[13] = item["otpSecret"]
    BY CellsAre
  <2> QED BY <2>1, <2>2
<1> HIDE DEF fields
<1>7. /\ Get("title") = Trim(item["title"]) /\ Get("username") = Trim(item["username"])
      /\ Get("password") = Trim(item["password"]) /\ Get("url") = Trim(item["url"])
      /\ Get("notes") = Trim(item["notes"]) /\ Get("otpSecret") = Trim(item["otpSecret"])
      /\ Get("") = Trim(item["content"])
  <2> HIDE DEF Get
  <2>1. /\ 3 \in Nat /\ 4 \in Nat /\ 5 \in Nat /\ 6 \in Nat /\ 12 \in Nat /\ 13 \in Nat
    OBVIOUS
  <2>2. Get("title") = fields[3] /\ Get("username") = fields[4] /\ Get("password") = fields[5]
    BY <1>3, <1>4, <2>1
  <2>3. Get("url") = fields[6] /\ Get("notes") = fields[12] /\ Get("otpSecret") = fields[13]
    BY <1>3, <1>4, <2>1
  <2>4. Get("") = Trim(item["content"])
    BY <1>5, TrimEmpty
  <2> QED BY <1>6, <2>2, <2>3, <2>4
<1> HIDE DEF Get
<1>8. /\ ColumnOf["ameen"]["title"] = "title" /\ ColumnOf["ameen"]["username"] = "username"
      /\ ColumnOf["ameen"]["password"] = "password" /\ ColumnOf["ameen"]["url"] = "url"
      /\ ColumnOf["ameen"]["notes"] = "notes" /\ ColumnOf["ameen"]["otpSecret"] = "otpSecret"
      /\ ColumnOf["ameen"]["content"] = ""
  BY DEF ColumnOf, ItemFields
<1>9. read = kept
  <2>1. \A f \in ItemFields : Get(ColumnOf["ameen"][f]) = Trim(item[f])
    BY <1>7, <1>8 DEF ItemFields
  <2> QED BY <2>1
<1>10. ItemOf(kept, kept.title) = Kept(item)
  <2> DEFINE none == kept.title = <<>> /\ kept.username = <<>> /\ kept.password = <<>> /\ kept.url = <<>>
             all == \A f \in {"title", "username", "password", "url"} : kept[f] = <<>>
  <2>1. none <=> all
    OBVIOUS
  <2>2. ItemOf(kept, kept.title)
          = IF none THEN <<>> ELSE <<[kept EXCEPT !.title = Titled(kept.title, kept.url)]>>
    BY DEF ItemOf
  <2>3. Kept(item) = IF all THEN <<>> ELSE <<[kept EXCEPT !.title = Titled(kept.title, kept.url)]>>
    BY DEF Kept
  <2> HIDE DEF none, all, kept
  <2> QED BY <2>1, <2>2, <2>3
<1> HIDE DEF kept, read
<1>11. MapRow(fields, Headers, "ameen") = Kept(item)
  BY <1>1, <1>9, <1>10
<1> QED BY <1>11 DEF fields
-----------------------------------------------------------------------------
(* The whole file: a header and a row for each item.                          *)
LEMMA VaultBack ==
  ASSUME NEW items \in Seq(Items), \A n \in DOMAIN items : items[n]["content"] = <<>>,
         \A n \in DOMAIN items : \A f \in ItemFields : ~Contains(items[n][f], "\n")
  PROVE  ParseCsvToVaultItems(VaultItemsToAmeenCsv(items))
           = FlattenSeq([n \in DOMAIN items |-> Kept(items[n])])
<1> DEFINE L == Len(items)
           rows == [n \in 1 .. L |-> Row(items[n])]
           ps == <<HeaderLine>> \o rows
           kept == [n \in 1 .. L |-> Kept(items[n])]
<1>1. L \in Nat /\ DOMAIN items = 1 .. L /\ \A n \in 1 .. L : items[n] \in Items
  BY LenProperties, ElementOfSeq
<1> HIDE DEF L
<1>2. ASSUME NEW n \in 1 .. L
      PROVE  /\ rows[n] \in Clean /\ Trim(rows[n]) # <<>>
             /\ MapRow(SplitCsvLine(rows[n]), Headers, "ameen") = Kept(items[n])
  <2> DEFINE item == items[n]
  <2>1. /\ item \in Items /\ item["content"] = <<>>
        /\ \A f \in ItemFields : ~Contains(item[f], "\n")
    BY <1>1
  <2>2. rows[n] = Row(item)
    OBVIOUS
  <2> HIDE DEF item, rows
  <2>3. /\ Row(item) \in Clean /\ Trim(Row(item)) # <<>>
        /\ SplitCsvLine(Row(item)) = [k \in Columns |-> Trim(Cells(item)[k])]
    BY <2>1, RowBack
  <2>4. MapRow([k \in Columns |-> Trim(Cells(item)[k])], Headers, "ameen") = Kept(item)
    BY <2>1, CellsMapBack
  <2> QED BY <2>2, <2>3, <2>4 DEF item
<1>3. rows \in Seq(Clean) /\ Len(rows) = L
  <2>1. rows \in [1 .. L -> Clean]
    BY <1>2
  <2> HIDE DEF rows
  <2> QED BY <1>1, <2>1, FunctionIsSequence
<1>4. VaultItemsToAmeenCsv(items) = JoinWith("\n", ps)
  BY <1>1 DEF VaultItemsToAmeenCsv
<1> HIDE DEF rows
<1> DEFINE head == <<HeaderLine>>
<1>5. head \in Seq(Clean) /\ Len(head) = 1 /\ head[1] = HeaderLine
  BY HeaderBack
<1>6. /\ ps \in [1 .. L + 1 -> Clean] /\ Len(ps) = L + 1
      /\ ps[1] = HeaderLine /\ \A n \in 1 .. L : ps[n + 1] = rows[n]
  <2> HIDE DEF head
  <2> DEFINE q == head \o rows
  <2>1. /\ q \in Seq(Clean) /\ Len(q) = 1 + L
        /\ \A i \in 1 .. 1 + L : q[i] = IF i <= 1 THEN head[i] ELSE rows[i - 1]
    <3>1. /\ q \in Seq(Clean) /\ Len(q) = Len(head) + Len(rows)
          /\ \A i \in 1 .. Len(head) + Len(rows) :
               q[i] = IF i <= Len(head) THEN head[i] ELSE rows[i - Len(head)]
      BY <1>3, <1>5, ConcatProperties
    <3> QED BY <1>3, <1>5, <3>1
  <2> HIDE DEF q
  <2>2. q \in [1 .. L + 1 -> Clean] /\ Len(q) = L + 1
    BY <1>1, <2>1, LenProperties
  <2>3. q[1] = HeaderLine
    BY <1>1, <1>5, <2>1
  <2>4. ASSUME NEW n \in 1 .. L PROVE q[n + 1] = rows[n]
    <3>1. n + 1 \in 1 .. 1 + L /\ ~(n + 1 <= 1) /\ (n + 1) - 1 = n
      BY <1>1
    <3> QED BY <2>1, <3>1
  <2> QED BY <2>2, <2>3, <2>4 DEF q, head
<1> HIDE DEF ps
<1>7. \A k \in 1 .. L + 1 : Trim(ps[k]) # <<>>
  <2> SUFFICES ASSUME NEW k \in 1 .. L + 1 PROVE Trim(ps[k]) # <<>>
    OBVIOUS
  <2>1. CASE k = 1
    BY <1>6, <2>1, HeaderBack
  <2>2. CASE k # 1
    <3>1. k - 1 \in 1 .. L /\ (k - 1) + 1 = k
      BY <1>1, <2>2
    <3> QED BY <1>2, <1>6, <3>1
  <2> QED BY <2>1, <2>2
<1>8. Lines(VaultItemsToAmeenCsv(items)) = ps
  <2>1. L + 1 \in Nat \ {0}
    BY <1>1
  <2> QED BY <1>4, <1>6, <1>7, <2>1, LinesBack
<1>9. SplitCsvLine(ps[1]) = Headers /\ DetectCsvFormat(Headers) = {"ameen"}
  BY <1>6, HeaderBack, HeaderIsOwn
<1>10. (CHOOSE f \in {"ameen"} : TRUE) = "ameen"
  OBVIOUS
<1>11. ParseCsvToVaultItems(VaultItemsToAmeenCsv(items))
         = IF L + 1 < 2 THEN <<>>
           ELSE FlattenSeq([n \in 1 .. (L + 1) - 1 |->
                  MapRow(SplitCsvLine(ps[n + 1]), Headers, "ameen")])
  <2> DEFINE text == VaultItemsToAmeenCsv(items)
  <2>1. Lines(text) = ps
    BY <1>8
  <2> HIDE DEF text
  <2>2. {"ameen"} # {}
    OBVIOUS
  <2>3. Len(ps) = L + 1 /\ SplitCsvLine(ps[1]) = Headers /\ DetectCsvFormat(Headers) = {"ameen"}
    BY <1>6, <1>9
  <2>4. ParseCsvToVaultItems(text)
          = IF Len(ps) < 2 \/ {"ameen"} = {} THEN <<>>
            ELSE FlattenSeq([n \in 1 .. Len(ps) - 1 |->
                   MapRow(SplitCsvLine(ps[n + 1]), Headers, CHOOSE f \in {"ameen"} : TRUE)])
    BY <2>1, <2>3 DEF ParseCsvToVaultItems
  <2>5. ParseCsvToVaultItems(text)
          = IF Len(ps) < 2 THEN <<>>
            ELSE FlattenSeq([n \in 1 .. Len(ps) - 1 |->
                   MapRow(SplitCsvLine(ps[n + 1]), Headers, "ameen")])
    BY <1>10, <2>2, <2>4
  <2> QED BY <2>3, <2>5 DEF text
<1>12. \A n \in 1 .. L : MapRow(SplitCsvLine(ps[n + 1]), Headers, "ameen") = Kept(items[n])
  BY <1>2, <1>6
<1>13. CASE L = 0
  <2>1. kept = <<>>
    BY <1>13
  <2>2. FlattenSeq(<<>>) = <<>>
    BY DEF FlattenSeq
  <2>3. ParseCsvToVaultItems(VaultItemsToAmeenCsv(items)) = <<>>
    BY <1>11, <1>13
  <2> QED BY <1>1, <2>1, <2>2, <2>3
<1>14. CASE L # 0
  <2>1. [n \in 1 .. (L + 1) - 1 |-> MapRow(SplitCsvLine(ps[n + 1]), Headers, "ameen")] = kept
    <3>1. (L + 1) - 1 = L
      BY <1>1
    <3> QED BY <1>12, <3>1
  <2>2. ~(L + 1 < 2)
    BY <1>1, <1>14
  <2> QED BY <1>1, <1>11, <2>1, <2>2
<1> QED BY <1>13, <1>14

(* What holds of every vault that is written holds in every state.            *)
LEMMA ExportedIsOne == CsvSpec => [](exported \in Exports)
<1>1. CsvInit => exported \in Exports
  BY DEF CsvInit
<1>2. exported \in Exports /\ [FALSE]_exported => (exported \in Exports)'
  OBVIOUS
<1> QED BY <1>1, <1>2, PTL DEF CsvSpec

(* ReimportKeeps: a vault of passwords, of any number of items, is read back  *)
(* item by item from the file it was written to, whatever commas and quotes   *)
(* its fields hold (csv-parser.ts 37-68, 105-132, 137-214, 225-258).          *)
THEOREM ExportsComeBack == CsvSpec => []ReimportKeeps
<1>1. exported \in Exports => ReimportKeeps
  <2> SUFFICES ASSUME exported \in Exports,
                      \A n \in DOMAIN exported :
                        \A f \in ItemFields : ~Contains(exported[n][f], "\n")
               PROVE  ParseCsvToVaultItems(VaultItemsToAmeenCsv(exported))
                        = FlattenSeq([n \in DOMAIN exported |-> Kept(exported[n])])
    BY DEF ReimportKeeps
  <2>1. /\ exported \in Seq(Items)
        /\ \A n \in DOMAIN exported : exported[n]["content"] = <<>>
    BY CsvAssumption DEF Items
  <2> QED BY <2>1, VaultBack
<1> QED BY <1>1, ExportedIsOne, PTL
=============================================================================
