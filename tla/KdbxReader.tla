------------------------------ MODULE KdbxReader ------------------------------
(***************************************************************************)
(* shared-crypto/src/kdbx-reader.ts: readKdbx opens a KeePass 3.1 file with  *)
(* a password and turns its entries into vault items.                        *)
(*                                                                           *)
(* A file is what its writer put into it: header fields, and a body that one *)
(* key and one iv open, with the start bytes, the blocks (framed) and the    *)
(* compression the writer chose. How a key is derived is what the comments   *)
(* of the reader say (274-278), and a file is one the reader can derive the  *)
(* key of. What a wrong key or iv gives is garbage, in which no expression   *)
(* of parseKdbxXml matches. Bytes and rounds are left out, and files of more *)
(* than one block.                                                           *)
(*                                                                           *)
(* A value of a string is written down plainly; with an escaped entity whose *)
(* & is escaped; plainly, but so that it reads as the base64 of some bytes;  *)
(* ivPrefixed, encrypted the way the comment at 490 says; or protected, in   *)
(* one stream for the whole file, as KeePass does it. "lost" is whatever     *)
(* comes out in place of a text: garbage, nothing, or the encoded form.      *)
(***************************************************************************)
EXTENDS Integers, Sequences, SequencesExt, FiniteSets

CONSTANTS
  Files,       \* the files that may be read
  PasswordsTyped

(* A byte array is never undefined; the rest is how a file is written down.  *)
ASSUME KdbxAssumption == \A f \in Files :
  /\ Len(f.header) \in Nat /\ DOMAIN f.header = 1 .. Len(f.header)
  /\ \A k \in DOMAIN f.header : f.header[k].data # "undefined"
  /\ f.key = <<f.key[1], f.key[2], f.key[3], f.key[4]>>
  /\ f.body.start # "nothing" /\ f.body.compression \in {"none", "gzip"}
  /\ f.body.framed \in BOOLEAN
  /\ \A n \in DOMAIN f.body.entries :
       LET strings == f.body.entries[n].strings IN
       /\ Len(strings) \in Nat /\ DOMAIN strings = 1 .. Len(strings)
       /\ \A k \in DOMAIN strings :
            /\ strings[k].value.bytes \in Nat
            /\ strings[k].value.form = "ivPrefixed" => strings[k].value.bytes > 8
            /\ strings[k].value.form \in {"ivPrefixed", "protected"}
                 => strings[k].value.text # ""

VARIABLES
  file,      \* kdbxBytes
  typed,     \* password
  pos,       \* fields of the header that were read
  header,    \* header
  reading,   \* where readKdbx stands
  decrypted, \* decrypted
  imported   \* items

kdbxVars == <<file, typed, pos, header, reading, decrypted, imported>>

Missing == "undefined"
HeaderFields == {"masterSeed", "transformSeed", "transformRounds", "encryptionIv",
                 "protectedStreamKey", "streamStartBytes", "compression", "innerStreamId"}
Default(f) == IF f \in {"compression", "innerStreamId"} THEN "none" ELSE Missing
Nothing == [start |-> "nothing", framed |-> FALSE, compression |-> "nothing", entries |-> <<>>]
EntryFields == {"Title", "UserName", "Password", "URL", "Notes"}

KdbxInit ==
  /\ file \in Files /\ typed \in PasswordsTyped
  /\ pos = 0
  /\ header = [f \in HeaderFields |-> Default(f)]
  /\ reading = "header"
  /\ decrypted = Nothing
  /\ imported = <<>>
-----------------------------------------------------------------------------
FileVars == <<file, typed>>

KdbxFails == reading' = "failed" /\ UNCHANGED <<FileVars, pos, header, decrypted, imported>>

(* The first checks of readKdbx, and those of parseHeader at the field that  *)
(* comes next: none left, longer than the file, another cipher.              *)
Refused ==
  \/ ~file.signature
  \/ pos = Len(file.header)
  \/ /\ file.cut /\ pos + 1 = Len(file.header)
  \/ \E k \in {pos + 1} \cap DOMAIN file.header :
       file.header[k].type = "cipherId" /\ file.header[k].data # "AES-256"

RefuseHeader == reading = "header" /\ Refused /\ KdbxFails

(* Not in the code: a field that comes twice keeps its first value.          *)
MutReadField ==
  LET field == file.header[pos + 1] IN
  /\ reading = "header" /\ ~Refused /\ field.type # "end"
  /\ pos' = pos + 1
  /\ header' = IF field.type \in HeaderFields /\ header[field.type] \in {Missing, "none"}
               THEN [header EXCEPT ![field.type] = field.data]
               ELSE header
  /\ UNCHANGED <<FileVars, reading, decrypted, imported>>

(* Fields of other types are skipped.                                        *)
ReadField ==
  LET field == file.header[pos + 1] IN
  /\ reading = "header" /\ ~Refused /\ field.type # "end"
  /\ pos' = pos + 1
  /\ header' = IF field.type \in HeaderFields
               THEN [header EXCEPT ![field.type] = field.data]
               ELSE header
  /\ UNCHANGED <<FileVars, reading, decrypted, imported>>

HeaderEnds ==
  /\ reading = "header" /\ ~Refused /\ file.header[pos + 1].type = "end"
  /\ pos' = pos + 1
  /\ reading' = IF \E f \in {"masterSeed", "transformSeed", "encryptionIv"} : header[f] = Missing
                THEN "failed" ELSE "body"
  /\ UNCHANGED <<FileVars, header, decrypted, imported>>
-----------------------------------------------------------------------------
(* deriveKdbxKey: rounds that are not given are none.                        *)
KdbxKey == <<typed, header.transformSeed, header.transformRounds, header.masterSeed>>

Garbage == [start |-> "garbage", framed |-> FALSE, compression |-> "garbage", entries |-> <<>>]

(* aes256CbcDecrypt: with a wrong key the padding is wrong, or, seldom, not; *)
(* a wrong iv damages the first block, which holds the start bytes or what   *)
(* the contents begin with.                                                  *)
KdbxDecrypt ==
  IF KdbxKey # file.key THEN {Nothing, Garbage}
  ELSE IF header.encryptionIv = file.iv THEN {file.body}
  ELSE IF file.body.start = Missing /\ file.body.compression = "gzip" THEN {Garbage}
  ELSE {[file.body EXCEPT !.start = "garbage"]}

DecryptBody ==
  /\ reading = "body"
  /\ \E data \in KdbxDecrypt :
       /\ decrypted' = data
       /\ reading' = IF \/ data = Nothing
                        \/ /\ header.streamStartBytes # Missing
                           /\ data.start # header.streamStartBytes
                     THEN "failed" ELSE "contents"
  /\ UNCHANGED <<FileVars, pos, header, imported>>

(* gzipDecompress is given the start bytes and the head of the block too,    *)
(* which no gzip begins with; in a text that is not compressed they are not  *)
(* noticed.                                                                  *)
Decompressed ==
  CASE header.compression = "gzip" ->
         IF decrypted.start = Missing /\ ~decrypted.framed /\ decrypted.compression = "gzip"
         THEN {decrypted.entries} ELSE {}
    [] OTHER -> {IF decrypted.compression = "none" THEN decrypted.entries ELSE <<>>}
-----------------------------------------------------------------------------
(* The blocks of an entry: the expression ends at the first </Entry>, which  *)
(* is that of the oldest version in the entry's history.                     *)
Blocks(entry) ==
  IF entry.history = <<>> THEN <<entry.strings>>
  ELSE <<entry.strings \o Head(entry.history)>> \o Tail(entry.history)

EmptyValue == [text |-> "", form |-> "plain", bytes |-> 0]

(* The strings of a block: a value of several lines, or an empty element, on *)
(* a line of its own, does not match (its string has lines), and the         *)
(* expression goes on to the next value that does, which it gives to the key *)
(* it began with. A later string overwrites an earlier one.                  *)
StringsOf(block) ==
  LET Value(k) == CHOOSE j \in k .. Len(block) : /\ ~block[j].lines
                                                 /\ \A i \in k .. j - 1 : block[i].lines
      n == Len(block)
      Starts(k) == (k = 1 \/ ~block[k - 1].lines) /\ \E j \in k .. n : ~block[j].lines
      Of(f) == {k \in 1 .. n : Starts(k) /\ block[k].key = f}
  IN [f \in EntryFields |->
        IF Of(f) = {} THEN EmptyValue
        ELSE block[Value(CHOOSE k \in Of(f) : \A j \in Of(f) : j <= k)].value]

(* What the parser makes of a value: entities are decoded one after another, *)
(* so that what one yields may be taken for the next.                        *)
Parsed(value) == IF value.form \in {"plain", "base64"} THEN value.text ELSE "lost"

(* decryptProtectedString is called for every value, protected or not: what  *)
(* decodes to 8 bytes at least is taken for an iv and what it encrypts, and  *)
(* comes back as it is when there is no key to decrypt with.                 *)
DecryptProtectedString(value) ==
  IF \/ value.form \in {"plain", "entity"} \/ value.bytes < 8
     \/ value.bytes > 8 /\ header.protectedStreamKey = Missing
  THEN Parsed(value)
  ELSE IF value.form = "ivPrefixed" /\ header.protectedStreamKey = file.streamKey
  THEN value.text
  ELSE "lost"

(* The title is not decrypted.                                               *)
KdbxItem(e) ==
  [f \in EntryFields |->
     IF f # "Title" THEN DecryptProtectedString(e[f])
     ELSE LET given == IF e.Title.text # "" THEN e.Title ELSE e.URL IN
          IF given.text = "" THEN "imported" ELSE Parsed(given)]

(* One item for a block with a title, a user name or a password.             *)
ItemsOf(block) ==
  LET e == StringsOf(block) IN
  IF \E f \in {"Title", "UserName", "Password"} : e[f].text # "" THEN <<KdbxItem(e)>> ELSE <<>>

ParseKdbxXml(entries) ==
  FlattenSeq([n \in DOMAIN entries |->
    LET blocks == Blocks(entries[n]) IN
    FlattenSeq([k \in DOMAIN blocks |-> ItemsOf(blocks[k])])])

ParseContents ==
  /\ reading = "contents"
  /\ \/ /\ Decompressed = {}
        /\ reading' = "failed" /\ UNCHANGED imported
     \/ \E entries \in Decompressed :
          reading' = "done" /\ imported' = ParseKdbxXml(entries)
  /\ UNCHANGED <<FileVars, pos, header, decrypted>>

KdbxNext ==
  \/ RefuseHeader
  \/ ReadField
  \/ HeaderEnds
  \/ DecryptBody
  \/ ParseContents

KdbxSpec == KdbxInit /\ [][KdbxNext]_kdbxVars
-----------------------------------------------------------------------------
(* A file whose writer meant what the header says: every field the reader    *)
(* needs is there with, at last, the value the body was made with.           *)
WellWritten ==
  LET upTo == {k \in DOMAIN file.header : \A j \in 1 .. k : file.header[j].type # "end"}
      At(f) == {k \in upTo : file.header[k].type = f}
      Given(f, value) ==
        At(f) # {} /\ file.header[CHOOSE k \in At(f) : \A j \in At(f) : j <= k].data = value
  IN /\ file.signature /\ ~file.cut
     /\ upTo # DOMAIN file.header
     /\ \A k \in At("cipherId") : file.header[k].data = "AES-256"
     /\ file.key[1] = typed
     /\ Given("transformSeed", file.key[2]) /\ Given("transformRounds", file.key[3])
     /\ Given("masterSeed", file.key[4]) /\ Given("encryptionIv", file.iv)
     /\ Given("protectedStreamKey", file.streamKey)
     /\ Given("compression", file.body.compression)
     /\ file.body.start # Missing => Given("streamStartBytes", file.body.start)
     /\ file.body.start = Missing => At("streamStartBytes") = {}

(* Nothing but the text in the body.                                         *)
Bare == file.body.start = Missing /\ ~file.body.framed

(* Entries in which the parser is not led astray: no history, no value of    *)
(* several lines, and of the values only some forms.                         *)
Straight(entry, forms) ==
  /\ entry.history = <<>>
  /\ \A k \in DOMAIN entry.strings :
       ~entry.strings[k].lines /\ entry.strings[k].value.form \in forms

(* What an entry says: the last of its strings with that key.                *)
ValueOf(entry, f) ==
  LET at == {k \in DOMAIN entry.strings : entry.strings[k].key = f} IN
  IF at = {} THEN EmptyValue
  ELSE entry.strings[CHOOSE k \in at : \A j \in at : j <= k].value

(* What is to become of an entry: an item of its texts, unless it has none   *)
(* of three of them. A protected text is lost, and so is an encrypted title. *)
Meant(entry, f) ==
  LET given == IF f = "Title" /\ ValueOf(entry, f).text = "" THEN ValueOf(entry, "URL")
               ELSE ValueOf(entry, f)
  IN IF f = "Title" /\ given.text = "" THEN "imported"
     ELSE IF given.form = "protected" \/ (f = "Title" /\ given.form = "ivPrefixed")
     THEN "lost" ELSE given.text

MeantItems(entry) ==
  IF \E f \in {"Title", "UserName", "Password"} : ValueOf(entry, f).text # ""
  THEN <<[f \in EntryFields |-> Meant(entry, f)]>> ELSE <<>>

AllMeant ==
  imported = FlattenSeq([n \in DOMAIN file.body.entries |-> MeantItems(file.body.entries[n])])

AllStraight(forms) == \A n \in DOMAIN file.body.entries : Straight(file.body.entries[n], forms)

(* KdbxReadsTrue: in whatever order its header fields come, a well written   *)
(* file opened with its password is refused exactly if its text is           *)
(* compressed and anything precedes it in the body, as in every file with    *)
(* start bytes; and of every other, each entry comes out as one item and in  *)
(* order, with the texts of its own strings: those that were written plainly *)
(* or the way the reader's comment says, while protected texts are lost      *)
(* (kdbx-reader.ts 182-265, 433-532, 570-686).                               *)
KdbxReadsTrue ==
  WellWritten =>
    /\ reading = "failed" => file.body.compression = "gzip" /\ ~Bare
    /\ reading = "done" => file.body.compression = "none" \/ Bare
    /\ reading = "done" /\ AllStraight({"plain", "ivPrefixed", "protected"}) => AllMeant

(* CompressedIsRead: what the comment on readKdbx says, that files of KDBX   *)
(* 3.1 with GZip compression are supported (kdbx-reader.ts 555-558). It does *)
(* not hold: the start bytes go into gzipDecompress (635-639).               *)
CompressedIsRead == WellWritten /\ file.body.compression = "gzip" => reading # "failed"
=============================================================================
