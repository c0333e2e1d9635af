------------------------------ MODULE CsvFormat ------------------------------
(***************************************************************************)
(* shared-crypto/src/csv-parser.ts: vaultItemsToAmeenCsv writes a vault as   *)
(* CSV text, parseCsvToVaultItems reads such a text, or a browser's, back.   *)
(*                                                                           *)
(* A text is a sequence of characters; a column's name, which needs no       *)
(* quotes, is one of them. Ids, dates and revisions are left out: what is    *)
(* read gets new ones.                                                       *)
(***************************************************************************)
EXTENDS Integers, Sequences, SequencesExt

CONSTANT Exports   \* the vaults that are written: sequences of items

AmeenColumns == <<"id", "type", "title", "username", "password", "url", "content",
                  "cardholder", "number", "expiry", "cvv", "notes", "otpSecret">>

(* What an item is made of here; a missing field is written as ''.           *)
ItemFields == {"title", "username", "password", "url", "content", "notes", "otpSecret"}

(* An item of type 'password' has no content.                                *)
ASSUME CsvAssumption == \A items \in Exports :
  /\ items \in Seq([ItemFields -> Seq(STRING)])
  /\ \A n \in DOMAIN items : items[n]["content"] = <<>>

VARIABLE exported   \* the vault that is written
-----------------------------------------------------------------------------
IsBlank(c) == c \in {" ", "\n"}

(* trim                                                                      *)
Trim(t) ==
  LET ink == {k \in DOMAIN t : ~IsBlank(t[k])} IN
  IF ink = {} THEN <<>>
  ELSE SubSeq(t, CHOOSE k \in ink : \A j \in ink : k <= j,
                 CHOOSE k \in ink : \A j \in ink : j <= k)

(* Not in the code: a doubled quote ends the quoted part and begins another. *)
MutSplitStep(s, c) ==
  IF c = "\"" THEN [s EXCEPT !.mode = IF @ = "quoted" THEN "plain" ELSE "quoted"]
  ELSE IF s.mode # "quoted" /\ c = ","
  THEN [fields |-> Append(s.fields, Trim(s.current)), current |-> <<>>, mode |-> "plain"]
  ELSE [s EXCEPT !.current = Append(@, c)]

(* One character of splitCsvLine. In the mode "quote" the quoted part has    *)
(* ended, unless a second quote follows.                                     *)
SplitStep(s, c) ==
  IF s.mode = "quoted"
  THEN IF c = "\"" THEN [s EXCEPT !.mode = "quote"] ELSE [s EXCEPT !.current = Append(@, c)]
  ELSE IF c = "\""
  THEN [s EXCEPT !.mode = "quoted", !.current = IF s.mode = "quote" THEN Append(@, c) ELSE @]
  ELSE IF c = ","
  THEN [fields |-> Append(s.fields, Trim(s.current)), current |-> <<>>, mode |-> "plain"]
  ELSE [s EXCEPT !.mode = "plain", !.current = Append(@, c)]

SplitCsvLine(line) ==
  LET scan[n \in 0 .. Len(line)] ==
        IF n = 0 THEN [fields |-> <<>>, current |-> <<>>, mode |-> "plain"]
        ELSE SplitStep(scan[n - 1], line[n])
      s == scan[Len(line)]
  IN Append(s.fields, Trim(s.current))

(* csvText.split(...) without the empty lines.                               *)
Inked(line) == IF Trim(line) = <<>> THEN <<>> ELSE <<line>>

LineStep(s, c) ==
  IF c = "\n" THEN [lines |-> s.lines \o Inked(s.current), current |-> <<>>]
  ELSE [s EXCEPT !.current = Append(@, c)]

Lines(text) ==
  LET scan[n \in 0 .. Len(text)] ==
        IF n = 0 THEN [lines |-> <<>>, current |-> <<>>]
        ELSE LineStep(scan[n - 1], text[n])
      s == scan[Len(text)]
  IN s.lines \o Inked(s.current)
-----------------------------------------------------------------------------
(* detectCsvFormat. The format 'edge' is recognised by its own columns: the  *)
(* test that would turn 'chrome' into 'edge' never holds.                    *)
Signature ==
  [chrome  |-> <<"name", "url", "username", "password">>,
   firefox |-> <<"url", "username", "password", "httpRealm", "formActionOrigin", "guid",
                 "timeCreated", "timePasswordChanged">>,
   edge    |-> <<"name", "url", "username", "password", "note">>,
   safari  |-> <<"title", "url", "username", "password", "otpauth">>,
   ameen   |-> AmeenColumns]

(* The column each field of an item is read from; "" is none.                *)
ColumnOf ==
  LET none == [f \in ItemFields |-> ""]
      common == [none EXCEPT !.username = "username", !.password = "password", !.url = "url"]
  IN [chrome  |-> [common EXCEPT !.title = "name"],
      edge    |-> [common EXCEPT !.title = "name", !.notes = "note"],
      firefox |-> [common EXCEPT !.title = "url"],
      safari  |-> [common EXCEPT !.title = "title", !.otpSecret = "otpauth"],
      ameen   |-> [common EXCEPT !.title = "title", !.notes = "notes",
                                 !.otpSecret = "otpSecret"]]

DetectCsvFormat(columns) ==
  {f \in DOMAIN Signature : columns = [k \in DOMAIN Signature[f] |-> <<Signature[f][k]>>]}

(* mapRowToVaultItem: no item, or one of type 'password'.                    *)
Titled(title, url) == IF title # <<>> THEN title ELSE IF url # <<>> THEN url ELSE <<"imported">>

ItemOf(read, title) ==
  IF title = <<>> /\ read.username = <<>> /\ read.password = <<>> /\ read.url = <<>>
  THEN <<>> ELSE <<[read EXCEPT !.title = Titled(title, read.url)]>>

MapRow(fields, headers, format) ==
  LET Get(name) ==
        LET at == {k \in DOMAIN headers \cap DOMAIN fields : headers[k] = <<name>>} IN
        IF at = {} THEN <<>> ELSE fields[CHOOSE k \in at : \A j \in at : k <= j]
      read == [f \in ItemFields |-> Get(ColumnOf[format][f])]
  IN ItemOf(read, IF format = "firefox" /\ read.title = <<>> THEN read.username ELSE read.title)

ParseCsvToVaultItems(text) ==
  LET lines == Lines(text)
      headers == SplitCsvLine(lines[1])
      formats == DetectCsvFormat(headers)
  IN IF Len(lines) < 2 \/ formats = {} THEN <<>>
     ELSE FlattenSeq([n \in 1 .. Len(lines) - 1 |->
            MapRow(SplitCsvLine(lines[n + 1]), headers, CHOOSE f \in formats : TRUE)])
-----------------------------------------------------------------------------
EscapeField(t) ==
  IF \E k \in DOMAIN t : t[k] \in {",", "\"", "\n"}
  THEN <<"\"">> \o FlattenSeq([k \in DOMAIN t |-> IF t[k] = "\"" THEN <<"\"", "\"">> ELSE <<t[k]>>])
       \o <<"\"">>
  ELSE t

(* join                                                                      *)
JoinWith(separator, parts) ==
  FlattenSeq([k \in DOMAIN parts |-> IF k = 1 THEN parts[k] ELSE <<separator>> \o parts[k]])

Cell(item, column) ==
  IF column \in ItemFields THEN item[column]
  ELSE IF column \in {"id", "type"} THEN <<column>> ELSE <<>>

Row(item) ==
  JoinWith(",", [k \in DOMAIN AmeenColumns |-> EscapeField(Cell(item, AmeenColumns[k]))])

HeaderLine == JoinWith(",", [k \in DOMAIN AmeenColumns |-> <<AmeenColumns[k]>>])

VaultItemsToAmeenCsv(items) ==
  JoinWith("\n", <<HeaderLine>> \o [n \in DOMAIN items |-> Row(items[n])])

CsvInit == exported \in Exports

(* A vault that is only looked at.                                           *)
CsvSpec == CsvInit /\ [][FALSE]_exported
-----------------------------------------------------------------------------
(* What is to come back of an item.                                          *)
Kept(item) ==
  LET t == [f \in ItemFields |-> Trim(item[f])] IN
  IF \A f \in {"title", "username", "password", "url"} : t[f] = <<>> THEN <<>>
  ELSE <<[t EXCEPT !.title = Titled(@, t.url)]>>

(* ReimportKeeps: a vault of passwords that is exported is read back, item   *)
(* by item, whatever commas and quotes its fields hold: only the blanks at   *)
(* the ends of a field are lost, a title that was missing is made up, and an *)
(* item that has none of the four main fields is left out. Of a field with a *)
(* line break nothing is said: the text is cut into lines before quotes are  *)
(* looked at (csv-parser.ts 37-68, 105-132, 137-214, 225-258).               *)
ReimportKeeps ==
  (\A n \in DOMAIN exported : \A f \in ItemFields : ~Contains(exported[n][f], "\n"))
  => ParseCsvToVaultItems(VaultItemsToAmeenCsv(exported))
       = FlattenSeq([n \in DOMAIN exported |-> Kept(exported[n])])
=============================================================================
