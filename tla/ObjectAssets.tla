----------------------------- MODULE ObjectAssets -----------------------------
(***************************************************************************)
(* The asset an object is kept as between a take and a rez                 *)
(* (object_asset.cpp): serialize_linkset_asset writes a link set as text,  *)
(* parse_linkset_asset cuts that text into parts again by counting braces  *)
(* outside strings, parse_object_asset looks each field up by the first    *)
(* place its marker stands at, and parse_task_inventory cuts and reads the *)
(* contents.  A text is a sequence of tokens: one per character of a       *)
(* string, one per bracket, one per marker or number.  Since a quote       *)
(* inside a string is written with a backslash before it, no string        *)
(* contains a marker, and a marker is one token.                           *)
(***************************************************************************)
EXTENDS Integers, Sequences, SequencesExt

CONSTANTS
  Strings,    \* the names and descriptions tried: sequences of Characters
  Settings,   \* the numbers tried: a field and an amount, in hundredths
  PartLimit,  \* the parts of a link set its reader accepts, 256 in the code
  ItemLimit,  \* the items of a part its reader accepts, 1024 in the code
  MaxAssetParts,   \* bound: parts of a link set; above PartLimit
  MaxItems    \* bound: items of the part that has contents; above ItemLimit

Characters == {"letter", "quote", "backslash", "newline", "control", "{", "}", "]", ","}

VARIABLES
  linkset,    \* the parts as they stand in the scene, the root first
  asset,      \* the text they are stored as; << >> until they are taken
  rezzed      \* whether a rez has read it, and what it read, if it could

assetVars == <<linkset, asset, rezzed>>

\* What an edit of a viewer can leave in a field (the checks of the object
\* handlers of main.cpp), and what the reader accepts; in hundredths.
EditorRange == [scale |-> 1..6400, material |-> 0..700, density |-> 100..2258700,
                friction |-> 0..25500, restitution |-> 0..100, gravity |-> (-100)..2800,
                shape |-> 0..200, hollow |-> 0..6553500]
ReaderRange == [scale |-> 1..6400, material |-> 0..700, density |-> 100..2258700,
                friction |-> 0..25500, restitution |-> 0..100, gravity |-> (-100)..2800,
                shape |-> 0..200, hollow |-> 0..6553500]

AssetPart(name, setting, items) == [name |-> name, setting |-> setting, items |-> items]

AssetsInit ==
  /\ \E first \in Strings, second \in Strings, inside \in Strings,
        setting \in Settings, parts \in 1..MaxAssetParts, items \in 0..MaxItems :
       /\ setting.amount \in EditorRange[setting.field]
       /\ linkset = [k \in 1..parts |->
            IF k = 1 THEN AssetPart(first, setting, [i \in 1..items |-> inside])
                     ELSE AssetPart(second, setting, <<>>)]
  /\ asset = <<>>
  /\ rezzed = [done |-> FALSE, parts |-> {}]

-----------------------------------------------------------------------------
(* Writing.                                                                *)

Character(text) == [kind |-> "symbol", text |-> text]
Figure(n) == [kind |-> "number", value |-> n]

\* Mutant: a backslash stands for itself.
EscapedQuotes(character) ==
  CASE character = "quote" -> <<Character("backslash"), Character(character)>>
    [] character = "newline" -> <<Character("backslash"), Character("n")>>
    [] character = "control" -> <<Character("backslash"), Character("u")>>
    [] OTHER -> <<Character(character)>>

\* json_string: a control character without a letter of its own is written
\* as \u and its code.
Escaped(character) ==
  CASE character \in {"quote", "backslash"} -> <<Character("backslash"), Character(character)>>
    [] character = "newline" -> <<Character("backslash"), Character("n")>>
    [] character = "control" -> <<Character("backslash"), Character("u")>>
    [] OTHER -> <<Character(character)>>

Quoted(string) ==
  <<Character("quote")>> \o FlattenSeq([k \in DOMAIN string |-> Escaped(string[k])])
                      \o <<Character("quote")>>

Listed(texts) ==
  <<Character("[")>>
    \o FlattenSeq([k \in DOMAIN texts |-> IF k = 1 THEN texts[k] ELSE <<Character(",")>> \o texts[k]])
    \o <<Character("]")>>

ItemText(item) == <<Character("{"), Character("name:")>> \o Quoted(item) \o <<Character("}")>>

\* object_json: the part's own fields come before its contents, so that the
\* first name in the text is the part's.
PartText(part) ==
  <<Character("{"), Character("name:")>> \o Quoted(part.name)
    \o <<Character(","), Character("setting:"), Figure(part.setting), Character(","), Character("items:")>>
    \o Listed([k \in DOMAIN part.items |-> ItemText(part.items[k])])
    \o <<Character("}")>>

SerializeLinkset(parts) ==
  IF Len(parts) = 1 THEN PartText(parts[1])
  ELSE <<Character("{"), Character("parts:")>>
         \o Listed([k \in DOMAIN parts |-> PartText(parts[k])]) \o <<Character("}")>>

-----------------------------------------------------------------------------
(* Reading.  What a reader makes of a text is a set: empty if it refuses.  *)

After(text, marker) ==
  LET places == {k \in DOMAIN text : text[k] = Character(marker)}
  IN IF places = {} THEN 0 ELSE 1 + CHOOSE k \in places : \A other \in places : k <= other

\* string_after, one character at a time.
ReadCharacter(reading, token) ==
  CASE reading.phase \in {"done", "refused"} -> reading
    [] reading.phase = "before" -> [reading EXCEPT !.phase = "inside"]
    [] reading.phase = "escaped" ->
         IF token.text \in {"quote", "backslash", "n"}
         THEN [phase |-> "inside",
               string |-> Append(reading.string,
                                 IF token.text = "n" THEN "newline" ELSE token.text)]
         ELSE [reading EXCEPT !.phase = "refused"]
    [] token = Character("quote") -> [reading EXCEPT !.phase = "done"]
    [] token = Character("backslash") -> [reading EXCEPT !.phase = "escaped"]
    [] OTHER -> [reading EXCEPT !.string = Append(@, token.text)]

ReadString(text, start) ==
  LET read == FoldLeft(ReadCharacter, [phase |-> "before", string |-> <<>>],
                       SubSeq(text, start, Len(text)))
  IN IF start = 0 \/ read.phase # "done" THEN {} ELSE {read.string}

\* The scan that parts and contents are cut by: where each of the top level's
\* objects begins and ends, and whether the list was closed.
ScanToken(scan, token) ==
  LET at == scan.at + 1
      next == [scan EXCEPT !.at = at]
      is(text) == token = Character(text)
  IN CASE scan.phase \in {"closed", "refused"} -> scan
       [] scan.quoted ->
            [next EXCEPT !.escaped = ~scan.escaped /\ is("backslash"),
                         !.quoted = scan.escaped \/ ~is("quote")]
       [] scan.depth = 0 /\ is(",") -> next
       [] scan.depth = 0 /\ is("]") -> [next EXCEPT !.phase = "closed"]
       [] scan.depth = 0 /\ (~is("{") \/ Len(scan.found) >= scan.limit) ->
            [next EXCEPT !.phase = "refused"]
       [] scan.depth = 0 -> [next EXCEPT !.depth = 1, !.begin = at]
       [] is("quote") -> [next EXCEPT !.quoted = TRUE]
       [] is("{") -> [next EXCEPT !.depth = @ + 1]
       [] is("}") /\ scan.depth = 1 ->
            [next EXCEPT !.depth = 0, !.found = Append(@, <<scan.begin, at>>)]
       [] is("}") -> [next EXCEPT !.depth = @ - 1]
       [] OTHER -> next

\* The texts of the list that follows a marker; its bracket is stepped over.
Cut(text, start, limit) ==
  LET list == SubSeq(text, start + 1, Len(text))
      scan == FoldLeft(ScanToken,
                [phase |-> "open", at |-> 0, depth |-> 0, quoted |-> FALSE, escaped |-> FALSE,
                 begin |-> 0, found |-> <<>>, limit |-> limit], list)
  IN IF scan.phase # "closed" THEN {}
     ELSE {[k \in DOMAIN scan.found |-> SubSeq(list, scan.found[k][1], scan.found[k][2])]}

\* Every text of a list read, or none.
ReadAll(texts, read(_)) ==
  IF \E k \in DOMAIN texts : read(texts[k]) = {} THEN {}
  ELSE {[k \in DOMAIN texts |-> CHOOSE value \in read(texts[k]) : TRUE]}

ReadName(text) == ReadString(text, After(text, "name:"))

ParseTaskInventory(text) ==
  UNION {ReadAll(texts, ReadName) : texts \in Cut(text, After(text, "items:"), ItemLimit)}

ParseObject(text) ==
  LET number == text[After(text, "setting:")]
  IN {AssetPart(name, number.value, items) :
        name \in ReadName(text),
        items \in IF number.value.amount \in ReaderRange[number.value.field]
                  THEN ParseTaskInventory(text) ELSE {}}

ParseLinkset(text) ==
  LET list == After(text, "parts:")
      cut == IF list = 0 THEN {<<text>>} ELSE Cut(text, list, PartLimit) \ {<<>>}
  IN UNION {ReadAll(texts, ParseObject) : texts \in cut}

-----------------------------------------------------------------------------

\* DeRezObject stores the text; what it was taken from stays as a reference.
TakeLinkset ==
  /\ asset = <<>>
  /\ asset' = SerializeLinkset(linkset)
  /\ UNCHANGED <<linkset, rezzed>>

\* RezObject reads it.
RezLinkset ==
  /\ asset # <<>> /\ ~rezzed.done
  /\ rezzed' = [done |-> TRUE, parts |-> ParseLinkset(asset)]
  /\ UNCHANGED <<linkset, asset>>

AssetsNext == TakeLinkset \/ RezLinkset

AssetsSpec == AssetsInit /\ [][AssetsNext]_assetVars

-----------------------------------------------------------------------------
(* Properties.                                                             *)

\* A text and what is read from it stand only where their steps put them.
AssetsTypeOK ==
  /\ Len(linkset) \in 1..MaxAssetParts
  /\ rezzed.done => asset # <<>>

Readable(part) ==
  /\ \A k \in DOMAIN part.name : part.name[k] # "control"
  /\ \A i \in DOMAIN part.items : \A k \in DOMAIN part.items[i] : part.items[i][k] # "control"
  /\ Len(part.items) <= ItemLimit

\* What was taken is rezzed as it was, whatever quotes, brackets and
\* backslashes its names and its contents' names hold and wherever an edit may
\* have left its numbers, unless a name has a bare control character or there
\* are more parts or items than the reader takes.
TakenComesBack ==
  rezzed.done /\ Len(linkset) <= PartLimit /\ (\A k \in DOMAIN linkset : Readable(linkset[k]))
    => rezzed.parts = {linkset}

\* A text its reader does not take whole is refused, never read as another
\* object.
NothingMisread == rezzed.parts \subseteq {linkset}

\* Does not hold: whatever can be taken can be rezzed.
EveryTakenRezzes == rezzed.done => rezzed.parts # {}

=============================================================================
