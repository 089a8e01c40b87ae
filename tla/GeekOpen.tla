------------------------------- MODULE GeekOpen -------------------------------
(***************************************************************************)
(* The decoder of GeekOpen packets, plugins/geekopen.cpp: its scanner of   *)
(* flat JSON objects, one action per turn of the loop, and what a packet   *)
(* makes it write to the streams.  A connection has a context of its own   *)
(* and decodes one packet at a time.                                       *)
(*                                                                         *)
(* A packet is a sequence of characters; letters that the code compares as *)
(* a whole ("mac", "key") are one character here, and "voltage" stands for *)
(* the four sensors.  Behind the packet lies one character, repeated.      *)
(***************************************************************************)
EXTENDS Integers, Sequences, SequencesExt

CONSTANTS Documents,      \* well-formed objects: sequences of keys and values
          Interrupted,    \* those of which a part may arrive as a packet
          Noise,          \* other packets: sequences of characters
          Behind,         \* the characters that may lie behind a packet
          MaxProperties,  \* max_properties
          Base,           \* the values of a hexadecimal digit: 16
          MacDigits       \* the digits of a mac address: 12; the user type has
                          \* 4 more, and both fill a stream id of 64 bits

VARIABLES
  packet,      \* json .. json_end
  behind,      \* the character behind it
  state,       \* the state of the scanner, or where the decoder is around it
  p,           \* the character it is at
  turns,       \* history: the turns of its loop
  key,         \* key_begin and key_end of the property that is being read
  properties,  \* the properties that are counted
  user,        \* m_user_context0: the user id, 0 while it is not known
  mac,         \* history: what the user id was made from, with both quotes
  written      \* what the last packet wrote: the key and the stream id

scanner == <<packet, behind, state, p, turns, key, properties>>
geekVars == <<scanner, user, mac, written>>

End == Len(packet) + 1

Char(i) == IF i <= Len(packet) THEN packet[i] ELSE behind

Extent == [begin : 1 .. End + 1, end : 1 .. End + 1]

\* How many values n digits have.
Values[n \in 0 .. MacDigits + 4] == IF n = 0 THEN 1 ELSE Values[n - 1] * Base

\* A value of 64 bits.
Word == Values[MacDigits + 4]

Characters == {"sp", "{", "}", "q", ":", ",", "d0", "d1", "d2", "mac", "voltage",
               "key", "Lock", "x"}

\* The low four bits of a character.
LowBits ==
  [c \in Characters |->
     CASE c \in {"sp", "d0"} -> 0 [] c = "d1" -> 1 [] c \in {"q", "d2"} -> 2
       [] c = "voltage" -> 6 [] c = "x" -> 8 [] c = ":" -> 10 [] c \in {"{", "key"} -> 11
       [] c \in {",", "Lock"} -> 12 [] c \in {"}", "mac"} -> 13]

\* The value of a hexadecimal digit; other characters are read as 0.
Digit(c) == IF c \in {"d1", "d2"} THEN LowBits[c] ELSE 0

TypeOK ==
  /\ packet \in Seq(Characters)
  /\ behind \in Behind
  /\ state \in {"idle", "ObjectStart", "KeyOrObjectEnd", "Colon", "Value",
                "CommaOrObjectEnd", "parsed", "learnt"}
  /\ p \in 1 .. End + 2 /\ turns \in Nat
  /\ key.begin \in 1 .. End + 1 /\ key.end \in 1 .. End + 1
  /\ \A i \in DOMAIN properties :
       properties[i].key \in Extent /\ properties[i].value \in Extent
  /\ Len(properties) <= MaxProperties
  /\ user \in 0 .. Word - 1

Init ==
  /\ packet = <<>> /\ state = "idle" /\ p = 1 /\ turns = 0
  /\ key = [begin |-> 1, end |-> 1] /\ properties = <<>>
  /\ behind \in Behind
  /\ user = 0 /\ mac = <<>> /\ written = <<>>

\* A value that is a string, without its closing quote.
Quoted(value) == value # <<>> /\ Head(value) = "q"

Closing(value) == IF Quoted(value) THEN <<"q">> ELSE <<>>

PropertyText(document, pad, i) ==
  FlattenSeq(<<pad, <<"q">>, document[i].key, <<"q">>, pad, <<":">>, pad,
               document[i].value, Closing(document[i].value), pad,
               IF i = Len(document) THEN <<>> ELSE <<",">> >>)

\* The text of a document, with white space as pad before every token.
TextOf(document, pad) ==
  FlattenSeq(<<pad, <<"{">>,
               FlattenSeq([i \in DOMAIN document |-> PropertyText(document, pad, i)]),
               <<"}">> >>)

\* A flat object: keys are strings, values strings or numbers, and strings hold
\* no quote.
WellFormed(document) ==
  LET Strings == Seq(Characters \ {"q"}) IN
  \A i \in DOMAIN document :
    LET value == document[i].value IN
    /\ document[i].key \in Strings
    /\ IF Quoted(value) THEN Tail(value) \in Strings
       ELSE value \in Seq(Characters \ {"sp", "q", ",", "}"}) /\ value # <<>>

Pads == {<<>>, <<"sp">>}

\* What a device may send.
Packets ==
  LET texts(documents) == {TextOf(d, pad) : d \in documents, pad \in Pads}
      begins(text) == {SubSeq(text, 1, n) : n \in 0 .. Len(text) - 1}
  IN texts(Documents) \cup (UNION {begins(t) : t \in texts(Interrupted)}) \cup Noise

\* A packet arrives.
Receive ==
  /\ state = "idle"
  /\ packet' \in Packets /\ behind' \in Behind
  /\ state' = "ObjectStart"
  /\ written' = <<>>
  /\ UNCHANGED <<p, turns, key, properties, user, mac>>

------------------------------------------------------------------------------
(* s_parse_json.                                                           *)

\* The first of the characters from i on, or the end of the packet.
FirstFrom(i, chars) ==
  LET hits == {k \in i .. Len(packet) : packet[k] \in chars}
  IN IF i >= End THEN i ELSE IF hits = {} THEN End ELSE Min(hits)

\* trim_whitespace: the scanner does not compare the place with the end again.
At == FirstFrom(p, ToSet(packet) \ {"sp"})

Here == Char(At)

\* The loop goes on, in state s.
Turn(s) ==
  /\ state = s /\ p < End
  /\ turns' = turns + 1
  /\ UNCHANGED <<packet, behind, user, mac, written>>

ExpectObjectStart ==
  /\ Turn("ObjectStart")
  /\ state' = IF Here = "{" THEN "KeyOrObjectEnd" ELSE state
  /\ p' = At + 1
  /\ UNCHANGED <<key, properties>>

\* Mutant: no room is needed.
ReadKeyAnyhow ==
  LET close == FirstFrom(At + 1, {"q"}) IN
  key' = [begin |-> At + 1, end |-> close] /\ p' = close + 1 /\ state' = "Colon"

\* A key, if there is room for its property.
ReadKey ==
  LET close == FirstFrom(At + 1, {"q"}) IN
  IF Len(properties) < MaxProperties
  THEN key' = [begin |-> At + 1, end |-> close] /\ p' = close + 1 /\ state' = "Colon"
  ELSE state' = "parsed" /\ UNCHANGED <<key, p>>

\* Mutant: what is neither a key nor the end is looked at again.
SkipNothing == p' = At /\ UNCHANGED <<state, key>>

SkipOne == p' = At + 1 /\ UNCHANGED <<state, key>>

ExpectKeyOrObjectEnd ==
  /\ Turn("KeyOrObjectEnd")
  /\ \/ Here = "}" /\ state' = "parsed" /\ UNCHANGED <<p, key>>
     \/ Here = "q" /\ ReadKey
     \/ Here \notin {"}", "q"} /\ SkipOne
  /\ UNCHANGED properties

ExpectColon ==
  /\ Turn("Colon")
  /\ state' = IF Here = ":" THEN "Value" ELSE state
  /\ p' = At + 1
  /\ UNCHANGED <<key, properties>>

\* Mutant: a string ends where a number would.
ValueEndAnyhow == FirstFrom(At, {",", "}"})

\* Mutant: the closing quote belongs to the value.
ValueEndWithQuote ==
  IF Here = "q" THEN FirstFrom(At + 1, {"q"}) + 1 ELSE FirstFrom(At, {",", "}"})

\* A string ends at its closing quote, anything else at a comma or a brace.
ValueEnd ==
  IF Here = "q" THEN FirstFrom(At + 1, {"q"}) ELSE FirstFrom(At, {",", "}"})

ExpectValue ==
  /\ Turn("Value")
  /\ properties' =
       Append(properties, [key |-> key, value |-> [begin |-> At, end |-> ValueEnd]])
  /\ p' = IF Here = "q" THEN ValueEnd + 1 ELSE ValueEnd
  /\ state' = "CommaOrObjectEnd"
  /\ UNCHANGED key

ExpectCommaOrObjectEnd ==
  /\ Turn("CommaOrObjectEnd")
  /\ \/ Here = "}" /\ state' = "parsed" /\ UNCHANGED p
     \/ Here = "," /\ state' = "KeyOrObjectEnd" /\ p' = At + 1
     \/ Here \notin {"}", ","} /\ p' = At + 1 /\ UNCHANGED state
  /\ UNCHANGED <<key, properties>>

\* Mutant: the property that is being read counts at the end of the packet.
CountPending ==
  properties' = IF state \in {"Colon", "Value"} /\ Len(properties) < MaxProperties
                THEN Append(properties, [key |-> key, value |-> [begin |-> End, end |-> End]])
                ELSE properties

CountComplete == UNCHANGED properties

\* The loop has come to the end of the packet.
ParseEnds ==
  /\ state \notin {"idle", "parsed", "learnt"} /\ p >= End
  /\ state' = "parsed"
  /\ CountComplete
  /\ UNCHANGED <<packet, behind, p, turns, key, user, mac, written>>

------------------------------------------------------------------------------
(* decoder_build_ui_element and decoder_write_to_stream.                   *)

\* The characters of an extent, which string_allocate copies.
Text(extent) == [i \in 1 .. extent.end - extent.begin |-> Char(extent.begin + i - 1)]

\* The items of the ui element.
Items ==
  [i \in DOMAIN properties |->
     [key |-> Text(properties[i].key), value |-> Text(properties[i].value)]]

\* Mutant: the closing quote is not read.
MacTextWithoutQuote(extent) == Text([extent EXCEPT !.begin = @ + 1])

\* The value without its first character, but as many characters as it has:
\* the closing quote is one of them.
MacText(extent) == Text([begin |-> extent.begin + 1, end |-> extent.end + 1])

UserId(text) == FoldLeft(LAMBDA id, c : (id * Base + Digit(c)) % Word, 0, text)

MacProperties == {i \in DOMAIN properties : Text(properties[i].key) = <<"mac">>}

\* While the user id is not known: the first mac address of the packet.
LearnUser ==
  /\ state = "parsed"
  /\ state' = "learnt"
  /\ IF user = 0 /\ MacProperties # {}
     THEN LET value == properties[Min(MacProperties)].value IN
          /\ user' = UserId(MacText(value))
          /\ mac' = Text([value EXCEPT !.end = @ + 1])
     ELSE UNCHANGED <<user, mac>>
  /\ UNCHANGED <<packet, behind, p, turns, key, properties, written>>

\* user_id << 16: what is left of the user id in the stream id.
StreamUser == user % Values[MacDigits]

\* Mutant: the low quarter of the character.
SwitchOfQuarter(c) == IF LowBits[c] % 4 = 0 THEN 1 ELSE LowBits[c] % 4

\* The number of a switch is the low half of the character behind "key",
\* whatever that is, and 1 for 0.
Switch(c) == IF LowBits[c] = 0 THEN 1 ELSE LowBits[c]

\* The user types that a property is written under.
WrittenAs(property) ==
  LET first == Char(property.key.begin) IN
  IF Text(property.key) = <<"voltage">> THEN {<<"voltage", 0>>}
  ELSE IF first = "key" THEN {<<"switch", Switch(Char(property.key.begin + 1))>>}
  ELSE {}

StreamId(type) == [user |-> StreamUser, type |-> type]

\* The packet as it is, and each property that is of interest.
Writes ==
  <<[key |-> <<>>, id |-> StreamId(<<"json", 0>>)]>> \o
  FlattenSeq([i \in DOMAIN properties |->
                SetToSeq({[key |-> Text(properties[i].key), id |-> StreamId(type)] :
                            type \in WrittenAs(properties[i])})])

WriteToStream ==
  /\ state = "learnt"
  /\ written' = IF user # 0 THEN Writes ELSE <<>>
  /\ packet' = <<>> /\ state' = "idle" /\ p' = 1 /\ turns' = 0
  /\ key' = [begin |-> 1, end |-> 1] /\ properties' = <<>>
  /\ UNCHANGED <<behind, user, mac>>

Decode ==
  \/ ExpectObjectStart \/ ExpectKeyOrObjectEnd \/ ExpectColon
  \/ ExpectValue \/ ExpectCommaOrObjectEnd \/ ParseEnds
  \/ LearnUser \/ WriteToStream

Next == Receive \/ Decode

Spec == Init /\ [][Next]_geekVars

------------------------------------------------------------------------------

\* The value of the document, or a number with the white space behind it.
SameValue(read, value) ==
  \/ read = value
  \/ ~Quoted(value) /\ read = value \o <<"sp">>

\* The first n properties of the document were read.
ReadUpTo(n, document) ==
  \A i \in 1 .. n : /\ Items[i].key = document[i].key
                    /\ SameValue(Items[i].value, document[i].value)

WellFormedAreRead ==
  state = "parsed" => \A d \in Documents, pad \in Pads :
    packet = TextOf(d, pad) =>
      /\ Len(properties) = Min({Len(d), MaxProperties})
      /\ ReadUpTo(Len(properties), d)

CutOffInventsNothing ==
  state = "parsed" => \A d \in Documents, pad \in Pads :
    IsPrefix(packet, TextOf(d, pad)) =>
      /\ Len(properties) <= Len(d)
      /\ ReadUpTo(Len(properties) - 1, d)
      /\ \A i \in DOMAIN properties : Items[i].key = d[i].key

\* A well-formed object is read as what it is, whatever its strings hold: each
\* property up to max_properties.  Of an object that is cut off, whatever lies
\* behind it, no property is made up: each has the key it should have and all
\* but the last their value.
DocumentsAreRead == WellFormedAreRead /\ CutOffInventsNothing

ReadsAtMostOneBehind ==
  \A i \in DOMAIN properties :
    /\ properties[i].key.begin <= properties[i].key.end
    /\ properties[i].key.end < End
    /\ properties[i].value.begin <= properties[i].value.end
    /\ properties[i].value.end <= End + 1

\* The closing quote counts as a digit 0 and pushes the first digit of the mac
\* address out of the stream id: the ids of two devices are the same exactly
\* if their addresses differ in the first digit only.
FirstDigitIsLost ==
  Len(mac) = MacDigits + 2 /\ Head(mac) = "q" /\ Last(mac) = "q" =>
    \A i \in DOMAIN written : written[i].id.user = UserId(SubSeq(mac, 3, Len(mac)))

\* The keys of switches that devices send.
SwitchKeys == {<<"key">>, <<"key", "d0">>, <<"key", "d1">>, <<"key", "d2">>, <<"key", "Lock">>}

IsSwitch(k) == k # <<>> /\ Head(k) = "key"

\* Different keys are written to the same stream only if both begin with "key";
\* of the keys of devices those are key0 and key1, and key and key2.
SwitchesMeet ==
  \A i, k \in DOMAIN written :
    written[i].id = written[k].id /\ written[i].key # written[k].key =>
      /\ IsSwitch(written[i].key) /\ IsSwitch(written[k].key)
      /\ {written[i].key, written[k].key} \subseteq SwitchKeys =>
           {written[i].key, written[k].key} \in
             {{<<"key", "d0">>, <<"key", "d1">>}, {<<"key">>, <<"key", "d2">>}}

\* What a packet is written to: the stream of another device only if the
\* addresses differ in the first digit only, and that of another property only
\* for the keys that become one switch.
StreamsOfDevices == FirstDigitIsLost /\ SwitchesMeet

\* How far the scanner is: only at an empty value it turns without a step.
Progress == 2 * p + (IF state = "CommaOrObjectEnd" THEN 1 ELSE 0)

\* No turn leaves the scanner where it is.
ScannerAdvances ==
  /\ state \notin {"idle", "parsed", "learnt"} => turns + 2 <= Progress
  /\ turns <= 2 * Len(packet)

\* The scanner comes to the end of every packet, well-formed or not, after at
\* most two turns for each character; the keys it finds lie inside the packet,
\* and of the characters behind it at most one becomes part of a value.
ScannerKeepsToPacket == ScannerAdvances /\ ReadsAtMostOneBehind

==============================================================================
