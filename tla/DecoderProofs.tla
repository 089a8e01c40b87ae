---------------------------- MODULE DecoderProofs ----------------------------
(***************************************************************************)
(* The decoder of GeekOpen packets, for every packet and every document.   *)
(* A behaviour of Parts is one of the part it begins with, while the       *)
(* others rest; so the inductive invariant of the decoder, which its own   *)
(* steps and rest preserve, is an invariant of Parts.                      *)
(*   the scanner    a key that is read ends before the scanner goes on     *)
(*   the streams    a key ends where it was closed; the last digits of an  *)
(*                  address stay what they are when a digit more is read   *)
(*                  in front of them                                       *)
(*   the documents  the layout of a text says where its properties begin   *)
(*                  and end; what the scanner has read is at those places, *)
(*                  in the text itself or, if it was cut off, over its end *)
(***************************************************************************)
EXTENDS Parts, DataLemmas, TLAPS

\* What the decoder takes from the library is what this module takes from it.
LEMMA SameFlattenSeq == \A s : Geek!FlattenSeq(s) = FlattenSeq(s)
  BY Zenon DEF Geek!FlattenSeq, FlattenSeq

LEMMA LargestOfGeek == \A S : Geek!Max(S) = Max(S)
  BY Zenon DEF Geek!Max, Max

------------------------------------------------------------------------------
(* The decoder of GeekOpen packets.                                          *)

USE DocumentsAssumption

\* While the scanner works it is inside the packet or behind its end, and the
\* key that it has read ends before it.
ScannerInv ==
  /\ packet \in Seq(Geek!Characters)
  /\ state \in {"idle", "ObjectStart", "KeyOrObjectEnd", "Colon", "Value",
                "CommaOrObjectEnd", "parsed", "learnt"}
  /\ p \in Nat \ {0} /\ turns \in Nat
  /\ properties \in Seq([key : [begin : Nat, end : Nat], value : [begin : Nat, end : Nat]])
  /\ key \in [begin : Nat, end : Nat]
  /\ state = "idle" => p = 1 /\ turns = 0 /\ properties = <<>>
  /\ state \in {"Colon", "Value"} => key.begin <= key.end /\ key.end < p
  /\ Geek!ScannerKeepsToPacket

\* FirstFrom does not go back, and ends at the end of the packet or where it began.
LEMMA FirstFromGoesOn ==
  ASSUME NEW n \in Nat, n = Len(packet), NEW i \in Nat, NEW chars
  PROVE  /\ Geek!FirstFrom(i, chars) \in Nat /\ i <= Geek!FirstFrom(i, chars)
         /\ i <= n + 1 => Geek!FirstFrom(i, chars) <= n + 1
         /\ i > n => Geek!FirstFrom(i, chars) = i
<1> DEFINE hits == {k \in i .. Len(packet) : packet[k] \in chars}
<1>1. Geek!FirstFrom(i, chars) = IF i >= n + 1 THEN i ELSE IF hits = {} THEN n + 1 ELSE Geek!Min(hits)
  BY Zenon DEF Geek!FirstFrom, Geek!End
<1>2. hits \subseteq Nat /\ \A k \in hits : i <= k /\ k <= n
  OBVIOUS
<1> HIDE DEF hits
<1>3. CASE i < n + 1 /\ hits # {}
  <2>1. \E x \in hits : \A y \in hits : x <= y
    BY <1>2, <1>3, LeastNatural
  <2>2. PICK m \in hits : m = Geek!Min(hits)
    BY <2>1 DEF Geek!Min
  <2>3. Geek!FirstFrom(i, chars) = m
    BY <1>1, <1>3, <2>2
  <2> QED
    BY <1>2, <1>3, <2>2, <2>3
<1>4. CASE i < n + 1 /\ hits = {}
  <2>1. Geek!FirstFrom(i, chars) = n + 1
    BY <1>1, <1>4
  <2> QED
    BY <1>4, <2>1
<1>5. CASE i >= n + 1
  <2>1. Geek!FirstFrom(i, chars) = i
    BY <1>1, <1>5
  <2> QED
    BY <1>5, <2>1
<1> QED
  BY <1>3, <1>4, <1>5

\* Where FirstFrom ends inside the packet there is what it looks for, and not before.
LEMMA FirstFromFinds ==
  ASSUME NEW n \in Nat, n = Len(packet), NEW i \in Nat, NEW chars
  PROVE  /\ Geek!FirstFrom(i, chars) <= n => packet[Geek!FirstFrom(i, chars)] \in chars
         /\ \A k \in i .. n : k < Geek!FirstFrom(i, chars) => packet[k] \notin chars
<1> DEFINE hits == {k \in i .. Len(packet) : packet[k] \in chars}
<1>1. Geek!FirstFrom(i, chars) = IF i >= n + 1 THEN i ELSE IF hits = {} THEN n + 1 ELSE Geek!Min(hits)
  BY Zenon DEF Geek!FirstFrom, Geek!End
<1>2. hits \subseteq Nat /\ \A k \in i .. n : k \in hits <=> packet[k] \in chars
  OBVIOUS
<1>3. \A k \in hits : packet[k] \in chars
  OBVIOUS
<1> HIDE DEF hits
<1>4. CASE i < n + 1 /\ hits # {}
  <2>1. \E x \in hits : \A y \in hits : x <= y
    BY <1>2, <1>4, LeastNatural
  <2>2. PICK m \in hits : m = Geek!Min(hits) /\ \A y \in hits : m <= y
    BY <2>1 DEF Geek!Min
  <2>3. Geek!FirstFrom(i, chars) = m
    BY <1>1, <1>4, <2>2
  <2>4. \A k \in i .. n : k < m => k \notin hits
    BY <1>2, <2>2
  <2> QED
    BY <1>2, <1>3, <2>2, <2>3, <2>4
<1>5. CASE i < n + 1 /\ hits = {}
  <2>1. Geek!FirstFrom(i, chars) = n + 1
    BY <1>1, <1>5
  <2> QED
    BY <1>2, <1>5, <2>1
<1>6. CASE i >= n + 1
  <2>1. Geek!FirstFrom(i, chars) = i
    BY <1>1, <1>6
  <2> QED
    BY <1>6, <2>1
<1> QED
  BY <1>4, <1>5, <1>6

\* The parts of a property in its text, and those of the text.
PropertyParts(d, pad, i) ==
  <<pad, <<"q">>, d[i].key, <<"q">>, pad, <<":">>, pad, d[i].value, Geek!Closing(d[i].value), pad,
    IF i = Len(d) THEN <<>> ELSE <<",">> >>

PropertyTexts(d, pad) == [i \in DOMAIN d |-> Geek!PropertyText(d, pad, i)]

TextParts(d, pad) == <<pad, <<"{">>, FlattenSeq(PropertyTexts(d, pad)), <<"}">> >>

LEMMA TextIsText ==
  ASSUME NEW d \in Documents, NEW pad \in Geek!Pads
  PROVE  /\ d \in Seq([key : Seq(Geek!Characters), value : Seq(Geek!Characters)])
         /\ Len(d) \in Nat /\ DOMAIN d = 1 .. Len(d) /\ pad \in Seq(Geek!Characters)
         /\ \A i \in 1 .. Len(d) :
              /\ d[i].key \in Seq(Geek!Characters) /\ d[i].value \in Seq(Geek!Characters)
              /\ PropertyParts(d, pad, i) \in Seq(Seq(Geek!Characters))
              /\ Geek!PropertyText(d, pad, i) = FlattenSeq(PropertyParts(d, pad, i))
              /\ Geek!PropertyText(d, pad, i) \in Seq(Geek!Characters)
         /\ PropertyTexts(d, pad) \in Seq(Seq(Geek!Characters))
         /\ TextParts(d, pad) \in Seq(Seq(Geek!Characters))
         /\ Geek!TextOf(d, pad) = FlattenSeq(TextParts(d, pad))
         /\ Geek!TextOf(d, pad) \in Seq(Geek!Characters)
<1> DEFINE C == Geek!Characters
           T == Seq(C)
           Properties == [key : T, value : T]
<1>1. /\ pad \in T /\ <<>> \in T /\ <<"q">> \in T /\ <<":">> \in T /\ <<",">> \in T
      /\ <<"{">> \in T /\ <<"}">> \in T
  <2>1. \A c \in C : <<c>> \in T
    OBVIOUS
  <2>2. {"q", ":", ",", "{", "}", "sp"} \subseteq C
    BY DEF Geek!Characters
  <2>3. pad \in {<<>>, <<"sp">>}
    BY DEF Geek!Pads
  <2>4. <<>> \in T
    OBVIOUS
  <2> QED
    BY <2>1, <2>2, <2>3, <2>4
<1>2. d \in Seq(Properties)
  BY Zenon
<1>3. Len(d) \in Nat /\ DOMAIN d = 1 .. Len(d) /\ \A i \in 1 .. Len(d) : d[i] \in Properties
  <2> HIDE DEF Properties
  <2> QED
    BY <1>2
<1> HIDE DEF T
<1>4. ASSUME NEW i \in 1 .. Len(d)
      PROVE  /\ d[i].key \in T /\ d[i].value \in T
             /\ PropertyParts(d, pad, i) \in Seq(T)
             /\ Geek!PropertyText(d, pad, i) = FlattenSeq(PropertyParts(d, pad, i))
             /\ Geek!PropertyText(d, pad, i) \in T
  <2>1. d[i].key \in T /\ d[i].value \in T
    BY <1>3
  <2>2. PICK k, v, q, c : /\ k = d[i].key /\ v = d[i].value /\ q = Geek!Closing(d[i].value)
                          /\ c = (IF i = Len(d) THEN <<>> ELSE <<",">>)
    OBVIOUS
  <2>3. k \in T /\ v \in T /\ q \in T /\ c \in T
    BY <1>1, <2>1, <2>2 DEF Geek!Closing
  <2>4. PICK a \in T, b \in T : a = <<"q">> /\ b = <<":">>
    BY <1>1
  <2>5. <<pad, a, k, a, pad, b, pad, v, q, pad, c>> \in Seq(T)
    <3>1. PICK y \in T : y = pad
      BY <1>1
    <3>2. <<y, a, k, a, y, b, y, v, q, y, c>> \in Seq(T)
      BY <2>3, <2>4
    <3> QED
      BY <3>1, <3>2
  <2>6. PropertyParts(d, pad, i) = <<pad, a, k, a, pad, b, pad, v, q, pad, c>>
    BY <2>2, <2>4, Zenon DEF PropertyParts
  <2>7. Geek!PropertyText(d, pad, i) = FlattenSeq(PropertyParts(d, pad, i))
    BY SameFlattenSeq, Zenon DEF PropertyParts, Geek!PropertyText
  <2>8. PropertyParts(d, pad, i) \in Seq(T)
    BY <2>5, <2>6
  <2>9. FlattenSeq(PropertyParts(d, pad, i)) \in T
    BY <2>8, FlattenType DEF T
  <2> QED
    BY <2>1, <2>7, <2>8, <2>9
<1>5. PropertyTexts(d, pad) \in Seq(T)
  <2>1. PropertyTexts(d, pad) = [i \in 1 .. Len(d) |-> Geek!PropertyText(d, pad, i)]
    BY <1>3 DEF PropertyTexts
  <2>2. PICK s : s = PropertyTexts(d, pad)
    OBVIOUS
  <2>3. s = [i \in 1 .. Len(d) |-> s[i]] /\ \A i \in 1 .. Len(d) : s[i] \in T
    <3>1. \A i \in 1 .. Len(d) : s[i] = Geek!PropertyText(d, pad, i)
      BY <2>1, <2>2
    <3>2. s = [i \in 1 .. Len(d) |-> s[i]]
      BY <2>1, <2>2
    <3> QED
      BY <1>4, <3>1, <3>2
  <2>4. s \in Seq(T)
    BY <1>3, <2>3
  <2> QED
    BY <2>2, <2>4
<1>6. PICK f : f = FlattenSeq(PropertyTexts(d, pad))
  OBVIOUS
<1>7. f \in T
  BY <1>5, <1>6, FlattenType DEF T
<1>8. TextParts(d, pad) = <<pad, <<"{">>, f, <<"}">> >>
  BY <1>6, Zenon DEF TextParts
<1>9. TextParts(d, pad) \in Seq(T)
  <2>1. PICK y \in T, a \in T, b \in T : y = pad /\ a = <<"{">> /\ b = <<"}">>
    BY <1>1
  <2>2. <<y, a, f, b>> \in Seq(T)
    BY <1>7
  <2> QED
    BY <1>8, <2>1, <2>2
<1>10. Geek!TextOf(d, pad) = FlattenSeq(TextParts(d, pad))
  BY SameFlattenSeq, Zenon DEF TextParts, PropertyTexts, Geek!TextOf
<1>11. FlattenSeq(TextParts(d, pad)) \in T
  BY <1>9, FlattenType DEF T
<1> QED
  BY <1>1, <1>2, <1>3, <1>4, <1>5, <1>9, <1>10, <1>11 DEF T

LEMMA PacketsAreText == Geek!Packets \subseteq Seq(Geek!Characters)
<1> DEFINE texts(documents) == {Geek!TextOf(d, pad) : d \in documents, pad \in Geek!Pads}
           begins(text) == {SubSeq(text, 1, n) : n \in 0 .. Len(text) - 1}
<1>1. Geek!Packets = texts(Documents) \cup (UNION {begins(t) : t \in texts(Interrupted)}) \cup Noise
  BY DEF Geek!Packets
<1>2. \A t \in texts(Documents) \cup texts(Interrupted) : t \in Seq(Geek!Characters)
  BY TextIsText
<1>3. ASSUME NEW t \in Seq(Geek!Characters), NEW n \in 0 .. Len(t) - 1
      PROVE  SubSeq(t, 1, n) \in Seq(Geek!Characters)
  <2>1. n \in Nat /\ n <= Len(t)
    OBVIOUS
  <2> QED
    BY <2>1, Stretch
<1>4. \A t \in texts(Interrupted) : \A w \in begins(t) : w \in Seq(Geek!Characters)
  <2> HIDE DEF texts
  <2> QED
    BY <1>2, <1>3
<1>5. Noise \subseteq Seq(Geek!Characters)
  OBVIOUS
<1> HIDE DEF texts, begins
<1>6. ASSUME NEW w \in Geek!Packets PROVE w \in Seq(Geek!Characters)
  <2>1. CASE w \in texts(Documents)
    BY <1>2, <2>1
  <2>2. CASE w \in UNION {begins(t) : t \in texts(Interrupted)}
    BY <1>4, <2>2
  <2>3. CASE w \in Noise
    BY <1>5, <2>3
  <2> QED
    BY <1>1, <1>6, <2>1, <2>2, <2>3
<1> QED
  BY <1>6

\* What the steps use: where the scanner is, as numbers.
LEMMA ScannerNumbers ==
  ASSUME ScannerInv
  PROVE  /\ Len(packet) \in Nat /\ Geek!End = Len(packet) + 1
         /\ p \in Nat /\ 1 <= p /\ turns \in Nat
         /\ Geek!At \in Nat /\ p <= Geek!At /\ (p < Geek!End => Geek!At <= Geek!End)
         /\ Geek!FirstFrom(Geek!At + 1, {"q"}) \in Nat /\ Geek!At + 1 <= Geek!FirstFrom(Geek!At + 1, {"q"})
         /\ (p < Geek!End => Geek!ValueEnd \in Nat /\ Geek!At <= Geek!ValueEnd /\ Geek!ValueEnd <= Geek!End + 1)
<1>1. Len(packet) \in Nat /\ p \in Nat /\ 1 <= p /\ turns \in Nat /\ Geek!End = Len(packet) + 1
  BY DEF ScannerInv, Geek!End
<1>2. PICK n \in Nat : n = Len(packet)
  BY <1>1
<1>3. PICK at : at = Geek!At
  OBVIOUS
<1>4. at \in Nat /\ p <= at /\ (p <= n + 1 => at <= n + 1)
  BY <1>1, <1>2, <1>3, FirstFromGoesOn DEF Geek!At
<1>5. PICK close : close = Geek!FirstFrom(at + 1, {"q"})
  OBVIOUS
<1>6. /\ close \in Nat /\ at + 1 <= close
      /\ at + 1 <= n + 1 => close <= n + 1
      /\ at + 1 > n => close = at + 1
  <2>1. at + 1 \in Nat
    BY <1>4
  <2> QED
    BY <1>2, <1>5, <2>1, FirstFromGoesOn
<1>7. PICK next : next = Geek!FirstFrom(at, {",", "}"})
  OBVIOUS
<1>8. next \in Nat /\ at <= next /\ (at <= n + 1 => next <= n + 1)
  BY <1>2, <1>4, <1>7, FirstFromGoesOn
<1>9. PICK e : e = Geek!ValueEnd
  OBVIOUS
<1>10. e = IF Geek!Here = "q" THEN close ELSE next
  BY <1>3, <1>5, <1>7, <1>9 DEF Geek!ValueEnd
<1>11. p < n + 1 => e \in Nat /\ at <= e /\ e <= n + 2
  BY <1>1, <1>4, <1>6, <1>8, <1>10
<1> QED
  BY <1>1, <1>2, <1>3, <1>4, <1>5, <1>6, <1>9, <1>11

\* How the turns and the place compare after a step, or a turn without one.
LEMMA TurnsCount ==
  ASSUME NEW a \in Nat, NEW b \in Nat, NEW q \in Nat
  PROVE  /\ a + 2 <= 2 * b + 1 /\ q > b => \A c \in {0, 1} : a + 1 + 2 <= 2 * q + c
         /\ a + 2 <= 2 * b /\ q >= b => a + 1 + 2 <= 2 * q + 1
         /\ \A n \in Nat : a + 2 <= 2 * b /\ b < n + 1 => a + 1 <= 2 * n
  OBVIOUS

\* A turn that leaves the properties as they are and takes the scanner on, or ends
\* its work.
LEMMA TurnGoesOn ==
  ASSUME ScannerInv, NEW s, s \in {"ObjectStart", "KeyOrObjectEnd", "Colon", "Value", "CommaOrObjectEnd"},
         Geek!Turn(s), UNCHANGED properties,
         \/ state' = "parsed" /\ p' = p /\ key' = key
         \/ /\ state' \in {"ObjectStart", "KeyOrObjectEnd", "Colon", "Value", "CommaOrObjectEnd"}
            /\ p' \in Nat /\ p' > p
            /\ key' \in [begin : Nat, end : Nat]
            /\ state' \in {"Colon", "Value"} => key'.begin <= key'.end /\ key'.end < p'
  PROVE  ScannerInv'
<1>1. PICK n : n = Len(packet)
  OBVIOUS
<1>2. /\ n \in Nat /\ Geek!End = n + 1 /\ p \in Nat /\ 1 <= p /\ turns \in Nat /\ p < n + 1
      /\ turns' = turns + 1 /\ packet' = packet /\ Geek!End' = Geek!End /\ state = s
  BY <1>1, ScannerNumbers DEF Geek!Turn, Geek!End
<1>3. turns + 2 <= 2 * p + 1
  BY <1>2 DEF ScannerInv, Geek!ScannerKeepsToPacket, Geek!ScannerAdvances, Geek!Progress
<1>4. Geek!ReadsAtMostOneBehind'
  BY <1>2 DEF ScannerInv, Geek!ScannerKeepsToPacket, Geek!ReadsAtMostOneBehind
<1>5. turns' <= 2 * Len(packet')
  BY <1>1, <1>2, <1>3
<1>6. p' \in Nat \ {0} /\ turns' \in Nat
  BY <1>2
<1>7. key' \in [begin : Nat, end : Nat]
  BY DEF ScannerInv
<1>8. state' \notin {"idle", "parsed", "learnt"} => turns' + 2 <= Geek!Progress'
  <2>1. CASE state' = "parsed"
    BY <2>1
  <2>2. CASE p' > p
    <3>1. PICK c \in {0, 1} : Geek!Progress' = 2 * p' + c
      BY DEF Geek!Progress
    <3>2. PICK q \in Nat : q = p' /\ q > p
      BY <1>6, <2>2
    <3>3. turns + 1 + 2 <= 2 * q + c
      BY <1>2, <1>3, <3>2, TurnsCount
    <3> QED
      BY <1>2, <3>1, <3>2, <3>3
  <2> QED
    BY <2>1, <2>2
<1>9. state' \in {"idle", "ObjectStart", "KeyOrObjectEnd", "Colon", "Value",
                  "CommaOrObjectEnd", "parsed", "learnt"} /\ state' # "idle"
  OBVIOUS
<1>10. Geek!ScannerKeepsToPacket'
  BY <1>4, <1>5, <1>8 DEF Geek!ScannerKeepsToPacket, Geek!ScannerAdvances
<1>11. /\ packet' \in Seq(Geek!Characters)
       /\ properties' \in Seq([key : [begin : Nat, end : Nat], value : [begin : Nat, end : Nat]])
  BY <1>2 DEF ScannerInv
<1>12. state' \in {"Colon", "Value"} => key'.begin <= key'.end /\ key'.end < p'
  OBVIOUS
<1> QED
  BY <1>6, <1>7, <1>9, <1>10, <1>11, <1>12 DEF ScannerInv

\* A value is read: its extent and that of its key are what they should be.
LEMMA ExpectValueKeeps ==
  ASSUME ScannerInv, Geek!ExpectValue
  PROVE  ScannerInv'
<1>1. PICK n : n = Len(packet)
  OBVIOUS
<1>2. PICK at : at = Geek!At
  OBVIOUS
<1>3. PICK e : e = Geek!ValueEnd
  OBVIOUS
<1>4. /\ n \in Nat /\ Geek!End = n + 1 /\ p \in Nat /\ 1 <= p /\ turns \in Nat /\ p < n + 1
      /\ turns' = turns + 1 /\ packet' = packet /\ Geek!End' = Geek!End /\ state = "Value"
      /\ at \in Nat /\ p <= at /\ at <= n + 1 /\ e \in Nat /\ at <= e /\ e <= n + 2
  <2>1. /\ n \in Nat /\ Geek!End = n + 1 /\ p \in Nat /\ 1 <= p /\ turns \in Nat /\ p < n + 1
        /\ turns' = turns + 1 /\ packet' = packet /\ Geek!End' = Geek!End /\ state = "Value"
    BY <1>1, ScannerNumbers DEF Geek!ExpectValue, Geek!Turn, Geek!End
  <2>2. at \in Nat /\ p <= at /\ at <= Geek!End /\ e \in Nat /\ at <= e /\ e <= Geek!End + 1
    BY <1>2, <1>3, <2>1, ScannerNumbers
  <2> QED
    BY <2>1, <2>2
<1>5. /\ properties' = Append(properties, [key |-> key, value |-> [begin |-> at, end |-> e]])
      /\ p' = (IF Geek!Here = "q" THEN e + 1 ELSE e)
      /\ state' = "CommaOrObjectEnd" /\ key' = key
  BY <1>2, <1>3 DEF Geek!ExpectValue
<1>6. PICK extents : extents = [key : [begin : Nat, end : Nat], value : [begin : Nat, end : Nat]]
  OBVIOUS
<1>7. PICK new : new = [key |-> key, value |-> [begin |-> at, end |-> e]]
  OBVIOUS
<1>8. properties \in Seq(extents) /\ key \in [begin : Nat, end : Nat]
  BY <1>6 DEF ScannerInv
<1>9. /\ new \in extents /\ new.key = key
      /\ new.value.begin = at /\ new.value.end = e
  BY <1>4, <1>6, <1>7, <1>8
<1>10. /\ properties' \in Seq(extents) /\ Len(properties') = Len(properties) + 1
       /\ Len(properties) \in Nat
       /\ \A i \in 1 .. Len(properties) : properties'[i] = properties[i]
       /\ properties'[Len(properties) + 1] = new
  BY <1>5, <1>7, <1>8, <1>9, Ended
<1>11. key.begin <= key.end /\ key.end < n + 1
  <2>1. key.begin <= key.end /\ key.end < p /\ key.end \in Nat
    BY <1>4, <1>8 DEF ScannerInv
  <2> QED
    BY <1>4, <2>1
<1>12. ASSUME NEW i \in DOMAIN properties'
       PROVE  /\ properties'[i].key.begin <= properties'[i].key.end
              /\ properties'[i].key.end < n + 1
              /\ properties'[i].value.begin <= properties'[i].value.end
              /\ properties'[i].value.end <= n + 2
  <2>1. i \in 1 .. Len(properties) + 1
    BY <1>10
  <2>2. CASE i \in 1 .. Len(properties)
    <3>1. properties'[i] = properties[i] /\ i \in DOMAIN properties
      BY <1>8, <1>10, <2>2
    <3>2. /\ properties[i].key.begin <= properties[i].key.end
          /\ properties[i].key.end < Geek!End
          /\ properties[i].value.begin <= properties[i].value.end
          /\ properties[i].value.end <= Geek!End + 1
      BY <3>1 DEF ScannerInv, Geek!ScannerKeepsToPacket, Geek!ReadsAtMostOneBehind
    <3>3. Geek!End = n + 1 /\ Geek!End + 1 = n + 2
      BY <1>4
    <3> QED
      BY <3>1, <3>2, <3>3
  <2>3. CASE i = Len(properties) + 1
    BY <1>4, <1>9, <1>10, <1>11, <2>3
  <2> QED
    BY <1>10, <2>1, <2>2, <2>3
<1>13. Geek!ReadsAtMostOneBehind'
  <2>1. Geek!End' = n + 1 /\ Geek!End' + 1 = n + 2
    BY <1>4
  <2> QED
    BY <1>12, <2>1 DEF Geek!ReadsAtMostOneBehind
<1>14. turns + 2 <= 2 * p
  <2>1. Geek!Progress = 2 * p
    BY <1>4 DEF Geek!Progress
  <2> QED
    BY <1>4, <2>1 DEF ScannerInv, Geek!ScannerKeepsToPacket, Geek!ScannerAdvances
<1>15. p' \in Nat /\ p' >= p /\ turns' \in Nat
  BY <1>4, <1>5
<1>16. turns' + 2 <= Geek!Progress' /\ turns' <= 2 * Len(packet')
  <2>1. Geek!Progress' = 2 * p' + 1
    BY <1>5 DEF Geek!Progress
  <2> QED
    <3>1. PICK q \in Nat : q = p' /\ q >= p
      BY <1>15
    <3>2. turns + 1 + 2 <= 2 * q + 1 /\ turns + 1 <= 2 * n
      BY <1>4, <1>14, <3>1, TurnsCount
    <3> QED
      BY <1>1, <1>4, <2>1, <3>1, <3>2
<1>17. Geek!ScannerKeepsToPacket'
  BY <1>13, <1>16 DEF Geek!ScannerKeepsToPacket, Geek!ScannerAdvances
<1>18. packet' \in Seq(Geek!Characters)
  BY <1>4 DEF ScannerInv
<1>19. p' \in Nat \ {0}
  BY <1>4, <1>15
<1> QED
  BY <1>5, <1>6, <1>8, <1>10, <1>15, <1>17, <1>18, <1>19 DEF ScannerInv

\* A key is read that ends before the place where the scanner goes on.
LEMMA ExpectKeyKeeps ==
  ASSUME ScannerInv, Geek!ExpectKeyOrObjectEnd
  PROVE  ScannerInv'
<1>1. PICK at : at = Geek!At
  OBVIOUS
<1>2. PICK close : close = Geek!FirstFrom(at + 1, {"q"})
  OBVIOUS
<1>3. Geek!Turn("KeyOrObjectEnd") /\ UNCHANGED properties /\ p < Geek!End /\ state = "KeyOrObjectEnd"
  BY DEF Geek!ExpectKeyOrObjectEnd, Geek!Turn
<1>4. /\ p \in Nat /\ at \in Nat /\ p <= at /\ close \in Nat /\ at + 1 <= close
      /\ key \in [begin : Nat, end : Nat]
  BY <1>1, <1>2, ScannerNumbers DEF ScannerInv
<1>5. \/ state' = "parsed" /\ p' = p /\ key' = key
      \/ /\ state' \in {"ObjectStart", "KeyOrObjectEnd", "Colon", "Value", "CommaOrObjectEnd"}
         /\ p' \in Nat /\ p' > p
         /\ key' \in [begin : Nat, end : Nat]
         /\ state' \in {"Colon", "Value"} => key'.begin <= key'.end /\ key'.end < p'
  <2>1. CASE Geek!Here = "}" /\ state' = "parsed" /\ UNCHANGED <<p, key>>
    BY <2>1
  <2>2. CASE Geek!Here = "q" /\ Geek!ReadKey
    <3>1. \/ /\ key' = [begin |-> at + 1, end |-> close] /\ p' = close + 1 /\ state' = "Colon"
          \/ state' = "parsed" /\ UNCHANGED <<key, p>>
      BY <1>1, <1>2, <2>2 DEF Geek!ReadKey
    <3>2. CASE key' = [begin |-> at + 1, end |-> close] /\ p' = close + 1 /\ state' = "Colon"
      <4>1. key' \in [begin : Nat, end : Nat] /\ key'.begin = at + 1 /\ key'.end = close
        BY <1>4, <3>2
      <4> QED
        BY <1>4, <3>2, <4>1
    <3> QED
      BY <3>1, <3>2
  <2>3. CASE Geek!Here \notin {"}", "q"} /\ Geek!SkipOne
    <3>1. p' = at + 1 /\ state' = "KeyOrObjectEnd" /\ key' = key
      BY <1>1, <1>3, <2>3 DEF Geek!SkipOne
    <3> QED
      BY <1>4, <3>1
  <2> QED
    BY <2>1, <2>2, <2>3 DEF Geek!ExpectKeyOrObjectEnd
<1> QED
  BY <1>3, <1>5, TurnGoesOn

LEMMA OtherTurnsKeep ==
  ASSUME ScannerInv, Geek!ExpectObjectStart \/ Geek!ExpectColon \/ Geek!ExpectCommaOrObjectEnd
  PROVE  ScannerInv'
<1>1. PICK at : at = Geek!At
  OBVIOUS
<1>2. /\ p \in Nat /\ at \in Nat /\ p <= at /\ key \in [begin : Nat, end : Nat]
      /\ state = "Colon" => key.begin <= key.end /\ key.end < p
      /\ key.begin \in Nat /\ key.end \in Nat
  BY <1>1, ScannerNumbers DEF ScannerInv
<1>3. CASE Geek!ExpectObjectStart
  <2>1. Geek!Turn("ObjectStart") /\ UNCHANGED <<properties, key>>
    BY <1>3 DEF Geek!ExpectObjectStart
  <2>2. state' \in {"ObjectStart", "KeyOrObjectEnd"} /\ p' \in Nat /\ p' > p
    <3>1. p' = at + 1 /\ state' \in {"ObjectStart", "KeyOrObjectEnd"}
      BY <1>1, <1>3 DEF Geek!ExpectObjectStart, Geek!Turn
    <3> QED
      BY <1>2, <3>1
  <2> QED
    BY <1>2, <2>1, <2>2, TurnGoesOn
<1>4. CASE Geek!ExpectColon
  <2>1. Geek!Turn("Colon") /\ UNCHANGED <<properties, key>> /\ state = "Colon"
    BY <1>4 DEF Geek!ExpectColon, Geek!Turn
  <2>2. state' \in {"Colon", "Value"} /\ p' \in Nat /\ p' > p
    BY <1>1, <1>2, <1>4, <2>1 DEF Geek!ExpectColon
  <2>3. key'.begin <= key'.end /\ key'.end < p'
    BY <1>2, <2>1, <2>2
  <2> QED
    BY <1>2, <2>1, <2>2, <2>3, TurnGoesOn
<1>5. CASE Geek!ExpectCommaOrObjectEnd
  <2>1. Geek!Turn("CommaOrObjectEnd") /\ UNCHANGED <<properties, key>> /\ state = "CommaOrObjectEnd"
    BY <1>5 DEF Geek!ExpectCommaOrObjectEnd, Geek!Turn
  <2>2. \/ state' = "parsed" /\ p' = p
        \/ state' \in {"KeyOrObjectEnd", "CommaOrObjectEnd"} /\ p' \in Nat /\ p' > p
    <3>1. \/ state' = "parsed" /\ p' = p
          \/ state' \in {"KeyOrObjectEnd", "CommaOrObjectEnd"} /\ p' = at + 1
      BY <1>1, <1>5, <2>1 DEF Geek!ExpectCommaOrObjectEnd
    <3> QED
      BY <1>2, <3>1
  <2> QED
    BY <1>2, <2>1, <2>2, TurnGoesOn
<1> QED
  BY <1>3, <1>4, <1>5

\* The steps around the scanner.
LEMMA AroundKeeps ==
  ASSUME ScannerInv, Geek!Receive \/ Geek!ParseEnds \/ Geek!LearnUser \/ Geek!WriteToStream \/ UNCHANGED Geek!geekVars
  PROVE  ScannerInv'
<1>1. CASE Geek!Receive
  <2>1. /\ state = "idle" /\ state' = "ObjectStart" /\ UNCHANGED <<p, turns, key, properties>>
        /\ p = 1 /\ turns = 0 /\ properties = <<>> /\ key \in [begin : Nat, end : Nat]
    BY <1>1 DEF Geek!Receive, ScannerInv
  <2>2. packet' \in Seq(Geek!Characters)
    BY <1>1, PacketsAreText DEF Geek!Receive
  <2>3. Len(packet') \in Nat
    BY <2>2
  <2>4. Geek!Progress' = 2
    BY <2>1 DEF Geek!Progress
  <2>5. Geek!ScannerAdvances'
    BY <2>1, <2>3, <2>4 DEF Geek!ScannerAdvances
  <2>6. Geek!ReadsAtMostOneBehind'
    BY <2>1 DEF Geek!ReadsAtMostOneBehind
  <2> QED
    BY <2>1, <2>2, <2>5, <2>6 DEF ScannerInv, Geek!ScannerKeepsToPacket
<1>2. CASE Geek!ParseEnds \/ Geek!LearnUser \/ UNCHANGED Geek!geekVars
  <2>1. /\ UNCHANGED <<packet, p, turns, key, properties>>
        /\ state' = state \/ state' \in {"parsed", "learnt"}
    BY <1>2 DEF Geek!ParseEnds, Geek!CountComplete, Geek!LearnUser, Geek!geekVars, Geek!scanner
  <2>2. Geek!ReadsAtMostOneBehind' /\ Geek!ScannerAdvances'
    BY <2>1 DEF Geek!ReadsAtMostOneBehind, Geek!ScannerAdvances, ScannerInv, Geek!ScannerKeepsToPacket, Geek!End,
                Geek!Progress
  <2> QED
    BY <2>1, <2>2 DEF ScannerInv, Geek!ScannerKeepsToPacket
<1>3. CASE Geek!WriteToStream
  <2>1. /\ packet' = <<>> /\ state' = "idle" /\ p' = 1 /\ turns' = 0
        /\ key' = [begin |-> 1, end |-> 1] /\ properties' = <<>>
    BY <1>3 DEF Geek!WriteToStream
  <2>2. Geek!ScannerAdvances' /\ Geek!ReadsAtMostOneBehind'
    BY <2>1 DEF Geek!ScannerAdvances, Geek!ReadsAtMostOneBehind
  <2>3. key' \in [begin : Nat, end : Nat]
    BY <2>1
  <2> QED
    BY <2>1, <2>2, <2>3 DEF ScannerInv, Geek!ScannerKeepsToPacket
<1> QED
  BY <1>1, <1>2, <1>3

LEMMA ScannerStep ==
  ASSUME ScannerInv, Geek!Next \/ UNCHANGED Geek!geekVars
  PROVE  ScannerInv'
  BY ExpectValueKeeps, ExpectKeyKeeps, OtherTurnsKeep, AroundKeeps DEF Geek!Next, Geek!Decode

LEMMA ScannerBegins ==
  ASSUME Geek!Init PROVE ScannerInv
<1>1. /\ packet = <<>> /\ state = "idle" /\ p = 1 /\ turns = 0
      /\ key = [begin |-> 1, end |-> 1] /\ properties = <<>>
  BY DEF Geek!Init
<1>2. Geek!ScannerAdvances /\ Geek!ReadsAtMostOneBehind
  BY <1>1 DEF Geek!ScannerAdvances, Geek!ReadsAtMostOneBehind
<1>3. key \in [begin : Nat, end : Nat]
  BY <1>1
<1> QED
  BY <1>1, <1>2, <1>3 DEF ScannerInv, Geek!ScannerKeepsToPacket

LEMMA ScannerInvariant == PartsSpec => []ScannerInv
<1>1. PartsInit => ScannerInv
  BY ScannerBegins DEF PartsInit
<1>2. ScannerInv /\ [PartsNext]_partVars => ScannerInv'
  <2> SUFFICES ASSUME ScannerInv, [PartsNext]_partVars PROVE ScannerInv'
    OBVIOUS
  <2>1. Geek!Next \/ UNCHANGED Geek!geekVars
    BY DEF PartsNext, partVars, geekVars, Geek!geekVars, Geek!scanner
  <2> QED
    BY <2>1, ScannerStep
<1> QED
  BY <1>1, <1>2, PTL DEF PartsSpec

\* The scanner turns at most twice for a character, the keys that it finds lie
\* inside the packet and a value reaches at most one character behind it, for
\* every packet (s_parse_json).
THEOREM ScannerStaysInPacket == PartsSpec => []ScannerKeepsToPacket
<1>1. ScannerInv => ScannerKeepsToPacket
  BY DEF ScannerInv, ScannerKeepsToPacket
<1> QED
  BY <1>1, ScannerInvariant, PTL

\* What n digits can say, and a word.
LEMMA ValuesAre ==
  /\ Powers(Base, MacDigits + 4, Geek!Values)
  /\ Geek!Values \in [0 .. MacDigits + 4 -> Nat \ {0}] /\ Geek!Values[0] = 1
  /\ \A n \in 0 .. MacDigits + 4 : n < MacDigits + 4 => Geek!Values[n + 1] = Geek!Values[n] * Base
  /\ Geek!Word = Geek!Values[MacDigits + 4] /\ Geek!Word \in Nat \ {0}
<1>1. MacDigits + 4 \in Nat /\ Base \in Nat \ {0}
  OBVIOUS
<1>2. PICK N \in Nat : N = MacDigits + 4
  BY <1>1
<1>3. \E f : f = [n \in 0 .. MacDigits + 4 |-> IF n = 0 THEN 1 ELSE f[n - 1] * Base]
  BY <1>1, PowersExist, Zenon DEF Powers
<1>4. Geek!Values = [n \in 0 .. MacDigits + 4 |-> IF n = 0 THEN 1 ELSE Geek!Values[n - 1] * Base]
  BY <1>3, Zenon DEF Geek!Values
<1>5. PICK v : v = Geek!Values
  OBVIOUS
<1>6. Powers(Base, N, v)
  BY <1>2, <1>4, <1>5, Zenon DEF Powers
<1>7. /\ v \in [0 .. N -> Nat \ {0}] /\ v[0] = 1
      /\ \A n \in 0 .. N : n < N => v[n + 1] = v[n] * Base
  BY <1>1, <1>6, PowersArePositive
<1>8. Geek!Word = v[N] /\ v[N] \in Nat \ {0}
  BY <1>2, <1>5, <1>7 DEF Geek!Word
<1> QED
  BY <1>2, <1>5, <1>6, <1>7, <1>8

LEMMA DigitsAre == \A c : Geek!Digit(c) \in {0, 1, 2}
<1>1. Geek!LowBits["d1"] = 1 /\ Geek!LowBits["d2"] = 2
  BY DEF Geek!LowBits, Geek!Characters
<1> QED
  BY <1>1 DEF Geek!Digit

\* What reads the digits of an address.
DigitsRead(text, it) ==
  it = [S \in SUBSET DOMAIN text |->
          IF S = {} THEN 0
          ELSE ((it[S \ {Max(S)}] * Base + Geek!Digit(text[Max(S)])) % Geek!Word)]

\* A text is read digit by digit: f has what is read after each of them.
ReadsDigits(text, n, f) ==
  /\ f \in [0 .. n -> 0 .. Geek!Word - 1] /\ f[0] = 0
  /\ \A k \in 0 .. n : k < n => f[k + 1] = ((f[k] * Base + Geek!Digit(text[k + 1])) % Geek!Word)

LEMMA UserIdReads ==
  ASSUME NEW n \in Nat, NEW text, DOMAIN text = 1 .. n
  PROVE  \E f : ReadsDigits(text, n, f) /\ Geek!UserId(text) = f[n]
<1> DEFINE Numbers == 0 .. Geek!Word - 1
           Texts == {text[j] : j \in DOMAIN text}
           g == [x \in Numbers |-> [e \in Texts |-> ((x * Base + Geek!Digit(e)) % Geek!Word)]]
<1>1. Geek!Word \in Nat \ {0} /\ Base \in Nat
  BY ValuesAre
<1>2. ASSUME NEW x \in Numbers, NEW c
      PROVE  ((x * Base + Geek!Digit(c)) % Geek!Word) \in Numbers
  <2>1. Geek!Digit(c) \in Nat
    BY DigitsAre
  <2>2. x * Base \in Nat
    BY <1>1
  <2>3. PICK y \in Nat : y = x * Base + Geek!Digit(c)
    BY <2>1, <2>2
  <2>4. y % Geek!Word \in 0 .. Geek!Word - 1
    BY <1>1
  <2> QED
    BY <2>3, <2>4
<1>3. g \in [Numbers -> [Texts -> Numbers]]
  BY <1>2
<1>4. \A x \in Numbers, e \in Texts : g[x][e] = ((x * Base + Geek!Digit(e)) % Geek!Word)
  OBVIOUS
<1>5. 0 \in Numbers /\ \A i \in 1 .. n : text[i] \in Texts
  BY <1>1
<1> HIDE DEF g, Numbers, Texts
<1>6. PICK h \in [SUBSET (1 .. n) -> Numbers] : Folded(g, text, 0, n, h)
  BY <1>3, <1>5, FoldExists
<1>7. DigitsRead(text, h)
  <2>1. ASSUME NEW S \in SUBSET (1 .. n), S # {}
        PROVE  h[S] = ((h[S \ {Max(S)}] * Base + Geek!Digit(text[Max(S)])) % Geek!Word)
    <3>1. Max(S) \in 1 .. n
      BY <2>1, LargestIsIn
    <3>2. h[S \ {Max(S)}] \in Numbers /\ text[Max(S)] \in Texts
      BY <1>5, <3>1
    <3>3. h[S] = g[h[S \ {Max(S)}]][text[Max(S)]]
      BY <1>6, <2>1 DEF Folded
    <3> QED
      BY <1>4, <3>2, <3>3
  <2>2. h[{}] = 0
    BY <1>6 DEF Folded
  <2>3. h = [S \in SUBSET (1 .. n) |-> h[S]]
    OBVIOUS
  <2> QED
    BY <2>1, <2>2, <2>3 DEF DigitsRead
<1>8. PICK it : DigitsRead(text, it) /\ Geek!UserId(text) = it[DOMAIN text]
  <2>1. DigitsRead(text, CHOOSE it : DigitsRead(text, it))
    BY <1>7, Zenon
  <2>2. Geek!UserId(text) = (CHOOSE it : DigitsRead(text, it))[DOMAIN text]
    BY LargestOfGeek DEF Geek!UserId, Geek!FoldLeft, Geek!MapThenFoldSet, DigitsRead
  <2> QED
    BY <2>1, <2>2
<1> DEFINE f == [k \in 0 .. n |-> it[1 .. k]]
<1>9. it[{}] = 0 /\ 1 .. 0 = {}
  <2>1. {} \in SUBSET DOMAIN text /\ 1 .. 0 = {}
    OBVIOUS
  <2> QED
    BY <1>8, <2>1 DEF DigitsRead
<1>10. f[0] = 0 /\ f[n] = it[1 .. n]
  BY <1>9
<1>11. ASSUME NEW k \in 0 .. n, k < n
       PROVE  f[k + 1] = ((f[k] * Base + Geek!Digit(text[k + 1])) % Geek!Word)
  <2>1. k + 1 \in 1 .. n /\ (k + 1) - 1 = k /\ k + 1 \in 0 .. n
    BY <1>11
  <2>2. /\ Max(1 .. k + 1) = k + 1 /\ (1 .. k + 1) \ {k + 1} = 1 .. k
        /\ 1 .. k + 1 # {} /\ 1 .. k + 1 \in SUBSET (1 .. n)
    <3>1. PICK m \in 1 .. n : m = k + 1 /\ m - 1 = k
      BY <2>1
    <3>2. /\ Max(1 .. m) = m /\ (1 .. m) \ {m} = 1 .. m - 1 /\ 1 .. m # {}
          /\ 1 .. m \in SUBSET (1 .. n)
      BY IntervalFacts
    <3> QED
      BY <3>1, <3>2
  <2>3. it[1 .. k + 1] = ((it[1 .. k] * Base + Geek!Digit(text[k + 1])) % Geek!Word)
    BY <1>8, <2>2 DEF DigitsRead
  <2>4. f[k] = it[1 .. k] /\ f[k + 1] = it[1 .. k + 1]
    BY <2>1
  <2> QED
    BY <2>3, <2>4
<1> HIDE DEF f
<1> DEFINE K == {k \in 0 .. n : f[k] \in Numbers}
<1>12. 0 \in K
  BY <1>5, <1>10
<1>13. ASSUME NEW k \in 0 .. n, k < n, k \in K PROVE k + 1 \in K
  <2>1. PICK x \in Numbers : x = f[k]
    BY <1>13
  <2>2. ((x * Base + Geek!Digit(text[k + 1])) % Geek!Word) \in Numbers
    BY <1>2
  <2>3. f[k + 1] \in Numbers /\ k + 1 \in 0 .. n
    BY <1>11, <1>13, <2>1, <2>2
  <2> QED
    BY <2>3
<1>14. 0 .. n \subseteq K
  <2> HIDE DEF K
  <2> QED
    BY <1>12, <1>13, UpTo
<1>15. f \in [0 .. n -> Numbers]
  <2>1. \A k \in 0 .. n : f[k] \in Numbers
    BY <1>14
  <2>2. f = [k \in 0 .. n |-> it[1 .. k]]
    BY DEF f
  <2>3. f = [k \in 0 .. n |-> f[k]]
    BY <2>2
  <2> QED
    BY <2>1, <2>3
<1> QED
  BY <1>8, <1>10, <1>11, <1>15 DEF ReadsDigits, Numbers

\* A user id fits its word, whatever text it is read from.
LEMMA UserIdIsWord ==
  ASSUME NEW m \in Int, NEW text, DOMAIN text = 1 .. m
  PROVE  Geek!UserId(text) \in (0 .. Geek!Word - 1)
<1>1. PICK n \in Nat : DOMAIN text = 1 .. n
  OBVIOUS
<1>2. PICK f : ReadsDigits(text, n, f) /\ Geek!UserId(text) = f[n]
  BY <1>1, UserIdReads
<1>3. f[n] \in (0 .. Geek!Word - 1)
  BY <1>2 DEF ReadsDigits
<1> QED
  BY <1>2, <1>3

\* A key is read only if there is room for its property.
DecoderTypes ==
  /\ Geek!TypeOK
  /\ state \in {"Colon", "Value"} => Len(properties) < MaxProperties
  /\ state = "idle" => key = [begin |-> 1, end |-> 1]

\* How far a turn can come.
LEMMA PlacesInReach ==
  ASSUME ScannerInv, p < Geek!End
  PROVE  /\ Geek!End \in Nat /\ p \in 1 .. Geek!End /\ Geek!At \in 1 .. Geek!End
         /\ Geek!FirstFrom(Geek!At + 1, {"q"}) \in 1 .. Geek!End + 1
         /\ Geek!ValueEnd \in 1 .. Geek!End + 1
<1>1. PICK n \in Nat : n = Len(packet) /\ Geek!End = n + 1
  BY ScannerNumbers
<1>2. PICK at \in Nat : at = Geek!At /\ 1 <= at /\ at <= n + 1
  BY <1>1, ScannerNumbers
<1>3. PICK close : close = Geek!FirstFrom(at + 1, {"q"})
  OBVIOUS
<1>4. close \in Nat /\ at + 1 <= close /\ close <= n + 2
  <2>1. at + 1 \in Nat
    OBVIOUS
  <2>2. /\ close \in Nat /\ at + 1 <= close
        /\ at + 1 <= n + 1 => close <= n + 1
        /\ at + 1 > n => close = at + 1
    BY <1>1, <1>3, <2>1, FirstFromGoesOn
  <2> QED
    BY <1>2, <2>2
<1>5. PICK e : e = Geek!ValueEnd
  OBVIOUS
<1>6. e \in Nat /\ at <= e /\ e <= n + 2
  BY <1>1, <1>2, <1>5, ScannerNumbers
<1> QED
  BY <1>1, <1>2, <1>3, <1>4, <1>5, <1>6, ScannerNumbers

\* A turn that changes what it may.
LEMMA TurnKeepsTypes ==
  ASSUME ScannerInv', DecoderTypes,
         UNCHANGED <<packet, behind, user>>,
         p' \in 1 .. Geek!End + 2,
         key'.begin \in 1 .. Geek!End + 1, key'.end \in 1 .. Geek!End + 1,
         \A i \in DOMAIN properties' :
           properties'[i].key \in Geek!Extent /\ properties'[i].value \in Geek!Extent,
         Len(properties') <= MaxProperties,
         state' \in {"Colon", "Value"} => Len(properties') < MaxProperties,
         state' # "idle"
  PROVE  DecoderTypes'
<1>1. Geek!End' = Geek!End /\ Geek!Extent' = Geek!Extent
  BY DEF Geek!End, Geek!Extent
<1>2. /\ packet' \in Seq(Geek!Characters) /\ turns' \in Nat
      /\ state' \in {"idle", "ObjectStart", "KeyOrObjectEnd", "Colon", "Value",
                     "CommaOrObjectEnd", "parsed", "learnt"}
  BY DEF ScannerInv
<1>3. behind' \in Behind /\ user' \in 0 .. Geek!Word - 1
  BY DEF DecoderTypes, Geek!TypeOK
<1>4. Geek!TypeOK'
  BY <1>1, <1>2, <1>3 DEF Geek!TypeOK
<1> QED
  BY <1>4 DEF DecoderTypes

\* The property that is added has room, because its key was read.
LEMMA ValueKeepsTypes ==
  ASSUME ScannerInv, ScannerInv', DecoderTypes, Geek!ExpectValue
  PROVE  DecoderTypes'
<1>1. /\ state = "Value" /\ p < Geek!End /\ UNCHANGED <<packet, behind, user, key>>
      /\ properties' = Append(properties, [key |-> key, value |-> [begin |-> Geek!At, end |-> Geek!ValueEnd]])
      /\ p' = (IF Geek!Here = "q" THEN Geek!ValueEnd + 1 ELSE Geek!ValueEnd)
      /\ state' = "CommaOrObjectEnd"
  BY DEF Geek!ExpectValue, Geek!Turn
<1>2. PICK n \in Nat : n = Geek!End
  BY <1>1, PlacesInReach
<1>3. PICK at, e : at = Geek!At /\ e = Geek!ValueEnd
  OBVIOUS
<1>4. at \in 1 .. n + 1 /\ e \in 1 .. n + 1
  BY <1>1, <1>2, <1>3, PlacesInReach
<1>5. PICK new : new = [key |-> key, value |-> [begin |-> at, end |-> e]]
  OBVIOUS
<1>6. key \in [begin : 1 .. n + 1, end : 1 .. n + 1]
  <2>1. key \in [begin : Nat, end : Nat] /\ key.begin \in 1 .. n + 1 /\ key.end \in 1 .. n + 1
    BY <1>2 DEF ScannerInv, DecoderTypes, Geek!TypeOK
  <2> QED
    BY <2>1
<1>7. new.key \in Geek!Extent /\ new.value \in Geek!Extent
  BY <1>2, <1>4, <1>5, <1>6 DEF Geek!Extent
<1>8. PICK S : properties \in Seq(S) /\ new \in S
  <2>1. properties \in Seq([key : [begin : Nat, end : Nat], value : [begin : Nat, end : Nat]])
    BY DEF ScannerInv
  <2>2. new \in [key : [begin : Nat, end : Nat], value : [begin : Nat, end : Nat]]
    BY <1>4, <1>5, <1>6
  <2> QED
    BY <2>1, <2>2
<1>9. /\ Len(properties') = Len(properties) + 1 /\ Len(properties) \in Nat
      /\ DOMAIN properties' = 1 .. Len(properties) + 1
      /\ \A i \in 1 .. Len(properties) : properties'[i] = properties[i]
      /\ properties'[Len(properties) + 1] = new
  <2>1. properties' = Append(properties, new)
    BY <1>1, <1>3, <1>5
  <2>2. DOMAIN Append(properties, new) = 1 .. Len(properties) + 1
    BY <1>8
  <2> QED
    BY <1>8, <2>1, <2>2, Ended
<1>10. Len(properties) < MaxProperties /\ MaxProperties \in Nat
  BY <1>1, DocumentsAssumption DEF DecoderTypes
<1>11. \A i \in DOMAIN properties' :
         properties'[i].key \in Geek!Extent /\ properties'[i].value \in Geek!Extent
  <2>1. \A i \in DOMAIN properties :
          properties[i].key \in Geek!Extent /\ properties[i].value \in Geek!Extent
    BY DEF DecoderTypes, Geek!TypeOK
  <2>2. DOMAIN properties = 1 .. Len(properties)
    BY <1>8
  <2> SUFFICES ASSUME NEW i \in 1 .. Len(properties) + 1
               PROVE  properties'[i].key \in Geek!Extent /\ properties'[i].value \in Geek!Extent
    BY <1>9
  <2>3. CASE i \in 1 .. Len(properties)
    BY <1>9, <2>1, <2>2, <2>3
  <2>4. CASE i = Len(properties) + 1
    BY <1>7, <1>9, <2>4
  <2> QED
    BY <1>9, <2>3, <2>4
<1>12. p' \in 1 .. Geek!End + 2 /\ key'.begin \in 1 .. Geek!End + 1 /\ key'.end \in 1 .. Geek!End + 1
  <2>1. p' = e \/ p' = e + 1
    BY <1>1, <1>3
  <2>2. p' \in 1 .. Geek!End + 2
    BY <1>2, <1>4, <2>1
  <2> QED
    BY <1>1, <1>2, <1>6, <2>2
<1>13. Len(properties') <= MaxProperties
  BY <1>9, <1>10
<1> QED
  BY <1>1, <1>11, <1>12, <1>13, TurnKeepsTypes

LEMMA OtherTurnsKeepTypes ==
  ASSUME ScannerInv, ScannerInv', DecoderTypes,
         \/ Geek!ExpectObjectStart \/ Geek!ExpectKeyOrObjectEnd \/ Geek!ExpectColon
         \/ Geek!ExpectCommaOrObjectEnd
  PROVE  DecoderTypes'
<1>1. p < Geek!End /\ UNCHANGED <<packet, behind, user, properties>>
  BY DEF Geek!ExpectObjectStart, Geek!ExpectKeyOrObjectEnd, Geek!ExpectColon, Geek!ExpectCommaOrObjectEnd,
         Geek!Turn
<1>2. PICK n \in Nat : n = Geek!End
  BY <1>1, PlacesInReach
<1>3. PICK at : at = Geek!At
  OBVIOUS
<1>4. PICK close : close = Geek!FirstFrom(at + 1, {"q"})
  OBVIOUS
<1>5. at \in 1 .. n /\ close \in 1 .. n + 1 /\ p \in 1 .. n
  BY <1>1, <1>2, <1>3, <1>4, PlacesInReach
<1>6. key.begin \in 1 .. n + 1 /\ key.end \in 1 .. n + 1 /\ Len(properties) <= MaxProperties
      /\ (state = "Colon" => Len(properties) < MaxProperties)
      /\ \A i \in DOMAIN properties : properties[i].key \in Geek!Extent /\ properties[i].value \in Geek!Extent
  BY <1>2 DEF DecoderTypes, Geek!TypeOK
<1>7. CASE Geek!ExpectKeyOrObjectEnd
  <2>1. \/ state' = "parsed" /\ UNCHANGED <<p, key>>
        \/ /\ Len(properties) < MaxProperties
           /\ key' = [begin |-> at + 1, end |-> close] /\ p' = close + 1 /\ state' = "Colon"
        \/ state' = "KeyOrObjectEnd" /\ p' = at + 1 /\ key' = key
    BY <1>3, <1>4, <1>7 DEF Geek!ExpectKeyOrObjectEnd, Geek!ReadKey, Geek!SkipOne, Geek!Turn
  <2>2. p' \in {p, at + 1, close + 1} /\ (key' = key \/ key' = [begin |-> at + 1, end |-> close])
    BY <2>1
  <2>3. p' \in 1 .. n + 2
    BY <1>5, <2>2
  <2>4. key'.begin \in 1 .. n + 1 /\ key'.end \in 1 .. n + 1
    <3>1. CASE key' = key
      BY <1>6, <3>1
    <3>2. CASE key' = [begin |-> at + 1, end |-> close]
      <4>1. key'.begin = at + 1 /\ key'.end = close
        BY <3>2
      <4> QED
        BY <1>5, <4>1
    <3> QED
      BY <2>2, <3>1, <3>2
  <2> QED
    BY <1>1, <1>2, <1>6, <2>1, <2>3, <2>4, TurnKeepsTypes
<1>8. CASE Geek!ExpectObjectStart \/ Geek!ExpectColon \/ Geek!ExpectCommaOrObjectEnd
  <2>1. /\ key' = key /\ p' \in {p, at + 1} /\ state' # "idle"
        /\ state' \in {"Colon", "Value"} => state = "Colon"
    BY <1>3, <1>8 DEF Geek!ExpectObjectStart, Geek!ExpectColon, Geek!ExpectCommaOrObjectEnd, Geek!Turn
  <2>2. p' \in 1 .. n + 2
    BY <1>5, <2>1
  <2> QED
    BY <1>1, <1>2, <1>6, <2>1, <2>2, TurnKeepsTypes
<1> QED
  BY <1>7, <1>8

\* What happens before and after the turns.
LEMMA AroundKeepsTypes ==
  ASSUME ScannerInv, ScannerInv', DecoderTypes,
         Geek!Receive \/ Geek!ParseEnds \/ Geek!LearnUser \/ Geek!WriteToStream \/ UNCHANGED Geek!geekVars
  PROVE  DecoderTypes'
<1>1. /\ packet' \in Seq(Geek!Characters) /\ turns' \in Nat
      /\ state' \in {"idle", "ObjectStart", "KeyOrObjectEnd", "Colon", "Value",
                     "CommaOrObjectEnd", "parsed", "learnt"}
  BY DEF ScannerInv
<1>2. PICK n \in Nat : n = Len(packet') /\ Geek!End' = n + 1
  BY <1>1 DEF Geek!End
<1>3. CASE Geek!Receive
  <2>1. /\ p' = 1 /\ key' = [begin |-> 1, end |-> 1] /\ properties' = <<>> /\ user' = user
        /\ behind' \in Behind /\ state' = "ObjectStart"
    BY <1>3 DEF Geek!Receive, ScannerInv, DecoderTypes
  <2>2. p' \in 1 .. n + 3 /\ key'.begin \in 1 .. n + 2 /\ key'.end \in 1 .. n + 2
    BY <2>1
  <2>3. Len(properties') = 0 /\ 0 <= MaxProperties /\ DOMAIN properties' = {}
    BY <2>1, DocumentsAssumption
  <2>4. user' \in 0 .. Geek!Word - 1
    BY <2>1 DEF DecoderTypes, Geek!TypeOK
  <2> QED
    BY <1>1, <1>2, <2>1, <2>2, <2>3, <2>4 DEF DecoderTypes, Geek!TypeOK
<1>4. CASE Geek!WriteToStream
  <2>1. /\ p' = 1 /\ key' = [begin |-> 1, end |-> 1] /\ properties' = <<>> /\ user' = user
        /\ behind' = behind /\ state' = "idle"
    BY <1>4 DEF Geek!WriteToStream
  <2>2. p' \in 1 .. n + 3 /\ key'.begin \in 1 .. n + 2 /\ key'.end \in 1 .. n + 2
    BY <2>1
  <2>3. Len(properties') = 0 /\ 0 <= MaxProperties /\ DOMAIN properties' = {}
    BY <2>1, DocumentsAssumption
  <2>4. user' \in 0 .. Geek!Word - 1 /\ behind' \in Behind
    BY <2>1 DEF DecoderTypes, Geek!TypeOK
  <2> QED
    BY <1>1, <1>2, <2>1, <2>2, <2>3, <2>4 DEF DecoderTypes, Geek!TypeOK
<1>5. CASE Geek!ParseEnds \/ Geek!LearnUser \/ UNCHANGED Geek!geekVars
  <2>1. /\ UNCHANGED <<packet, behind, p, key, properties>>
        /\ state' = state \/ state' \in {"parsed", "learnt"}
    BY <1>5 DEF Geek!ParseEnds, Geek!CountComplete, Geek!LearnUser, Geek!geekVars, Geek!scanner
  <2>2. user' \in 0 .. Geek!Word - 1
    <3>1. CASE user' = user
      BY <3>1 DEF DecoderTypes, Geek!TypeOK
    <3>2. CASE /\ Geek!MacProperties # {}
               /\ user' = Geek!UserId(Geek!MacText(properties[Geek!Min(Geek!MacProperties)].value))
      <4>1. properties \in Seq([key : [begin : Nat, end : Nat], value : [begin : Nat, end : Nat]])
        BY DEF ScannerInv
      <4>2. Geek!MacProperties \in SUBSET Nat /\ Geek!MacProperties \subseteq DOMAIN properties
        BY <4>1 DEF Geek!MacProperties
      <4>3. \E x \in Geek!MacProperties : \A y \in Geek!MacProperties : x <= y
        BY <3>2, <4>2, LeastNatural
      <4>4. Geek!Min(Geek!MacProperties) \in DOMAIN properties
        BY <4>2, <4>3 DEF Geek!Min
      <4>5. PICK value \in [begin : Nat, end : Nat] : value = properties[Geek!Min(Geek!MacProperties)].value
        <5>1. PICK i \in DOMAIN properties : i = Geek!Min(Geek!MacProperties)
          BY <4>4
        <5> DEFINE E == [key : [begin : Nat, end : Nat], value : [begin : Nat, end : Nat]]
        <5>2. properties[i] \in E
          <6>1. properties \in Seq(E)
            BY <4>1
          <6> HIDE DEF E
          <6> QED
            BY <6>1
        <5> QED
          BY <5>1, <5>2
      <4>6. PICK text : text = Geek!MacText(value)
        OBVIOUS
      <4>7. DOMAIN text = 1 .. (value.end + 1) - (value.begin + 1)
        BY <4>6 DEF Geek!MacText, Geek!Text
      <4>8. (value.end + 1) - (value.begin + 1) \in Int
        BY <4>5
      <4>9. Geek!UserId(text) \in 0 .. Geek!Word - 1
        BY <4>7, <4>8, UserIdIsWord
      <4> QED
        BY <3>2, <4>5, <4>6, <4>9
    <3> QED
      BY <1>5, <3>1, <3>2 DEF Geek!ParseEnds, Geek!LearnUser, Geek!geekVars
  <2>3. Geek!End' = Geek!End /\ Geek!Extent' = Geek!Extent
    BY <2>1 DEF Geek!End, Geek!Extent
  <2> QED
    BY <1>1, <2>1, <2>2, <2>3 DEF DecoderTypes, Geek!TypeOK
<1> QED
  BY <1>3, <1>4, <1>5

LEMMA DecoderTypesStep ==
  ASSUME ScannerInv, ScannerInv', DecoderTypes, Geek!Next \/ UNCHANGED Geek!geekVars
  PROVE  DecoderTypes'
  BY ValueKeepsTypes, OtherTurnsKeepTypes, AroundKeepsTypes DEF Geek!Next, Geek!Decode

LEMMA DecoderTypesBegin == ASSUME Geek!Init PROVE DecoderTypes
<1>1. /\ packet = <<>> /\ state = "idle" /\ p = 1 /\ turns = 0 /\ behind \in Behind
      /\ key = [begin |-> 1, end |-> 1] /\ properties = <<>> /\ user = 0
  BY DEF Geek!Init
<1>2. Len(packet) = 0 /\ Geek!End = 1 /\ packet \in Seq(Geek!Characters)
  BY <1>1 DEF Geek!End
<1>3. p \in 1 .. Geek!End + 2 /\ key.begin \in 1 .. Geek!End + 1 /\ key.end \in 1 .. Geek!End + 1
  BY <1>1, <1>2
<1>4. Len(properties) <= MaxProperties /\ DOMAIN properties = {} /\ user \in 0 .. Geek!Word - 1
  BY <1>1, ValuesAre
<1> QED
  BY <1>1, <1>2, <1>3, <1>4 DEF DecoderTypes, Geek!TypeOK

LEMMA DecoderTypesInvariant == PartsSpec => []DecoderTypes
<1>1. PartsInit => DecoderTypes
  BY DecoderTypesBegin DEF PartsInit
<1>2. ScannerInv /\ ScannerInv' /\ DecoderTypes /\ [PartsNext]_partVars => DecoderTypes'
  <2> SUFFICES ASSUME ScannerInv, ScannerInv', DecoderTypes, [PartsNext]_partVars PROVE DecoderTypes'
    OBVIOUS
  <2>1. Geek!Next \/ UNCHANGED Geek!geekVars
    BY DEF PartsNext, partVars, geekVars, Geek!geekVars, Geek!scanner
  <2> QED
    BY <2>1, DecoderTypesStep
<1> QED
  BY <1>1, <1>2, ScannerInvariant, PTL DEF PartsSpec

------------------------------------------------------------------------------
(* The streams that the decoder writes to.                                   *)

\* An address that is one digit too long: what is read of it and of the address
\* without its first digit is the same up to the digits of an address.
LEMMA LastDigitsStay ==
  ASSUME NEW u, NEW t, NEW f, NEW g, ReadsDigits(u, MacDigits + 1, f), ReadsDigits(t, MacDigits, g),
         \A k \in 1 .. MacDigits : t[k] = u[k + 1]
  PROVE  f[MacDigits + 1] % Geek!Values[MacDigits] = g[MacDigits]
<1> DEFINE V == Geek!Values
           T == {k \in 0 .. MacDigits : g[k] < V[k] /\ f[k + 1] % V[k] = g[k]}
<1>1. /\ \A k \in 0 .. MacDigits : V[k] \in Nat \ {0}
      /\ V[0] = 1 /\ \A k \in 0 .. MacDigits : V[k + 1] = V[k] * Base
  <2>1. \A k \in 0 .. MacDigits : k \in 0 .. MacDigits + 4 /\ k < MacDigits + 4
    OBVIOUS
  <2> HIDE DEF V
  <2>2. /\ V \in [0 .. MacDigits + 4 -> Nat \ {0}] /\ V[0] = 1
        /\ \A n \in 0 .. MacDigits + 4 : n < MacDigits + 4 => V[n + 1] = V[n] * Base
    BY ValuesAre DEF V
  <2> QED
    BY <2>1, <2>2
<1>2. /\ \A k \in 0 .. MacDigits : g[k] \in Nat /\ f[k] \in Nat /\ f[k + 1] \in Nat
      /\ \A k \in 0 .. MacDigits : k < MacDigits =>
           g[k + 1] = ((g[k] * Base + Geek!Digit(t[k + 1])) % Geek!Word)
      /\ \A k \in 0 .. MacDigits : f[k + 1] = ((f[k] * Base + Geek!Digit(u[k + 1])) % Geek!Word)
      /\ g[0] = 0
  <2>1. \A k \in 0 .. MacDigits : k \in 0 .. MacDigits + 1 /\ k < MacDigits + 1 /\ k + 1 \in 0 .. MacDigits + 1
    OBVIOUS
  <2>2. \A n \in 0 .. Geek!Word - 1 : n \in Nat
    BY ValuesAre
  <2> QED
    BY <2>1, <2>2 DEF ReadsDigits
<1>3. 0 \in T
  <2>1. f[1] \in Nat
    BY <1>2
  <2>2. f[1] % 1 = 0
    BY <2>1
  <2> QED
    BY <1>1, <1>2, <2>2
<1>4. ASSUME NEW k \in 0 .. MacDigits, k < MacDigits, k \in T PROVE k + 1 \in T
  <2>1. k + 1 \in 0 .. MacDigits /\ k + 1 \in 1 .. MacDigits /\ k + 1 \in 0 .. MacDigits + 4
    BY <1>4
  <2>2. PICK P \in Nat \ {0} : P = V[k]
    BY <1>1
  <2>3. PICK y \in 0 .. P - 1 : y = g[k] /\ f[k + 1] % P = y
    BY <1>2, <1>4, <2>2
  <2>4. PICK x \in Nat : x = f[k + 1] /\ x % P = y
    BY <1>2, <2>3
  <2>5. PICK d \in {0, 1, 2} : d = Geek!Digit(u[k + 2]) /\ d = Geek!Digit(t[k + 1])
    <3>1. t[k + 1] = u[(k + 1) + 1] /\ (k + 1) + 1 = k + 2
      BY <2>1
    <3> QED
      BY <3>1, DigitsAre
  <2>6. V[k + 1] = P * Base
    BY <1>1, <2>2
  <2>7. PICK W : W = Geek!Word
    OBVIOUS
  <2>8. PICK c \in Nat \ {0} : W = (P * Base) * c
    <3>1. MacDigits + 4 \in Nat /\ Base \in Nat \ {0}
      OBVIOUS
    <3>2. \E c \in Nat \ {0} : V[MacDigits + 4] = V[k + 1] * c
      <4>1. \A n \in Nat : k + 1 \in 0 .. n => (Powers(Base, n, V) => \E c \in Nat \ {0} : V[n] = V[k + 1] * c)
        BY <3>1, PowersDivide
      <4> QED
        BY <2>1, <3>1, <4>1, ValuesAre
    <3> QED
      BY <2>6, <2>7, <3>2, ValuesAre
  <2>9. d \in 0 .. Base - 1 /\ Base \in Nat \ {0}
    OBVIOUS
  <2>10. /\ y * Base + d \in 0 .. P * Base - 1
         /\ (y * Base + d) % W = y * Base + d
         /\ ((x * Base + d) % W) % (P * Base) = y * Base + d
    <3>1. PICK B \in Nat \ {0} : B = Base
      BY <2>9
    <3>2. RoomFor(P, B, W) /\ HasRest(P, x, y) /\ d \in 0 .. B - 1
      BY <2>4, <2>8, <2>9, <3>1 DEF RoomFor, HasRest
    <3>3. OneMoreDigit(B, P, W, x, y, d)
      BY <3>2, DigitAdded
    <3> QED
      BY <3>1, <3>3 DEF OneMoreDigit
  <2>11. g[k + 1] = ((y * Base + d) % W)
    BY <1>2, <1>4, <2>3, <2>5, <2>7
  <2>12. f[(k + 1) + 1] = ((x * Base + d) % W)
    <3>1. f[(k + 1) + 1] = ((f[k + 1] * Base + Geek!Digit(u[(k + 1) + 1])) % Geek!Word)
      BY <1>2, <2>1
    <3>2. (k + 1) + 1 = k + 2
      OBVIOUS
    <3> QED
      BY <2>4, <2>5, <2>7, <3>1, <3>2
  <2>13. PICK z, Q : z = y * Base + d /\ Q = P * Base
    OBVIOUS
  <2>14. z \in 0 .. Q - 1 /\ g[k + 1] = z /\ f[(k + 1) + 1] % Q = z /\ V[k + 1] = Q
    BY <2>6, <2>10, <2>11, <2>12, <2>13
  <2>15. z < Q
    <3>1. Q \in Nat
      BY <2>13
    <3> QED
      BY <2>14, <3>1
  <2> QED
    BY <2>1, <2>14, <2>15
<1> HIDE DEF T
<1>5. 0 .. MacDigits \subseteq T
  BY <1>3, <1>4, UpTo
<1>6. MacDigits \in T
  BY <1>5
<1> QED
  BY <1>6 DEF T

\* The sequence of a set with at most one element.
LEMMA FewInSequence ==
  ASSUME NEW S, \E e : S \subseteq {e}
  PROVE  Geek!SetToSeq(S) \in Seq(S)
<1>1. PICK n \in Nat : n = Geek!Cardinality(S) /\ \E f : f \in [1 .. n -> S] /\ Geek!IsInjective(f)
  <2>1. CASE S = {}
    <3>1. PICK n \in Nat : n = 0 /\ Geek!Cardinality(S) = n
      BY <2>1, FS_EmptySet, Zenon DEF Geek!Cardinality, Cardinality
    <3>2. PICK f : f = [i \in 1 .. n |-> i]
      OBVIOUS
    <3>3. f \in [1 .. n -> S] /\ Geek!IsInjective(f)
      BY <3>1, <3>2 DEF Geek!IsInjective
    <3> QED
      BY <3>1, <3>3
  <2>2. ASSUME NEW e, S = {e} 
            PROVE \E n \in Nat : n = Geek!Cardinality(S) /\ \E f : f \in [1 .. n -> S] /\ Geek!IsInjective(f)
    <3>1. PICK n \in Nat : n = 1 /\ Geek!Cardinality(S) = n
      BY <2>2, FS_Singleton, Zenon DEF Geek!Cardinality, Cardinality
    <3>2. PICK f : f = [i \in 1 .. n |-> e]
      OBVIOUS
    <3>3. f \in [1 .. n -> S] /\ Geek!IsInjective(f)
      BY <2>2, <3>1, <3>2 DEF Geek!IsInjective
    <3> QED
      BY <3>1, <3>3
  <2> QED
    BY <2>1, <2>2
<1>2. Geek!SetToSeq(S) \in [1 .. n -> S]
  BY <1>1, Zenon DEF Geek!SetToSeq
<1> QED
  BY <1>2

\* What an entry of the last packet can be.
Entry(entry, k, type) == entry = [key |-> k, id |-> Geek!StreamId(type)]

EntriesOf(i) ==
  {[key |-> Geek!Text(properties[i].key), id |-> Geek!StreamId(type)] :
     type \in Geek!WrittenAs(properties[i])}

LEMMA WritesAre ==
  ASSUME ScannerInv, NEW x \in DOMAIN Geek!Writes
  PROVE  \/ Entry(Geek!Writes[x], <<>>, <<"json", 0>>)
         \/ \E i \in DOMAIN properties : \E type \in Geek!WrittenAs(properties[i]) :
              Entry(Geek!Writes[x], Geek!Text(properties[i].key), type)
<1> DEFINE h == [key |-> <<>>, id |-> Geek!StreamId(<<"json", 0>>)]
<1>1. PICK n \in Nat : DOMAIN properties = 1 .. n
  BY DEF ScannerInv
<1>2. ASSUME NEW i \in 1 .. n PROVE Geek!SetToSeq(EntriesOf(i)) \in Seq(EntriesOf(i))
  <2>1. PICK t : Geek!WrittenAs(properties[i]) \subseteq {t}
    <3>1. \/ Geek!WrittenAs(properties[i]) = {<<"voltage", 0>>}
          \/ Geek!WrittenAs(properties[i]) =
               {<<"switch", Geek!Switch(Geek!Char(properties[i].key.begin + 1))>>}
          \/ Geek!WrittenAs(properties[i]) = {}
      BY Zenon DEF Geek!WrittenAs
    <3> QED
      BY <3>1
  <2>2. EntriesOf(i) \subseteq {[key |-> Geek!Text(properties[i].key), id |-> Geek!StreamId(t)]}
    BY <2>1, Zenon DEF EntriesOf
  <2> QED
    BY <2>2, FewInSequence
<1> DEFINE E == (UNION {EntriesOf(i) : i \in 1 .. n}) \cup {h}
<1>3. PICK s : s = [i \in DOMAIN properties |-> Geek!SetToSeq(EntriesOf(i))]
  OBVIOUS
<1>4. Geek!Writes = <<h>> \o FlattenSeq(s)
  <2>1. Geek!Writes = <<h>> \o Geek!FlattenSeq(s)
    BY <1>3, Zenon DEF Geek!Writes, EntriesOf
  <2> QED
    BY <2>1, SameFlattenSeq
<1>5. Len(s) = n /\ \A i \in 1 .. n : s[i] \in Seq(EntriesOf(i))
  <2> QED
    BY <1>1, <1>2, <1>3
<1>6. \A i \in 1 .. n : EntriesOf(i) \subseteq E
  <2> HIDE DEF h
  <2> QED
    OBVIOUS
<1> HIDE DEF h, E
<1>7. s \in Seq(Seq(E))
  <2>1. s = [i \in 1 .. n |-> s[i]]
    BY <1>1, <1>3
  <2>2. \A i \in 1 .. n : s[i] \in Seq(E)
    BY <1>5, <1>6
  <2> QED
    BY <2>1, <2>2
<1>8. PICK F \in Seq(E) : F = FlattenSeq(s)
  BY <1>7, FlattenType
<1>9. FromParts(s)
  BY <1>7, FlattenPlaces
<1>10. h \in E
  BY DEF E
<1>11. /\ DOMAIN Geek!Writes = 1 .. Len(F) + 1 /\ Geek!Writes[1] = h /\ Len(F) \in Nat
       /\ \A i \in 1 .. Len(F) : Geek!Writes[i + 1] = F[i]
  <2>1. Geek!Writes = <<h>> \o F
    BY <1>4, <1>8
  <2>2. /\ <<h>> \o F \in Seq(E) /\ Len(<<h>> \o F) = Len(F) + 1 /\ (<<h>> \o F)[1] = h
        /\ \A i \in 1 .. Len(F) : (<<h>> \o F)[i + 1] = F[i]
        /\ Len(F) \in Nat
    BY <1>10, Headed
  <2>3. DOMAIN (<<h>> \o F) = 1 .. Len(F) + 1
    BY <2>2
  <2> QED
    BY <2>1, <2>2, <2>3
<1>12. CASE x = 1
  <2>1. Geek!Writes[x] = h
    BY <1>11, <1>12
  <2> QED
    BY <2>1 DEF Entry, h
<1>13. CASE x # 1
  <2>1. PICK y \in 1 .. Len(F) : x = y + 1
    <3>1. x - 1 \in 1 .. Len(F) /\ x = (x - 1) + 1
      BY <1>11, <1>13
    <3> QED
      BY <3>1
  <2>2. Geek!Writes[x] = F[y]
    BY <1>11, <2>1
  <2>3. PICK i \in 1 .. n : \E j \in 1 .. Len(s[i]) : F[y] = s[i][j]
    BY <1>5, <1>8, <1>9 DEF FromParts
  <2>4. PICK j \in 1 .. Len(s[i]) : F[y] = s[i][j]
    BY <2>3
  <2>5. s[i][j] \in EntriesOf(i)
    <3>1. PICK r : r = s[i] /\ r \in Seq(EntriesOf(i))
      BY <1>5
    <3>2. r[j] \in EntriesOf(i)
      BY <2>4, <3>1
    <3> QED
      BY <3>1, <3>2
  <2>6. PICK type \in Geek!WrittenAs(properties[i]) :
          s[i][j] = [key |-> Geek!Text(properties[i].key), id |-> Geek!StreamId(type)]
    BY <2>5 DEF EntriesOf
  <2>7. i \in DOMAIN properties
    BY <1>1
  <2> QED
    BY <2>2, <2>4, <2>6, <2>7 DEF Entry
<1> QED
  BY <1>12, <1>13

\* What a key is written under.
WrittenUnder(k, type) ==
  \/ k = <<>> /\ type = <<"json", 0>>
  \/ k = <<"voltage">> /\ type = <<"voltage", 0>>
  \/ /\ Geek!IsSwitch(k) /\ \E n : type = <<"switch", n>>
     /\ k = <<"key">> => type = <<"switch", 2>>
     /\ k \in {<<"key", "d0">>, <<"key", "d1">>} => type = <<"switch", 1>>
     /\ k = <<"key", "d2">> => type = <<"switch", 2>>
     /\ k = <<"key", "Lock">> => type = <<"switch", 12>>

LEMMA SameStream ==
  ASSUME NEW k, NEW l, NEW type, WrittenUnder(k, type), WrittenUnder(l, type), k # l
  PROVE  /\ Geek!IsSwitch(k) /\ Geek!IsSwitch(l)
         /\ {k, l} \subseteq Geek!SwitchKeys =>
              {k, l} \in {{<<"key", "d0">>, <<"key", "d1">>}, {<<"key">>, <<"key", "d2">>}}
<1>1. Geek!IsSwitch(k) /\ Geek!IsSwitch(l) /\ \E n : type = <<"switch", n>>
  BY DEF WrittenUnder
<1>2. /\ k = <<"key">> => type = <<"switch", 2>>
      /\ k \in {<<"key", "d0">>, <<"key", "d1">>} => type = <<"switch", 1>>
      /\ k = <<"key", "d2">> => type = <<"switch", 2>>
      /\ k = <<"key", "Lock">> => type = <<"switch", 12>>
      /\ l = <<"key">> => type = <<"switch", 2>>
      /\ l \in {<<"key", "d0">>, <<"key", "d1">>} => type = <<"switch", 1>>
      /\ l = <<"key", "d2">> => type = <<"switch", 2>>
      /\ l = <<"key", "Lock">> => type = <<"switch", 12>>
  <2>1. k # <<>> /\ l # <<>> /\ k # <<"voltage">> /\ l # <<"voltage">>
    <3>1. Head(<<"voltage">>) = "voltage"
      OBVIOUS
    <3> QED
      BY <1>1, <3>1 DEF Geek!IsSwitch
  <2> QED
    BY <2>1 DEF WrittenUnder
<1>3. PICK a, b, c, d, e : /\ a = <<"key">> /\ b = <<"key", "d0">> /\ c = <<"key", "d1">>
                           /\ d = <<"key", "d2">> /\ e = <<"key", "Lock">>
  OBVIOUS
<1>4. /\ <<"switch", 1>> # <<"switch", 2>> /\ <<"switch", 1>> # <<"switch", 12>>
      /\ <<"switch", 2>> # <<"switch", 12>>
  OBVIOUS
<1>5. ASSUME {k, l} \subseteq {a, b, c, d, e} PROVE {k, l} = {b, c} \/ {k, l} = {a, d}
  <2>1. k \in {a, b, c, d, e} /\ l \in {a, b, c, d, e}
    BY <1>5
  <2>2. \/ k = b /\ l = c
        \/ k = c /\ l = b
        \/ k = a /\ l = d
        \/ k = d /\ l = a
    <3>1. /\ k = a => type = <<"switch", 2>>
          /\ k \in {b, c} => type = <<"switch", 1>>
          /\ k = d => type = <<"switch", 2>>
          /\ k = e => type = <<"switch", 12>>
          /\ l = a => type = <<"switch", 2>>
          /\ l \in {b, c} => type = <<"switch", 1>>
          /\ l = d => type = <<"switch", 2>>
          /\ l = e => type = <<"switch", 12>>
      BY <1>2, <1>3
    <3>2. PICK x, y, z : x = <<"switch", 1>> /\ y = <<"switch", 2>> /\ z = <<"switch", 12>>
      OBVIOUS
    <3>3. x # y /\ x # z /\ y # z
      BY <1>4, <3>2
    <3> QED
      BY <2>1, <3>1, <3>2, <3>3
  <2> QED
    BY <2>2
<1> QED
  BY <1>1, <1>3, <1>5 DEF Geek!SwitchKeys

\* The keys that were read end where a quote is.
KeysClosed ==
  /\ \A i \in DOMAIN properties : packet[properties[i].key.end] = "q"
  /\ state \in {"Colon", "Value"} /\ key.end <= Len(packet) => packet[key.end] = "q"

\* A key that was read is written under what it says.
LEMMA KeyIsWrittenUnder ==
  ASSUME ScannerInv, KeysClosed, NEW i \in DOMAIN properties,
         NEW type \in Geek!WrittenAs(properties[i])
  PROVE  WrittenUnder(Geek!Text(properties[i].key), type)
<1>1. PICK b \in Nat, e \in Nat : /\ properties[i].key.begin = b /\ properties[i].key.end = e
                                  /\ b <= e /\ e <= Len(packet) /\ packet[e] = "q"
  <2>1. properties[i].key.begin \in Nat /\ properties[i].key.end \in Nat
    <3> DEFINE E == [key : [begin : Nat, end : Nat], value : [begin : Nat, end : Nat]]
    <3>1. properties \in Seq(E)
      BY DEF ScannerInv
    <3>2. properties[i] \in E
      <4> HIDE DEF E
      <4> QED
        BY <3>1
    <3>3. properties[i].key \in [begin : Nat, end : Nat]
      BY <3>2
    <3> QED
      BY <3>3
  <2>2. properties[i].key.begin <= properties[i].key.end /\ properties[i].key.end < Geek!End
    BY DEF ScannerInv, Geek!ScannerKeepsToPacket, Geek!ReadsAtMostOneBehind
  <2>3. properties[i].key.end <= Len(packet)
    BY <2>1, <2>2, ScannerNumbers
  <2> QED
    BY <2>1, <2>2, <2>3 DEF KeysClosed
<1>2. PICK k : k = Geek!Text(properties[i].key)
  OBVIOUS
<1>3. /\ k = [j \in 1 .. e - b |-> Geek!Char(b + j - 1)]
      /\ \A j \in 1 .. Len(packet) : Geek!Char(j) = packet[j]
  BY <1>1, <1>2 DEF Geek!Text, Geek!Char
<1>4. CASE k = <<"voltage">>
  <2>1. type = <<"voltage", 0>>
    BY <1>2, <1>4 DEF Geek!WrittenAs
  <2> QED
    BY <1>2, <1>4, <2>1 DEF WrittenUnder
<1>5. CASE k # <<"voltage">>
  <2>1. Geek!Char(b) = "key" /\ type = <<"switch", Geek!Switch(Geek!Char(b + 1))>>
    BY <1>1, <1>2, <1>5, Zenon DEF Geek!WrittenAs
  <2>2. b < e
    <3>1. CASE b = e
      <4>1. Geek!Char(b) = packet[b]
        BY <1>1, <3>1 DEF Geek!Char
      <4> QED
        BY <1>1, <2>1, <3>1, <4>1
    <3> QED
      BY <1>1, <3>1
  <2>3. k # <<>> /\ Head(k) = "key" /\ k[1] = "key" /\ Len(k) = e - b
    <3>1. k[1] = Geek!Char(b)
      <4>1. 1 \in 1 .. e - b /\ b + 1 - 1 = b
        BY <1>1, <2>2
      <4> QED
        BY <1>3, <4>1
    <3>2. PICK n \in Nat : n = e - b /\ n > 0
      BY <1>1, <2>2
    <3>3. k = [j \in 1 .. n |-> Geek!Char(b + j - 1)]
      BY <1>3, <3>2
    <3>4. Len(k) = n /\ k # <<>> /\ Head(k) = k[1]
      BY <3>2, <3>3
    <3> QED
      BY <2>1, <3>1, <3>2, <3>4
  <2>4. PICK c : c = Geek!Char(b + 1)
    OBVIOUS
  <2>5. k = <<"key">> => c = "q"
    <3> SUFFICES ASSUME k = <<"key">> PROVE c = "q"
      OBVIOUS
    <3>1. e - b = 1
      BY <2>3
    <3>2. b + 1 = e
      BY <1>1, <3>1
    <3> QED
      BY <1>1, <2>4, <3>2 DEF Geek!Char
  <2>6. ASSUME NEW s, k = <<"key", s>> PROVE c = s
    <3>1. e - b = 2
      BY <2>3, <2>6
    <3>2. 2 \in 1 .. e - b /\ b + 2 - 1 = b + 1
      BY <1>1, <3>1
    <3>3. k[2] = Geek!Char(b + 1)
      BY <1>3, <3>2
    <3> QED
      BY <2>4, <2>6, <3>3
  <2>7. /\ Geek!Switch("q") = 2 /\ Geek!Switch("d0") = 1 /\ Geek!Switch("d1") = 1
        /\ Geek!Switch("d2") = 2 /\ Geek!Switch("Lock") = 12
    <3>1. /\ Geek!LowBits["q"] = 2 /\ Geek!LowBits["d0"] = 0 /\ Geek!LowBits["d1"] = 1
          /\ Geek!LowBits["d2"] = 2 /\ Geek!LowBits["Lock"] = 12
      BY DEF Geek!LowBits, Geek!Characters
    <3> QED
      BY <3>1 DEF Geek!Switch
  <2>8. Geek!IsSwitch(k)
    BY <2>3 DEF Geek!IsSwitch
  <2>9. type = <<"switch", Geek!Switch(c)>>
    BY <2>1, <2>4
  <2>10. /\ k = <<"key">> => type = <<"switch", 2>>
         /\ k \in {<<"key", "d0">>, <<"key", "d1">>} => type = <<"switch", 1>>
         /\ k = <<"key", "d2">> => type = <<"switch", 2>>
         /\ k = <<"key", "Lock">> => type = <<"switch", 12>>
    BY <2>5, <2>6, <2>7, <2>9
  <2> QED
    BY <1>2, <2>8, <2>9, <2>10, Zenon DEF WrittenUnder
<1> QED
  BY <1>4, <1>5

LEMMA KeysStayClosed ==
  ASSUME ScannerInv, KeysClosed, Geek!Next \/ UNCHANGED Geek!geekVars
  PROVE  KeysClosed'
<1>1. CASE Geek!Receive \/ Geek!WriteToStream
  <2>1. properties' = <<>> /\ state' \notin {"Colon", "Value"}
    BY <1>1 DEF Geek!Receive, Geek!WriteToStream, ScannerInv
  <2> QED
    BY <2>1 DEF KeysClosed
<1>2. CASE \/ Geek!ExpectObjectStart \/ Geek!ExpectColon \/ Geek!ExpectCommaOrObjectEnd \/ Geek!ParseEnds
           \/ Geek!LearnUser \/ UNCHANGED Geek!geekVars
  <2>1. /\ UNCHANGED <<packet, properties, key>>
        /\ state' \in {"Colon", "Value"} => state \in {"Colon", "Value"}
    BY <1>2 DEF Geek!ExpectObjectStart, Geek!ExpectColon, Geek!ExpectCommaOrObjectEnd, Geek!Turn, Geek!ParseEnds,
                Geek!CountComplete, Geek!LearnUser, Geek!geekVars, Geek!scanner
  <2> QED
    BY <2>1 DEF KeysClosed
<1>3. CASE Geek!ExpectKeyOrObjectEnd
  <2>1. UNCHANGED <<packet, properties>>
    BY <1>3 DEF Geek!ExpectKeyOrObjectEnd, Geek!Turn
  <2>2. CASE state' = "Colon" /\ key' = [begin |-> Geek!At + 1, end |-> Geek!FirstFrom(Geek!At + 1, {"q"})]
    <3>1. PICK n \in Nat, i \in Nat : n = Len(packet) /\ i = Geek!At + 1
      BY ScannerNumbers
    <3>2. PICK close : close = Geek!FirstFrom(i, {"q"}) /\ key'.end = close
      BY <2>2, <3>1
    <3>3. close <= n => packet[close] = "q"
      BY <3>1, <3>2, FirstFromFinds
    <3> QED
      BY <2>1, <3>1, <3>2, <3>3 DEF KeysClosed
  <2>3. CASE state' \notin {"Colon", "Value"}
    BY <2>1, <2>3 DEF KeysClosed
  <2> QED
    BY <1>3, <2>2, <2>3 DEF Geek!ExpectKeyOrObjectEnd, Geek!ReadKey, Geek!SkipOne, Geek!Turn
<1>4. CASE Geek!ExpectValue
  <2>1. /\ state = "Value" /\ packet' = packet /\ p < Geek!End
        /\ properties' = Append(properties, [key |-> key, value |-> [begin |-> Geek!At, end |-> Geek!ValueEnd]])
        /\ state' \notin {"Colon", "Value"}
    BY <1>4 DEF Geek!ExpectValue, Geek!Turn
  <2>2. PICK new : new = [key |-> key, value |-> [begin |-> Geek!At, end |-> Geek!ValueEnd]]
    OBVIOUS
  <2>3. new.key = key
    BY <2>2
  <2>4. packet[key.end] = "q"
    <3>1. key.end < p /\ key.end \in Nat /\ Len(packet) \in Nat /\ p \in Nat /\ p < Len(packet) + 1
      BY <2>1, ScannerNumbers DEF ScannerInv
    <3> QED
      BY <2>1, <3>1 DEF KeysClosed
  <2>5. PICK S : properties \in Seq(S) /\ new \in S
    <3>1. PICK T : properties \in Seq(T)
      BY DEF ScannerInv
    <3>2. properties \in Seq(T \cup {new})
      BY <3>1
    <3> QED
      BY <3>2
  <2>6. /\ DOMAIN properties' = 1 .. Len(properties) + 1 /\ DOMAIN properties = 1 .. Len(properties)
        /\ \A i \in 1 .. Len(properties) : properties'[i] = properties[i]
        /\ properties'[Len(properties) + 1] = new /\ Len(properties) \in Nat
    <3>1. DOMAIN Append(properties, new) = 1 .. Len(properties) + 1
      BY <2>5
    <3> QED
      BY <2>1, <2>2, <2>5, <3>1, Ended
  <2>7. ASSUME NEW i \in DOMAIN properties' PROVE packet'[properties'[i].key.end] = "q"
    <3>1. CASE i \in DOMAIN properties
      BY <2>1, <2>6, <3>1 DEF KeysClosed
    <3>2. CASE i = Len(properties) + 1
      BY <2>1, <2>3, <2>4, <2>6, <3>2
    <3> QED
      BY <2>6, <3>1, <3>2
  <2> QED
    BY <2>1, <2>7 DEF KeysClosed
<1> QED
  BY <1>1, <1>2, <1>3, <1>4 DEF Geek!Next, Geek!Decode

\* The user id is what is read of the address, which has a quote in front of it.
AddressRead ==
  user # 0 => \E n \in Nat : /\ mac = [i \in 1 .. n + 1 |-> mac[i]]
                             /\ user = Geek!UserId([i \in 1 .. n |-> mac[i + 1]])

\* While a packet is decoded nothing is written; what is written is of the user.
WrittenOfUser ==
  /\ state # "idle" => written = <<>>
  /\ written # <<>> => user # 0
  /\ \A i \in DOMAIN written : written[i].id.user = Geek!StreamUser

StreamsInv == KeysClosed /\ AddressRead /\ WrittenOfUser /\ Geek!SwitchesMeet

LEMMA AddressIsRead ==
  ASSUME ScannerInv, AddressRead, Geek!LearnUser
  PROVE  AddressRead'
<1>1. CASE UNCHANGED <<user, mac>>
  BY <1>1 DEF AddressRead
<1>2. CASE ~ UNCHANGED <<user, mac>>
  <2>1. PICK value : /\ value = properties[Geek!Min(Geek!MacProperties)].value
                     /\ user' = Geek!UserId(Geek!MacText(value))
                     /\ mac' = Geek!Text([value EXCEPT !.end = @ + 1])
                     /\ Geek!MacProperties # {}
    BY <1>2 DEF Geek!LearnUser
  <2>2. PICK b \in Nat, e \in Nat : value = [begin |-> b, end |-> e] /\ b <= e
    <3> DEFINE E == [key : [begin : Nat, end : Nat], value : [begin : Nat, end : Nat]]
    <3>1. properties \in Seq(E)
      BY DEF ScannerInv
    <3>2. Geek!MacProperties \in SUBSET Nat /\ Geek!MacProperties \subseteq DOMAIN properties
      BY <3>1 DEF Geek!MacProperties
    <3>3. \E x \in Geek!MacProperties : \A y \in Geek!MacProperties : x <= y
      BY <2>1, <3>2, LeastNatural
    <3>4. PICK i \in DOMAIN properties : i = Geek!Min(Geek!MacProperties)
      BY <3>2, <3>3 DEF Geek!Min
    <3>5. properties[i] \in E
      <4> HIDE DEF E
      <4> QED
        BY <3>1
    <3>6. value \in [begin : Nat, end : Nat]
      BY <2>1, <3>4, <3>5
    <3>7. value.begin <= value.end
      BY <2>1, <3>4 DEF ScannerInv, Geek!ScannerKeepsToPacket, Geek!ReadsAtMostOneBehind
    <3> QED
      BY <3>6, <3>7
  <2>3. PICK n \in Nat : n = e - b
    BY <2>2
  <2>4. /\ value.begin = b /\ value.end = e
        /\ [value EXCEPT !.end = @ + 1].begin = b /\ [value EXCEPT !.end = @ + 1].end = e + 1
    BY <2>2
  <2>5. mac' = [i \in 1 .. n + 1 |-> Geek!Char(b + i - 1)]
    <3>1. mac' = [i \in 1 .. (e + 1) - b |-> Geek!Char(b + i - 1)]
      <4>1. PICK longer : longer = [value EXCEPT !.end = @ + 1]
        OBVIOUS
      <4> QED
        BY <2>1, <2>4, <4>1 DEF Geek!Text
    <3>2. (e + 1) - b = n + 1
      BY <2>3
    <3> QED
      BY <3>1, <3>2
  <2>6. Geek!MacText(value) = [i \in 1 .. n |-> Geek!Char(b + i)]
    <3>1. Geek!MacText(value) = [i \in 1 .. (e + 1) - (b + 1) |-> Geek!Char((b + 1) + i - 1)]
      BY <2>4, SMT DEF Geek!MacText, Geek!Text
    <3>2. (e + 1) - (b + 1) = n /\ \A i \in 1 .. n : (b + 1) + i - 1 = b + i
      BY <2>3
    <3> QED
      BY <3>1, <3>2
  <2>7. \A i \in 1 .. n : mac'[i + 1] = Geek!Char(b + i)
    <3>1. \A i \in 1 .. n : i + 1 \in 1 .. n + 1 /\ b + (i + 1) - 1 = b + i
      OBVIOUS
    <3> QED
      BY <2>5, <3>1
  <2>8. [i \in 1 .. n |-> mac'[i + 1]] = [i \in 1 .. n |-> Geek!Char(b + i)]
    BY <2>7
  <2>9. mac' = [i \in 1 .. n + 1 |-> mac'[i]]
    BY <2>5
  <2> QED
    BY <2>1, <2>6, <2>8, <2>9 DEF AddressRead
<1> QED
  BY <1>1, <1>2

LEMMA WritesOfUser ==
  ASSUME ScannerInv, KeysClosed, Geek!WriteToStream
  PROVE  /\ written' # <<>> => user' # 0
         /\ \A i \in DOMAIN written' : written'[i].id.user = Geek!StreamUser'
         /\ Geek!SwitchesMeet'
<1>1. user' = user /\ written' = IF user # 0 THEN Geek!Writes ELSE <<>>
  BY DEF Geek!WriteToStream
<1>2. CASE user = 0
  BY <1>1, <1>2 DEF Geek!SwitchesMeet
<1>3. CASE user # 0
  <2>1. written' = Geek!Writes /\ Geek!StreamUser' = Geek!StreamUser
    BY <1>1, <1>3 DEF Geek!StreamUser
  <2>2. ASSUME NEW x \in DOMAIN written'
        PROVE  \E k, type : WrittenUnder(k, type) /\ Entry(written'[x], k, type)
    <3>1. CASE Entry(written'[x], <<>>, <<"json", 0>>)
      BY <3>1 DEF WrittenUnder
    <3>2. CASE \E i \in DOMAIN properties : \E type \in Geek!WrittenAs(properties[i]) :
                 Entry(written'[x], Geek!Text(properties[i].key), type)
      <4>1. PICK i \in DOMAIN properties : \E type \in Geek!WrittenAs(properties[i]) :
                 Entry(written'[x], Geek!Text(properties[i].key), type)
        BY <3>2
      <4>2. PICK type \in Geek!WrittenAs(properties[i]) : Entry(written'[x], Geek!Text(properties[i].key), type)
        BY <4>1
      <4>3. WrittenUnder(Geek!Text(properties[i].key), type)
        BY KeyIsWrittenUnder
      <4> QED
        BY <4>2, <4>3
    <3> QED
      BY <2>1, <3>1, <3>2, WritesAre
  <2>3. ASSUME NEW x \in DOMAIN written', NEW k, NEW type, Entry(written'[x], k, type)
        PROVE  /\ written'[x].key = k /\ written'[x].id.user = Geek!StreamUser
               /\ written'[x].id.type = type
    <3>1. PICK s : s = Geek!StreamUser
      OBVIOUS
    <3>2. written'[x] = [key |-> k, id |-> [user |-> s, type |-> type]]
      BY <2>3, <3>1 DEF Entry, Geek!StreamId
    <3> QED
      BY <3>1, <3>2
  <2>4. \A i \in DOMAIN written' : written'[i].id.user = Geek!StreamUser'
    BY <2>1, <2>2, <2>3
  <2>5. ASSUME NEW x \in DOMAIN written', NEW y \in DOMAIN written',
               written'[x].id = written'[y].id, written'[x].key # written'[y].key
        PROVE  /\ Geek!IsSwitch(written'[x].key) /\ Geek!IsSwitch(written'[y].key)
               /\ {written'[x].key, written'[y].key} \subseteq Geek!SwitchKeys =>
                    {written'[x].key, written'[y].key} \in
                      {{<<"key", "d0">>, <<"key", "d1">>}, {<<"key">>, <<"key", "d2">>}}
    <3>1. PICK k, type : WrittenUnder(k, type) /\ Entry(written'[x], k, type)
      BY <2>2
    <3>2. PICK l, other : WrittenUnder(l, other) /\ Entry(written'[y], l, other)
      BY <2>2
    <3>3. written'[x].key = k /\ written'[y].key = l /\ type = other
      BY <2>3, <2>5, <3>1, <3>2
    <3> QED
      BY <2>5, <3>1, <3>2, <3>3, SameStream
  <2>6. Geek!SwitchesMeet'
    BY <2>5 DEF Geek!SwitchesMeet, Geek!IsSwitch, Geek!SwitchKeys
  <2> QED
    BY <1>1, <1>3, <2>4, <2>6
<1> QED
  BY <1>2, <1>3

LEMMA StreamsStep ==
  ASSUME ScannerInv, StreamsInv, Geek!Next \/ UNCHANGED Geek!geekVars
  PROVE  StreamsInv'
<1>1. KeysClosed'
  BY KeysStayClosed DEF StreamsInv
<1>2. CASE Geek!WriteToStream
  <2>1. AddressRead'
    BY <1>2 DEF StreamsInv, AddressRead, Geek!WriteToStream
  <2>2. state' = "idle"
    BY <1>2 DEF Geek!WriteToStream
  <2> QED
    BY <1>1, <1>2, <2>1, <2>2, WritesOfUser DEF StreamsInv, WrittenOfUser
<1>3. CASE Geek!LearnUser
  <2>1. written' = <<>> /\ DOMAIN written' = {}
    <3>1. written = <<>> /\ written' = written
      BY <1>3 DEF StreamsInv, WrittenOfUser, Geek!LearnUser
    <3> QED
      BY <3>1
  <2>2. WrittenOfUser' /\ Geek!SwitchesMeet'
    BY <2>1 DEF WrittenOfUser, Geek!SwitchesMeet
  <2>3. AddressRead'
    BY <1>3, AddressIsRead DEF StreamsInv
  <2> QED
    BY <1>1, <2>2, <2>3 DEF StreamsInv
<1>4. CASE Geek!Receive
  <2>1. written' = <<>> /\ DOMAIN written' = {} /\ UNCHANGED <<user, mac>>
    BY <1>4 DEF Geek!Receive
  <2> QED
    BY <1>1, <2>1 DEF StreamsInv, AddressRead, WrittenOfUser, Geek!SwitchesMeet
<1>5. CASE \/ Geek!ExpectObjectStart \/ Geek!ExpectKeyOrObjectEnd \/ Geek!ExpectColon
           \/ Geek!ExpectValue \/ Geek!ExpectCommaOrObjectEnd \/ Geek!ParseEnds \/ UNCHANGED Geek!geekVars
  <2>1. UNCHANGED <<user, mac, written>>
    BY <1>5 DEF Geek!ExpectObjectStart, Geek!ExpectKeyOrObjectEnd, Geek!ExpectColon, Geek!ExpectValue,
                Geek!ExpectCommaOrObjectEnd, Geek!Turn, Geek!ParseEnds, Geek!geekVars
  <2>2. written' # <<>> => state' = "idle"
    <3>1. state = "idle" => state' = state
      BY <1>5 DEF Geek!ExpectObjectStart, Geek!ExpectKeyOrObjectEnd, Geek!ExpectColon, Geek!ExpectValue,
                Geek!ExpectCommaOrObjectEnd, Geek!Turn, Geek!ParseEnds, Geek!geekVars, Geek!scanner
    <3> QED
      BY <2>1, <3>1 DEF StreamsInv, WrittenOfUser
  <2>3. WrittenOfUser'
    BY <2>1, <2>2 DEF StreamsInv, WrittenOfUser, Geek!StreamUser
  <2> QED
    BY <1>1, <2>1, <2>3 DEF StreamsInv, AddressRead, Geek!SwitchesMeet
<1> QED
  BY <1>2, <1>3, <1>4, <1>5 DEF Geek!Next, Geek!Decode

LEMMA StreamsBegin == ASSUME Geek!Init PROVE StreamsInv
<1>1. state = "idle" /\ properties = <<>> /\ user = 0 /\ written = <<>> /\ DOMAIN written = {}
  BY DEF Geek!Init
<1> QED
  BY <1>1 DEF StreamsInv, KeysClosed, AddressRead, WrittenOfUser, Geek!SwitchesMeet

\* What the first digit of an address was does not show in the streams.
LEMMA FirstDigitGetsLost == ASSUME StreamsInv PROVE Geek!FirstDigitIsLost
<1> SUFFICES ASSUME Len(mac) = MacDigits + 2, NEW i \in DOMAIN written
             PROVE  written[i].id.user = Geek!UserId(SubSeq(mac, 3, Len(mac)))
  BY DEF Geek!FirstDigitIsLost
<1>1. user # 0 /\ written[i].id.user = user % Geek!Values[MacDigits]
  BY DEF StreamsInv, WrittenOfUser, Geek!StreamUser
<1>2. PICK n \in Nat : /\ mac = [j \in 1 .. n + 1 |-> mac[j]]
                       /\ user = Geek!UserId([j \in 1 .. n |-> mac[j + 1]])
  BY <1>1 DEF StreamsInv, AddressRead
<1>3. n = MacDigits + 1
  <2>1. Len(mac) = n + 1
    BY <1>2
  <2> QED
    BY <2>1
<1>4. PICK u : u = [j \in 1 .. MacDigits + 1 |-> mac[j + 1]]
  OBVIOUS
<1>5. PICK t : t = [j \in 1 .. MacDigits |-> mac[j + 2]]
  OBVIOUS
<1>6. SubSeq(mac, 3, Len(mac)) = t
  <2>1. PICK X : mac \in Seq(X)
    <3> DEFINE X == {mac[j] : j \in 1 .. n + 1}
    <3>1. \A j \in 1 .. n + 1 : mac[j] \in X
      OBVIOUS
    <3> HIDE DEF X
    <3>2. PICK N \in Nat : N = n + 1
      BY <1>2
    <3>3. PICK s : s = mac /\ s = [j \in 1 .. N |-> s[j]] /\ \A j \in 1 .. N : s[j] \in X
      BY <1>2, <3>1, <3>2
    <3>4. s \in Seq(X)
      BY <3>3
    <3> QED
      BY <3>3, <3>4
  <2>2. PICK m \in Nat : m = MacDigits
    OBVIOUS
  <2>3. Len(mac) = m + 2
    BY <2>2
  <2>4. SubSeq(mac, 3, m + 2) = [j \in 1 .. m |-> mac[j + 2]]
    BY <2>1, <2>2, <2>3
  <2> QED
    BY <1>5, <2>2, <2>3, <2>4
<1>7. PICK f : ReadsDigits(u, MacDigits + 1, f) /\ Geek!UserId(u) = f[MacDigits + 1]
  <2>1. DOMAIN u = 1 .. MacDigits + 1 /\ MacDigits + 1 \in Nat
    BY <1>4
  <2> QED
    BY <2>1, UserIdReads
<1>8. PICK g : ReadsDigits(t, MacDigits, g) /\ Geek!UserId(t) = g[MacDigits]
  <2>1. DOMAIN t = 1 .. MacDigits /\ MacDigits \in Nat
    BY <1>5
  <2> QED
    BY <2>1, UserIdReads
<1>9. \A k \in 1 .. MacDigits : t[k] = u[k + 1]
  <2>1. \A k \in 1 .. MacDigits : k + 1 \in 1 .. MacDigits + 1 /\ (k + 1) + 1 = k + 2
    OBVIOUS
  <2> QED
    BY <1>4, <1>5, <2>1
<1>10. f[MacDigits + 1] % Geek!Values[MacDigits] = g[MacDigits]
  BY <1>7, <1>8, <1>9, LastDigitsStay
<1>11. user = f[MacDigits + 1]
  BY <1>2, <1>3, <1>4, <1>7
<1> QED
  BY <1>1, <1>6, <1>8, <1>10, <1>11

\* The user id in a stream id is what is read of the address without its first
\* digit, whatever the address and the base, and only keys of switches share a
\* stream (decoder_write_to_stream).
THEOREM StreamsAreOfDevices == PartsSpec => []StreamsOfDevices
<1>1. PartsInit => StreamsInv
  BY StreamsBegin DEF PartsInit
<1>2. ScannerInv /\ StreamsInv /\ [PartsNext]_partVars => StreamsInv'
  <2> SUFFICES ASSUME ScannerInv, StreamsInv, [PartsNext]_partVars PROVE StreamsInv'
    OBVIOUS
  <2>1. Geek!Next \/ UNCHANGED Geek!geekVars
    BY DEF PartsNext, partVars, geekVars, Geek!geekVars, Geek!scanner
  <2> QED
    BY <2>1, StreamsStep
<1>3. StreamsInv => StreamsOfDevices
  BY FirstDigitGetsLost DEF StreamsInv, StreamsOfDevices, Geek!StreamsOfDevices
<1> QED
  BY <1>1, <1>2, <1>3, ScannerInvariant, PTL DEF PartsSpec

HIDE DocumentsAssumption

------------------------------------------------------------------------------
(* The documents that the decoder reads.                                     *)

LeftBrace == "{"
RightBrace == "}"

LEMMA TokensDiffer ==
  /\ LeftBrace # "sp" /\ RightBrace # "sp" /\ RightBrace # "q" /\ RightBrace # ","
  BY Zenon DEF LeftBrace, RightBrace

\* White space from i up to j.
Blank(T, i, j) == \A k \in i .. j - 1 : T[k] = "sp"

\* Where the tokens of a property are in a text: its first character, the quotes
\* of its key, the colon, its value with its end, and what follows it.
PlacesIn(T, a) ==
  /\ a.begin \in Nat /\ a.open \in Nat /\ a.close \in Nat /\ a.colon \in Nat
  /\ a.value \in Nat /\ a.end \in Nat /\ a.next \in Nat
  /\ 1 <= a.begin /\ a.begin <= a.open /\ a.open < a.close /\ a.close < a.colon
  /\ a.colon < a.value /\ a.value < a.end /\ a.end <= a.next /\ a.next <= Len(T)

KeyIn(T, k, a) ==
  /\ Blank(T, a.begin, a.open) /\ T[a.open] = "q"
  /\ a.close = a.open + 1 + Len(k)
  /\ \A j \in 1 .. Len(k) : T[a.open + j] = k[j]
  /\ \A j \in a.open + 1 .. a.close - 1 : T[j] # "q"
  /\ T[a.close] = "q"

ColonIn(T, a) ==
  Blank(T, a.close + 1, a.colon) /\ T[a.colon] = ":" /\ Blank(T, a.colon + 1, a.value)

ValueIn(T, value, a) ==
  /\ a.end = a.value + Len(value)
  /\ \A j \in 1 .. Len(value) : T[a.value + (j - 1)] = value[j]
  /\ Geek!Quoted(value) =>
       /\ T[a.value] = "q" /\ T[a.end] = "q" /\ a.end < a.next
       /\ \A j \in a.value + 1 .. a.end - 1 : T[j] # "q"
       /\ Blank(T, a.end + 1, a.next)
  /\ ~ Geek!Quoted(value) =>
       /\ \A j \in a.value .. a.end - 1 : T[j] \notin {"sp", "q", ",", RightBrace}
       /\ Blank(T, a.end, a.next) /\ a.next <= a.end + 1

\* The text of a document: the brace at start, the i-th property at at[i].
Layout(d, T, start, at) ==
  /\ start \in Nat /\ 1 <= start /\ start < Len(T) /\ Blank(T, 1, start) /\ T[start] = LeftBrace
  /\ Len(d) = 0 => T[start + 1] = RightBrace
  /\ \A i \in 1 .. Len(d) :
       /\ PlacesIn(T, at[i]) /\ KeyIn(T, d[i].key, at[i]) /\ ColonIn(T, at[i])
       /\ ValueIn(T, d[i].value, at[i])
       /\ i = 1 => at[i].begin = start + 1
       /\ i > 1 => at[i].begin = at[i - 1].next + 1
       /\ i < Len(d) => T[at[i].next] = ","
       /\ i = Len(d) => T[at[i].next] = RightBrace /\ at[i].next = Len(T)

\* The packet is the text, or what has arrived of it.
Begins(T) == Len(packet) <= Len(T) /\ \A k \in 1 .. Len(packet) : packet[k] = T[k]

\* The extents of a property.
KeyAt(a) == [begin |-> a.open + 1, end |-> a.close]

ValueAt(value, a) == [begin |-> a.value, end |-> IF Geek!Quoted(value) THEN a.end ELSE a.next]

\* The properties were read where they are; the value of the last may be cut off.
ReadSoFar(d, at) ==
  /\ Len(properties) <= Len(d)
  /\ \A i \in 1 .. Len(properties) :
       properties[i].key = KeyAt(at[i]) /\ at[i].close <= Len(packet)
  /\ \A i \in 1 .. Len(properties) - 1 : properties[i].value = ValueAt(d[i].value, at[i])

LastRead(d, at) ==
  Len(properties) > 0 =>
    properties[Len(properties)].value = ValueAt(d[Len(properties)].value, at[Len(properties)])

KeyRead(d, at) ==
  /\ Len(properties) < Len(d) /\ key = KeyAt(at[Len(properties) + 1])
  /\ at[Len(properties) + 1].close <= Len(packet)

\* Where the scanner is when nothing has misled it.
InPlace(d, start, at) ==
  /\ state = "ObjectStart" => Len(properties) = 0 /\ p = 1
  /\ state = "KeyOrObjectEnd" =>
       /\ Len(properties) < Len(d) \/ Len(properties) = 0
       /\ Len(properties) = 0 => p = start + 1
       /\ Len(properties) > 0 => p = at[Len(properties)].next + 1
  /\ state = "Colon" => KeyRead(d, at) /\ p = at[Len(properties) + 1].close + 1
  /\ state = "Value" => KeyRead(d, at) /\ p = at[Len(properties) + 1].colon + 1
  /\ state = "CommaOrObjectEnd" =>
       /\ Len(properties) > 0
       /\ p = IF Geek!Quoted(d[Len(properties)].value) THEN at[Len(properties)].end + 1
              ELSE at[Len(properties)].next
  /\ state \in {"parsed", "learnt"} => Len(properties) = Len(d) \/ Len(properties) = MaxProperties

\* Or it is behind the end of a packet that was cut off.
Over(T) == Len(packet) < Len(T) /\ (p > Len(packet) \/ state \in {"parsed", "learnt"})

Right(d, T, start, at) ==
  ReadSoFar(d, at) /\ ((LastRead(d, at) /\ InPlace(d, start, at)) \/ Over(T))

DocumentsInv ==
  state # "idle" =>
    \A d \in Documents, T \in Seq(Geek!Characters) : \A start, at :
      Layout(d, T, start, at) /\ Begins(T) => Right(d, T, start, at)

\* Where FirstFrom ends: at j, if the packet reaches that far.
LEMMA FirstFromIs ==
  ASSUME NEW m \in Nat, m = Len(packet), NEW i \in Nat, i <= m + 1, NEW chars, NEW j \in Nat, i <= j,
         \A k \in i .. j - 1 : k <= m => packet[k] \notin chars,
         j <= m => packet[j] \in chars
  PROVE  /\ j <= m => Geek!FirstFrom(i, chars) = j
         /\ j > m => Geek!FirstFrom(i, chars) = m + 1
<1>1. PICK x : x = Geek!FirstFrom(i, chars)
  OBVIOUS
<1>2. x \in Nat /\ i <= x /\ x <= m + 1
  BY <1>1, FirstFromGoesOn
<1>3. /\ x <= m => packet[x] \in chars
      /\ \A k \in i .. m : k < x => packet[k] \notin chars
  BY <1>1, FirstFromFinds
<1>4. x >= j \/ x = m + 1
  <2> SUFFICES ASSUME x < j, x # m + 1 PROVE FALSE
    BY <1>2
  <2>1. x \in i .. j - 1 /\ x <= m
    BY <1>2
  <2> QED
    BY <1>3, <2>1
<1>5. j <= m => x <= j
  <2> SUFFICES ASSUME j <= m, x > j PROVE FALSE
    BY <1>2
  <2>1. j \in i .. m
    OBVIOUS
  <2> QED
    BY <1>3, <2>1
<1> QED
  BY <1>1, <1>2, <1>4, <1>5

\* The scanner skips white space up to a token, or to the end of the packet.
LEMMA SkipsBlanks ==
  ASSUME ScannerInv, NEW T, Len(T) \in Nat, Begins(T), NEW j \in Nat, p <= j, j <= Len(T), Blank(T, p, j),
         T[j] # "sp", p < Geek!End
  PROVE  /\ j <= Len(packet) => Geek!At = j /\ Geek!Here = T[j]
         /\ j > Len(packet) => Geek!At = Len(packet) + 1
<1>1. PICK m \in Nat : m = Len(packet) /\ p < m + 1
  BY ScannerNumbers
<1>2. p \in Nat /\ 1 <= p /\ DOMAIN packet = 1 .. m
  BY <1>1, ScannerNumbers DEF ScannerInv
<1>3. \A k \in 1 .. m : packet[k] = T[k]
  BY <1>1 DEF Begins
<1>4. PICK chars : chars = Geek!ToSet(packet) \ {"sp"}
  OBVIOUS
<1>5. \A k \in 1 .. m : packet[k] \in chars <=> packet[k] # "sp"
  BY <1>2, <1>4 DEF Geek!ToSet
<1>6. \A k \in p .. j - 1 : k <= m => packet[k] \notin chars
  <2> SUFFICES ASSUME NEW k \in p .. j - 1, k <= m PROVE packet[k] = "sp"
    BY <1>4
  <2>1. k \in 1 .. m
    BY <1>2
  <2> QED
    BY <1>3, <2>1 DEF Blank
<1>7. j <= m => packet[j] \in chars
  <2> SUFFICES ASSUME j <= m PROVE packet[j] \in chars
    OBVIOUS
  <2>1. j \in 1 .. m
    BY <1>2
  <2> QED
    BY <1>3, <1>5, <2>1
<1>8. /\ j <= m => Geek!FirstFrom(p, chars) = j
      /\ j > m => Geek!FirstFrom(p, chars) = m + 1
  <2>1. p <= m + 1
    BY <1>1, <1>2
  <2> QED
    BY <1>1, <1>2, <1>6, <1>7, <2>1, FirstFromIs
<1>9. /\ j <= m => Geek!At = j
      /\ j > m => Geek!At = m + 1
  BY <1>4, <1>8 DEF Geek!At
<1>10. j <= m => Geek!Char(j) = T[j]
  <2> SUFFICES ASSUME j <= m PROVE Geek!Char(j) = T[j]
    OBVIOUS
  <2>1. j \in 1 .. m
    BY <1>2
  <2> QED
    BY <1>1, <1>3, <2>1 DEF Geek!Char
<1> QED
  BY <1>1, <1>9, <1>10 DEF Geek!Here

\* What the turns use: the numbers, and that a turn begins in place.
LEMMA TurnInPlace ==
  ASSUME ScannerInv, NEW d \in Documents, NEW T \in Seq(Geek!Characters), NEW start, NEW at,
         Layout(d, T, start, at), Begins(T), Right(d, T, start, at), NEW s, Geek!Turn(s),
         s \in {"ObjectStart", "KeyOrObjectEnd", "Colon", "Value", "CommaOrObjectEnd"}
  PROVE  /\ Len(packet) \in Nat /\ Len(packet) <= Len(T) /\ Len(T) \in Nat
         /\ Len(properties) \in Nat /\ Len(d) \in Nat /\ p \in Nat /\ 1 <= p /\ p <= Len(packet)
         /\ Geek!End = Len(packet) + 1 /\ p < Geek!End /\ packet' = packet /\ state = s
         /\ ReadSoFar(d, at) /\ LastRead(d, at) /\ InPlace(d, start, at)
<1>1. Len(packet) \in Nat /\ Geek!End = Len(packet) + 1 /\ p \in Nat /\ 1 <= p
  BY ScannerNumbers
<1>2. p < Geek!End /\ packet' = packet /\ state = s
  BY DEF Geek!Turn
<1>3. p <= Len(packet)
  BY <1>1, <1>2
<1>4. ~ Over(T)
  BY <1>1, <1>2, <1>3 DEF Over
<1>5. Len(properties) \in Nat
  BY DEF ScannerInv
<1>6. Len(d) \in Nat /\ Len(T) \in Nat
  <2>1. d \in Seq([key : Seq(Geek!Characters), value : Seq(Geek!Characters)])
    BY DocumentsAssumption, Zenon
  <2> QED
    BY <2>1
<1> QED
  BY <1>1, <1>2, <1>3, <1>4, <1>5, <1>6 DEF Right, Begins

\* A turn that leaves the properties as they are and ends in place or over the end.
LEMMA StaysRight ==
  ASSUME NEW d, NEW T, NEW start, NEW at, ReadSoFar(d, at), LastRead(d, at),
         UNCHANGED <<packet, properties>>,
         InPlace(d, start, at)' \/ Over(T)'
  PROVE  Right(d, T, start, at)'
<1>1. ReadSoFar(d, at)' /\ LastRead(d, at)'
  BY DEF ReadSoFar, LastRead
<1> QED
  BY <1>1 DEF Right

LEMMA ObjectStartKeepsRight ==
  ASSUME ScannerInv, NEW d \in Documents, NEW T \in Seq(Geek!Characters), NEW start, NEW at,
         Layout(d, T, start, at), Begins(T), Right(d, T, start, at), Geek!ExpectObjectStart
  PROVE  Right(d, T, start, at)'
<1>1. /\ Geek!Turn("ObjectStart") /\ (Geek!Here = LeftBrace => state' = "KeyOrObjectEnd")
      /\ p' = Geek!At + 1 /\ UNCHANGED <<key, properties>>
  BY Zenon DEF Geek!ExpectObjectStart, LeftBrace
<1>2. /\ Len(packet) \in Nat /\ Len(T) \in Nat /\ Len(properties) \in Nat /\ Len(d) \in Nat /\ p < Geek!End
      /\ packet' = packet /\ state = "ObjectStart"
      /\ ReadSoFar(d, at) /\ LastRead(d, at) /\ InPlace(d, start, at)
  BY <1>1, TurnInPlace
<1>3. p = 1 /\ Len(properties) = 0
  BY <1>2 DEF InPlace
<1>4. start \in Nat /\ 1 <= start /\ start < Len(T) /\ Blank(T, 1, start) /\ T[start] = LeftBrace
  BY DEF Layout
<1>5. /\ start <= Len(packet) => Geek!At = start /\ Geek!Here = LeftBrace
      /\ start > Len(packet) => Geek!At = Len(packet) + 1
  <2>1. p <= start /\ start <= Len(T) /\ Blank(T, p, start)
    BY <1>2, <1>3, <1>4
  <2>2. T[start] # "sp"
    BY <1>4, TokensDiffer
  <2>3. Geek!Here = T[start] => Geek!Here = LeftBrace
    BY <1>4
  <2> QED
    BY <1>2, <1>4, <2>1, <2>3, <2>2, SkipsBlanks
<1>6. CASE start <= Len(packet)
  <2>1. state' = "KeyOrObjectEnd" /\ p' = start + 1 /\ Len(properties') = 0
    BY <1>1, <1>3, <1>5, <1>6
  <2>2. InPlace(d, start, at)'
    BY <2>1 DEF InPlace
  <2> QED
    BY <1>1, <1>2, <2>2, StaysRight
<1>7. CASE start > Len(packet)
  <2>1. p' > Len(packet) /\ Len(packet) < Len(T)
    <3>1. p' = Len(packet) + 1 + 1
      BY <1>1, <1>5, <1>7
    <3> QED
      BY <1>2, <1>4, <1>7, <3>1
  <2>2. Over(T)'
    BY <1>2, <2>1 DEF Over
  <2> QED
    BY <1>1, <1>2, <2>2, StaysRight
<1> QED
  BY <1>2, <1>4, <1>6, <1>7

LEMMA ColonKeepsRight ==
  ASSUME ScannerInv, NEW d \in Documents, NEW T \in Seq(Geek!Characters), NEW start, NEW at,
         Layout(d, T, start, at), Begins(T), Right(d, T, start, at), Geek!ExpectColon
  PROVE  Right(d, T, start, at)'
<1>1. /\ Geek!Turn("Colon") /\ state' = (IF Geek!Here = ":" THEN "Value" ELSE state)
      /\ p' = Geek!At + 1 /\ UNCHANGED <<key, properties>>
  BY DEF Geek!ExpectColon
<1>2. /\ Len(packet) \in Nat /\ Len(T) \in Nat /\ Len(properties) \in Nat /\ Len(d) \in Nat /\ p < Geek!End
      /\ packet' = packet /\ state = "Colon"
      /\ ReadSoFar(d, at) /\ LastRead(d, at) /\ InPlace(d, start, at)
  BY <1>1, TurnInPlace
<1>3. PICK i \in 1 .. Len(d) : i = Len(properties) + 1 /\ KeyRead(d, at) /\ p = at[i].close + 1
  BY <1>2 DEF InPlace, KeyRead
<1>4. PICK a : a = at[i]
  OBVIOUS
<1>5. PlacesIn(T, a) /\ ColonIn(T, a) /\ p = a.close + 1
  BY <1>3, <1>4 DEF Layout
<1>6. PICK j \in Nat : j = a.colon /\ p <= j /\ j < Len(T) /\ Blank(T, p, j) /\ T[j] = ":"
  <2>1. a.colon \in Nat /\ a.close + 1 <= a.colon /\ a.colon < Len(T)
    BY <1>2, <1>5 DEF PlacesIn
  <2>2. Blank(T, p, a.colon) /\ T[a.colon] = ":"
    BY <1>5 DEF ColonIn
  <2> QED
    BY <1>5, <2>1, <2>2
<1>7. /\ j <= Len(packet) => Geek!At = j /\ Geek!Here = ":"
      /\ j > Len(packet) => Geek!At = Len(packet) + 1
  <2>1. j <= Len(T) /\ T[j] # "sp"
    BY <1>2, <1>6
  <2>2. Geek!Here = T[j] => Geek!Here = ":"
    BY <1>6
  <2> QED
    BY <1>2, <1>6, <2>1, <2>2, SkipsBlanks
<1>8. CASE j <= Len(packet)
  <2>1. state' = "Value" /\ p' = at[i].colon + 1
    BY <1>1, <1>4, <1>6, <1>7, <1>8
  <2>2. KeyRead(d, at)'
    BY <1>1, <1>2, <1>3 DEF KeyRead
  <2>3. InPlace(d, start, at)'
    BY <1>1, <1>3, <2>1, <2>2 DEF InPlace
  <2> QED
    BY <1>1, <1>2, <2>3, StaysRight
<1>9. CASE j > Len(packet)
  <2>1. p' > Len(packet) /\ Len(packet) < Len(T)
    BY <1>1, <1>2, <1>6, <1>7, <1>9
  <2>2. Over(T)'
    BY <1>2, <2>1 DEF Over
  <2> QED
    BY <1>1, <1>2, <2>2, StaysRight
<1> QED
  BY <1>2, <1>6, <1>8, <1>9

LEMMA KeyTurn ==
  ASSUME ScannerInv, Geek!ExpectKeyOrObjectEnd
  PROVE  /\ Geek!Turn("KeyOrObjectEnd") /\ properties' = properties
         /\ state' = "parsed" \/ p' > Geek!At
         /\ Geek!Here = RightBrace => state' = "parsed"
         /\ Geek!Here = "q" /\ Len(properties) < MaxProperties =>
              /\ key' = [begin |-> Geek!At + 1, end |-> Geek!FirstFrom(Geek!At + 1, {"q"})]
              /\ p' = Geek!FirstFrom(Geek!At + 1, {"q"}) + 1 /\ state' = "Colon"
         /\ Geek!Here = "q" /\ ~ (Len(properties) < MaxProperties) => state' = "parsed"
<1>1. /\ Geek!At \in Nat /\ Geek!FirstFrom(Geek!At + 1, {"q"}) \in Nat
      /\ Geek!At + 1 <= Geek!FirstFrom(Geek!At + 1, {"q"})
  BY ScannerNumbers
<1>2. Geek!Turn("KeyOrObjectEnd") /\ properties' = properties
  BY Zenon DEF Geek!ExpectKeyOrObjectEnd
<1>3. \/ Geek!Here = RightBrace /\ state' = "parsed"
      \/ Geek!Here = "q" /\ Geek!ReadKey
      \/ Geek!Here # RightBrace /\ Geek!Here # "q" /\ Geek!SkipOne
  BY Zenon DEF Geek!ExpectKeyOrObjectEnd, RightBrace
<1>4. RightBrace # "q"
  BY TokensDiffer, Zenon
<1>5. PICK brace : brace = RightBrace
  OBVIOUS
<1>6. CASE Geek!Here = brace /\ state' = "parsed"
  BY <1>2, <1>4, <1>5, <1>6
<1>7. CASE Geek!Here = "q" /\ Geek!ReadKey
  <2>1. PICK close \in Nat : close = Geek!FirstFrom(Geek!At + 1, {"q"}) /\ close > Geek!At
    BY <1>1
  <2> QED
    BY <1>1, <1>2, <1>4, <1>7, <2>1 DEF Geek!ReadKey
<1>8. CASE Geek!Here # brace /\ Geek!Here # "q" /\ Geek!SkipOne
  BY <1>1, <1>2, <1>5, <1>8 DEF Geek!SkipOne
<1> QED
  BY <1>3, <1>5, <1>6, <1>7, <1>8

LEMMA KeyKeepsRight ==
  ASSUME ScannerInv, DecoderTypes, NEW d \in Documents, NEW T \in Seq(Geek!Characters), NEW start, NEW at,
         Layout(d, T, start, at), Begins(T), Right(d, T, start, at), Geek!ExpectKeyOrObjectEnd
  PROVE  Right(d, T, start, at)'
<1>1. Geek!Turn("KeyOrObjectEnd") /\ properties' = properties
  BY KeyTurn
<1>2. /\ Len(packet) \in Nat /\ Len(T) \in Nat /\ Len(properties) \in Nat /\ Len(d) \in Nat /\ p < Geek!End
      /\ packet' = packet /\ state = "KeyOrObjectEnd"
      /\ ReadSoFar(d, at) /\ LastRead(d, at) /\ InPlace(d, start, at)
  BY <1>1, TurnInPlace
<1>3. PICK m \in Nat, n \in Nat : m = Len(packet) /\ n = Len(properties)
  BY <1>2
<1>4. /\ n < Len(d) \/ n = 0
      /\ n = 0 => p = start + 1
      /\ n > 0 => p = at[n].next + 1
  BY <1>2, <1>3 DEF InPlace
<1>5. start \in Nat /\ 1 <= start /\ start < Len(T)
  BY DEF Layout
\* The document ends here, without a property.
<1>6. CASE Len(d) = 0
  <2>1. n = 0
    BY <1>2, <1>3, <1>6 DEF ReadSoFar
  <2>2. T[start + 1] # "sp" /\ T[start + 1] = RightBrace
    BY <1>6, TokensDiffer, Zenon DEF Layout
  <2>3. PICK j \in Nat : j = start + 1
    BY <1>5
  <2>4. p = j /\ j <= Len(T) /\ Blank(T, p, j)
    BY <1>2, <1>4, <1>5, <2>1, <2>3 DEF Blank
  <2>5. /\ j <= m => Geek!At = j /\ Geek!Here = RightBrace
        /\ j > m => Geek!At = m + 1
    <3>1. /\ j <= Len(packet) => Geek!At = j /\ Geek!Here = T[j]
          /\ j > Len(packet) => Geek!At = Len(packet) + 1
      BY <1>2, <2>2, <2>3, <2>4, SkipsBlanks
    <3> QED
      BY <1>3, <2>2, <2>3, <3>1
  <2>6. j <= m
    BY <1>2, <1>3, <2>4, ScannerNumbers
  <2>7. state' = "parsed" /\ Len(properties') = 0
    <3>1. Geek!Here = RightBrace
      BY <2>5, <2>6
    <3> QED
      BY <1>1, <1>3, <2>1, <3>1, KeyTurn
  <2>8. InPlace(d, start, at)'
    BY <1>6, <2>7 DEF InPlace
  <2> QED
    BY <1>1, <1>2, <2>8, StaysRight
\* Or there is the next property.
<1>7. CASE n < Len(d)
  <2>1. PICK i \in 1 .. Len(d) : i = n + 1
    BY <1>2, <1>7
  <2>2. PICK a : a = at[i]
    OBVIOUS
  <2>3. PlacesIn(T, a) /\ KeyIn(T, d[i].key, a) /\ p = a.begin
    <3>1. p = at[i].begin
      <4>1. CASE n = 0
        <5>1. i = 1
          BY <2>1, <4>1
        <5>2. at[i].begin = start + 1
          BY <5>1 DEF Layout
        <5> QED
          BY <1>4, <4>1, <5>2
      <4>2. CASE n > 0
        <5>1. i > 1 /\ i - 1 = n
          BY <2>1, <4>2
        <5> QED
          BY <1>4, <4>2, <5>1 DEF Layout
      <4> QED
        BY <1>3, <4>1, <4>2
    <3> QED
      BY <2>2, <3>1 DEF Layout
  <2>4. PICK o \in Nat, c \in Nat : o = a.open /\ c = a.close /\ p <= o /\ o < c /\ c < Len(T)
    <3>1. /\ a.open \in Nat /\ a.close \in Nat /\ a.begin <= a.open /\ a.open < a.close
          /\ a.close < Len(T)
      BY <1>2, <2>3 DEF PlacesIn
    <3> QED
      BY <2>3, <3>1
  <2>5. /\ Blank(T, p, o) /\ T[o] = "q" /\ T[c] = "q"
        /\ \A j \in o + 1 .. c - 1 : T[j] # "q"
    BY <2>3, <2>4 DEF KeyIn
  <2>6. /\ o <= m => Geek!At = o /\ Geek!Here = "q"
        /\ o > m => Geek!At = m + 1
    <3>1. T[o] # "sp" /\ o <= Len(T)
      BY <1>2, <2>4, <2>5
    <3>2. /\ o <= Len(packet) => Geek!At = o /\ Geek!Here = T[o]
          /\ o > Len(packet) => Geek!At = Len(packet) + 1
      BY <1>2, <2>4, <2>5, <3>1, SkipsBlanks
    <3> QED
      BY <1>3, <2>5, <3>2
  <2>7. CASE o > m
    <3>1. state' = "parsed" \/ p' > m
      <4>1. Geek!At = m + 1 /\ p' \in Nat
        BY <2>6, <2>7, ExpectKeyKeeps DEF ScannerInv
      <4> QED
        BY <4>1, KeyTurn
    <3>2. Over(T)'
      BY <1>2, <1>3, <2>4, <2>7, <3>1 DEF Over
    <3> QED
      BY <1>1, <1>2, <3>2, StaysRight
  <2>8. CASE o <= m /\ ~ (n < MaxProperties)
    <3>1. state' = "parsed"
      BY <1>3, <2>6, <2>8, KeyTurn
    <3>2. n = MaxProperties
      BY <1>3, <2>8, DocumentsAssumption DEF DecoderTypes, Geek!TypeOK
    <3>3. InPlace(d, start, at)'
      BY <1>1, <1>3, <3>1, <3>2 DEF InPlace
    <3> QED
      BY <1>1, <1>2, <3>3, StaysRight
  <2>9. CASE o <= m /\ n < MaxProperties
    <3>1. PICK close : close = Geek!FirstFrom(o + 1, {"q"})
      OBVIOUS
    <3>2. key' = [begin |-> o + 1, end |-> close] /\ p' = close + 1 /\ state' = "Colon"
      <4>1. Geek!At = o /\ Geek!Here = "q"
        BY <2>6, <2>9
      <4> QED
        BY <1>3, <2>9, <3>1, <4>1, KeyTurn
    <3>3. /\ c <= m => close = c
          /\ c > m => close = m + 1
      <4>1. PICK i0 \in Nat : i0 = o + 1 /\ i0 <= m + 1 /\ i0 <= c
        BY <2>4, <2>9
      <4>2. \A k \in i0 .. c - 1 : k <= m => packet[k] \notin {"q"}
        <5> SUFFICES ASSUME NEW k \in i0 .. c - 1, k <= m PROVE packet[k] # "q"
          OBVIOUS
        <5>1. k \in 1 .. m /\ k \in o + 1 .. c - 1
          BY <4>1
        <5> QED
          BY <1>3, <2>5, <5>1 DEF Begins
      <4>3. c <= m => packet[c] \in {"q"}
        <5> SUFFICES ASSUME c <= m PROVE packet[c] = "q"
          OBVIOUS
        <5>1. c \in 1 .. m
          BY <2>4
        <5> QED
          BY <1>3, <2>5, <5>1 DEF Begins
      <4> QED
        BY <1>3, <3>1, <4>1, <4>2, <4>3, FirstFromIs
    <3>4. CASE c <= m
      <4>1. key' = KeyAt(at[n + 1]) /\ p' = at[n + 1].close + 1 /\ at[n + 1].close <= m
        BY <2>1, <2>2, <2>4, <3>2, <3>3, <3>4 DEF KeyAt
      <4>2. KeyRead(d, at)'
        BY <1>1, <1>2, <1>3, <1>7, <4>1 DEF KeyRead
      <4>3. InPlace(d, start, at)'
        BY <1>1, <1>3, <3>2, <4>1, <4>2 DEF InPlace
      <4> QED
        BY <1>1, <1>2, <4>3, StaysRight
    <3>5. CASE c > m
      <4>1. p' > m /\ m < Len(T)
        BY <1>2, <2>4, <3>2, <3>3, <3>5
      <4>2. Over(T)'
        BY <1>2, <1>3, <4>1 DEF Over
      <4> QED
        BY <1>1, <1>2, <4>2, StaysRight
    <3> QED
      BY <2>4, <3>4, <3>5
  <2> QED
    <3>1. MaxProperties \in Nat
      BY DocumentsAssumption
    <3> QED
      BY <1>3, <2>4, <2>7, <2>8, <2>9, <3>1
<1>8. Len(d) = 0 \/ n < Len(d)
  BY <1>2, <1>4
<1> QED
  BY <1>6, <1>7, <1>8

LEMMA ValueKeepsRight ==
  ASSUME ScannerInv, NEW d \in Documents, NEW T \in Seq(Geek!Characters), NEW start, NEW at,
         Layout(d, T, start, at), Begins(T), Right(d, T, start, at), Geek!ExpectValue
  PROVE  Right(d, T, start, at)'
<1>1. /\ Geek!Turn("Value") /\ state' = "CommaOrObjectEnd" /\ key' = key
      /\ properties' = Append(properties, [key |-> key, value |-> [begin |-> Geek!At, end |-> Geek!ValueEnd]])
      /\ p' = IF Geek!Here = "q" THEN Geek!ValueEnd + 1 ELSE Geek!ValueEnd
  BY DEF Geek!ExpectValue
<1>2. /\ Len(packet) \in Nat /\ Len(T) \in Nat /\ Len(properties) \in Nat /\ Len(d) \in Nat /\ p < Geek!End
      /\ packet' = packet /\ state = "Value"
      /\ ReadSoFar(d, at) /\ LastRead(d, at) /\ InPlace(d, start, at)
  BY <1>1, TurnInPlace
<1>3. PICK m \in Nat, n \in Nat : m = Len(packet) /\ n = Len(properties)
  BY <1>2
<1>4. PICK i \in 1 .. Len(d) : i = n + 1 /\ KeyRead(d, at) /\ p = at[i].colon + 1
  BY <1>2, <1>3 DEF InPlace, KeyRead
<1>5. PICK a : a = at[i]
  OBVIOUS
<1>6. PICK value : value = d[i].value
  OBVIOUS
<1>7. PlacesIn(T, a) /\ ColonIn(T, a) /\ ValueIn(T, value, a) /\ p = a.colon + 1
  BY <1>4, <1>5, <1>6 DEF Layout
<1>8. PICK v \in Nat, e \in Nat, x \in Nat :
        /\ v = a.value /\ e = a.end /\ x = a.next
        /\ p <= v /\ v < e /\ e <= x /\ x <= Len(T) /\ Blank(T, p, v)
  <2>1. /\ a.value \in Nat /\ a.end \in Nat /\ a.next \in Nat
        /\ a.colon + 1 <= a.value /\ a.value < a.end /\ a.end <= a.next /\ a.next <= Len(T)
    BY <1>2, <1>7 DEF PlacesIn
  <2>2. Blank(T, p, a.value)
    BY <1>7 DEF ColonIn
  <2> QED
    BY <1>7, <2>1, <2>2
<1>9. PICK here, last : here = Geek!At /\ last = Geek!ValueEnd
  OBVIOUS
<1>10. here \in Nat /\ last \in Nat /\ here <= last /\ p' \in Nat
  BY <1>1, <1>2, <1>9, ScannerNumbers
\* The properties that were read, and the new one.
<1>11. PICK new : new = [key |-> key, value |-> [begin |-> here, end |-> last]]
  OBVIOUS
<1>12. new.key = key /\ new.value = [begin |-> here, end |-> last]
  BY <1>11
<1>13. /\ Len(properties') = n + 1 /\ properties'[n + 1] = new
       /\ \A k \in 1 .. n : properties'[k] = properties[k]
  <2>1. PICK S : properties \in Seq(S)
    BY DEF ScannerInv
  <2>2. properties \in Seq(S \cup {new}) /\ new \in S \cup {new}
    BY <2>1
  <2>3. properties' = Append(properties, new)
    BY <1>1, <1>9, <1>11
  <2> QED
    BY <1>3, <2>2, <2>3, Ended
<1>14. ReadSoFar(d, at)'
  <2>1. n + 1 <= Len(d)
    BY <1>4
  <2>2. ASSUME NEW k \in 1 .. n + 1 PROVE properties'[k].key = KeyAt(at[k]) /\ at[k].close <= m
    <3>1. CASE k \in 1 .. n
      <4>1. properties[k].key = KeyAt(at[k]) /\ at[k].close <= m
        BY <1>2, <1>3, <3>1 DEF ReadSoFar
      <4> QED
        BY <1>13, <3>1, <4>1
    <3>2. CASE k = n + 1
      <4>1. key = KeyAt(at[k]) /\ at[k].close <= m
        BY <1>3, <1>4, <3>2 DEF KeyRead
      <4> QED
        BY <1>12, <1>13, <3>2, <4>1
    <3> QED
      BY <3>1, <3>2
  <2>3. ASSUME NEW k \in 1 .. n PROVE properties'[k].value = ValueAt(d[k].value, at[k])
    <3>1. properties[k].value = ValueAt(d[k].value, at[k])
      <4>1. CASE k = n
        BY <1>2, <1>3, <4>1 DEF LastRead
      <4>2. CASE k # n
        <5>1. k \in 1 .. n - 1
          BY <4>2
        <5> QED
          BY <1>2, <1>3, <5>1 DEF ReadSoFar
      <4> QED
        BY <4>1, <4>2
    <3> QED
      BY <1>13, <3>1
  <2>4. 1 .. (n + 1) - 1 = 1 .. n
    OBVIOUS
  <2> QED
    BY <1>2, <1>3, <1>13, <2>1, <2>2, <2>3, <2>4 DEF ReadSoFar, KeyAt, ValueAt
<1>15. ASSUME last >= m + 1 PROVE m < Len(T) => Right(d, T, start, at)'
  <2>1. p' >= last
    BY <1>1, <1>9, <1>10
  <2>2. p' > m
    BY <1>10, <1>15, <2>1
  <2>3. m < Len(T) => Over(T)'
    BY <1>2, <1>3, <2>2 DEF Over
  <2> QED
    BY <1>14, <2>3 DEF Right
<1>16. ASSUME /\ here = v
              /\ last = IF Geek!Quoted(value) THEN e ELSE x
              /\ p' = IF Geek!Quoted(value) THEN e + 1 ELSE x
       PROVE  Right(d, T, start, at)'
  <2>1. new.value = ValueAt(value, a)
    BY <1>8, <1>12, <1>16 DEF ValueAt
  <2>2. LastRead(d, at)'
    <3>1. properties'[n + 1].value = ValueAt(d[n + 1].value, at[n + 1])
      BY <1>4, <1>5, <1>6, <1>13, <2>1
    <3> QED
      BY <1>13, <3>1 DEF LastRead, ValueAt
  <2>3. p' = IF Geek!Quoted(d[n + 1].value) THEN at[n + 1].end + 1 ELSE at[n + 1].next
    BY <1>4, <1>5, <1>6, <1>8, <1>16
  <2>4. InPlace(d, start, at)'
    BY <1>1, <1>3, <1>13, <2>3 DEF InPlace, Geek!Quoted
  <2> QED
    BY <1>14, <2>2, <2>4 DEF Right
<1>17. ASSUME NEW chars, NEW from \in Nat, NEW j \in Nat, 1 <= from, from <= m + 1, from <= j, j <= Len(T),
              \A k \in from .. j - 1 : T[k] \notin chars, T[j] \in chars
       PROVE  /\ j <= m => Geek!FirstFrom(from, chars) = j
              /\ j > m => Geek!FirstFrom(from, chars) = m + 1
  <2>1. \A k \in from .. j - 1 : k <= m => packet[k] \notin chars
    <3> SUFFICES ASSUME NEW k \in from .. j - 1, k <= m PROVE packet[k] \notin chars
      OBVIOUS
    <3>1. k \in 1 .. m
      BY <1>17
    <3> QED
      BY <1>3, <1>17, <3>1 DEF Begins
  <2>2. j <= m => packet[j] \in chars
    <3> SUFFICES ASSUME j <= m PROVE packet[j] \in chars
      OBVIOUS
    <3>1. j \in 1 .. m
      BY <1>17
    <3> QED
      BY <1>3, <1>17, <3>1 DEF Begins
  <2> QED
    BY <1>3, <1>17, <2>1, <2>2, FirstFromIs
<1>18. T[v] # "sp" /\ (T[v] = "q" <=> Geek!Quoted(value))
  <2>1. v \in v .. e - 1
    BY <1>8
  <2> QED
    BY <1>7, <1>8, <2>1, Zenon DEF ValueIn
<1>19. /\ v <= m => here = v /\ Geek!Here = T[v]
       /\ v > m => here = m + 1
  <2>1. v <= Len(T)
    BY <1>2, <1>8
  <2> QED
    BY <1>2, <1>3, <1>8, <1>9, <1>18, <2>1, SkipsBlanks
<1>20. CASE v > m
  <2>1. last >= m + 1 /\ m < Len(T)
    BY <1>2, <1>8, <1>10, <1>19, <1>20
  <2> QED
    BY <1>15, <2>1
<1>21. CASE v <= m /\ Geek!Quoted(value)
  <2>1. Geek!Here = "q" /\ here = v
    BY <1>18, <1>19, <1>21
  <2>2. last = Geek!FirstFrom(v + 1, {"q"}) /\ p' = last + 1
    BY <1>1, <1>9, <2>1 DEF Geek!ValueEnd
  <2>3. PICK from \in Nat : from = v + 1 /\ 1 <= from /\ from <= m + 1 /\ from <= e /\ e <= Len(T)
    BY <1>2, <1>8, <1>21
  <2>4. (\A k \in from .. e - 1 : T[k] \notin {"q"}) /\ T[e] \in {"q"}
    BY <1>7, <1>8, <1>21, <2>3 DEF ValueIn
  <2>5. /\ e <= m => last = e
        /\ e > m => last = m + 1
    BY <1>17, <2>2, <2>3, <2>4
  <2>6. CASE e <= m
    BY <1>16, <1>21, <2>1, <2>2, <2>5, <2>6
  <2>7. CASE e > m
    <3>1. m < Len(T) /\ last >= m + 1
      BY <1>2, <1>8, <2>5, <2>7
    <3> QED
      BY <1>15, <3>1
  <2> QED
    BY <1>8, <2>6, <2>7
<1>22. CASE v <= m /\ ~ Geek!Quoted(value)
  <2>1. Geek!Here # "q" /\ here = v
    BY <1>18, <1>19, <1>22
  <2>2. PICK chars : chars = {",", "}"}
    OBVIOUS
  <2>3. last = Geek!FirstFrom(v, chars) /\ p' = last
    <3>1. Geek!ValueEnd = Geek!FirstFrom(Geek!At, chars)
      BY <2>1, <2>2, Zenon DEF Geek!ValueEnd
    <3> QED
      BY <1>1, <1>9, <2>1, <3>1
  <2>4. /\ "," \in chars /\ RightBrace \in chars /\ "sp" \notin chars
        /\ \A c : c \notin {"sp", "q", ",", RightBrace} => c \notin chars
    BY <2>2, Zenon DEF RightBrace
  <2>5. 1 <= v /\ v <= m + 1 /\ v <= x /\ x <= Len(T)
    <3>1. p \in Nat /\ 1 <= p
      BY ScannerNumbers
    <3> QED
      BY <1>2, <1>8, <1>22, <3>1
  <2>6. T[x] \in chars
    <3>1. i < Len(d) \/ i = Len(d)
      BY <1>2
    <3>2. T[at[i].next] = "," \/ T[at[i].next] = RightBrace
      BY <3>1, Zenon DEF Layout
    <3> QED
      BY <1>5, <1>8, <2>4, <3>2
  <2>7. ASSUME NEW k \in v .. x - 1 PROVE T[k] \notin chars
    <3>1. CASE k < e
      <4>1. k \in v .. e - 1
        BY <1>8, <3>1
      <4>2. T[k] \notin {"sp", "q", ",", RightBrace}
        BY <1>7, <1>8, <1>22, <4>1, Zenon DEF ValueIn
      <4> QED
        BY <2>4, <4>2
    <3>2. CASE k >= e
      <4>1. k \in e .. x - 1
        BY <1>8, <3>2
      <4>2. T[k] = "sp"
        BY <1>7, <1>8, <1>22, <4>1, Zenon DEF ValueIn, Blank
      <4> QED
        BY <2>4, <4>2
    <3> QED
      BY <1>8, <3>1, <3>2
  <2>8. /\ x <= m => last = x
        /\ x > m => last = m + 1
    BY <1>8, <1>17, <2>3, <2>5, <2>6, <2>7
  <2>9. CASE x <= m
    BY <1>16, <1>22, <2>1, <2>3, <2>8, <2>9
  <2>10. CASE x > m
    <3>1. m < Len(T) /\ last >= m + 1
      BY <1>2, <1>8, <2>8, <2>10
    <3> QED
      BY <1>15, <3>1
  <2> QED
    BY <1>8, <2>9, <2>10
<1> QED
  BY <1>3, <1>8, <1>20, <1>21, <1>22

LEMMA CommaTurn ==
  ASSUME ScannerInv, Geek!ExpectCommaOrObjectEnd
  PROVE  /\ Geek!Turn("CommaOrObjectEnd") /\ properties' = properties
         /\ state' = "parsed" \/ p' = Geek!At + 1
         /\ Geek!Here = RightBrace => state' = "parsed"
         /\ Geek!Here = "," => state' = "KeyOrObjectEnd" /\ p' = Geek!At + 1
<1>1. Geek!Turn("CommaOrObjectEnd") /\ properties' = properties
  BY Zenon DEF Geek!ExpectCommaOrObjectEnd
<1>2. \/ Geek!Here = RightBrace /\ state' = "parsed"
      \/ Geek!Here = "," /\ state' = "KeyOrObjectEnd" /\ p' = Geek!At + 1
      \/ Geek!Here # RightBrace /\ Geek!Here # "," /\ p' = Geek!At + 1
  BY Zenon DEF Geek!ExpectCommaOrObjectEnd, RightBrace
<1>3. RightBrace # ","
  BY TokensDiffer, Zenon
<1> QED
  BY <1>1, <1>2, <1>3, Zenon

LEMMA CommaKeepsRight ==
  ASSUME ScannerInv, DecoderTypes, NEW d \in Documents, NEW T \in Seq(Geek!Characters), NEW start, NEW at,
         Layout(d, T, start, at), Begins(T), Right(d, T, start, at), Geek!ExpectCommaOrObjectEnd
  PROVE  Right(d, T, start, at)'
<1>1. Geek!Turn("CommaOrObjectEnd") /\ properties' = properties
  BY CommaTurn
<1>2. /\ Len(packet) \in Nat /\ Len(T) \in Nat /\ Len(properties) \in Nat /\ Len(d) \in Nat /\ p < Geek!End
      /\ packet' = packet /\ state = "CommaOrObjectEnd"
      /\ ReadSoFar(d, at) /\ LastRead(d, at) /\ InPlace(d, start, at)
  BY <1>1, TurnInPlace
<1>3. PICK m \in Nat, n \in Nat : m = Len(packet) /\ n = Len(properties)
  BY <1>2
<1>4. /\ n \in 1 .. Len(d)
      /\ p = IF Geek!Quoted(d[n].value) THEN at[n].end + 1 ELSE at[n].next
  <2>1. n > 0 /\ p = IF Geek!Quoted(d[n].value) THEN at[n].end + 1 ELSE at[n].next
    BY <1>2, <1>3 DEF InPlace
  <2>2. n <= Len(d)
    BY <1>2, <1>3 DEF ReadSoFar
  <2> QED
    BY <1>2, <2>1, <2>2
<1>5. PlacesIn(T, at[n]) /\ ValueIn(T, d[n].value, at[n])
  BY <1>4 DEF Layout
<1>6. PICK x \in Nat : x = at[n].next /\ x <= Len(T) /\ p <= x /\ Blank(T, p, x)
  <2>1. at[n].next \in Nat /\ at[n].end \in Nat /\ at[n].next <= Len(T)
    BY <1>5 DEF PlacesIn
  <2>2. CASE Geek!Quoted(d[n].value)
    <3>1. at[n].end < at[n].next /\ Blank(T, at[n].end + 1, at[n].next)
      BY <1>5, <2>2, Zenon DEF ValueIn
    <3> QED
      BY <1>4, <2>1, <2>2, <3>1
  <2>3. CASE ~ Geek!Quoted(d[n].value)
    <3>1. Blank(T, at[n].next, at[n].next)
      BY <2>1 DEF Blank
    <3> QED
      BY <1>4, <2>1, <2>3, <3>1
  <2> QED
    BY <2>2, <2>3
<1>7. /\ n < Len(d) => T[x] = ","
      /\ n = Len(d) => T[x] = RightBrace
  BY <1>4, <1>6, Zenon DEF Layout
<1>8. T[x] # "sp"
  <2>1. n < Len(d) \/ n = Len(d)
    BY <1>2, <1>4
  <2> QED
    BY <1>7, <2>1, TokensDiffer, Zenon
<1>9. /\ x <= m => Geek!At = x /\ Geek!Here = T[x]
      /\ x > m => Geek!At = m + 1
  BY <1>2, <1>3, <1>6, <1>8, SkipsBlanks
<1>10. CASE x > m
  <2>1. Geek!At = m + 1
    BY <1>9, <1>10
  <2>2. state' = "parsed" \/ p' > m
    <3>1. state' = "parsed" \/ p' = m + 1 + 1
      BY <2>1, CommaTurn
    <3> QED
      BY <3>1
  <2>3. Over(T)'
    BY <1>2, <1>3, <1>6, <1>10, <2>2 DEF Over
  <2> QED
    BY <1>1, <1>2, <2>3, StaysRight
<1>11. CASE x <= m /\ n < Len(d)
  <2>1. state' = "KeyOrObjectEnd" /\ p' = x + 1
    <3>1. Geek!At = x /\ Geek!Here = ","
      BY <1>7, <1>9, <1>11
    <3> QED
      BY <3>1, CommaTurn
  <2>2. InPlace(d, start, at)'
    BY <1>1, <1>3, <1>4, <1>6, <1>11, <2>1 DEF InPlace
  <2> QED
    BY <1>1, <1>2, <2>2, StaysRight
<1>12. CASE x <= m /\ n = Len(d)
  <2>1. state' = "parsed"
    <3>1. Geek!Here = RightBrace
      BY <1>7, <1>9, <1>12
    <3> QED
      BY <3>1, CommaTurn
  <2>2. InPlace(d, start, at)'
    BY <1>1, <1>3, <1>12, <2>1 DEF InPlace
  <2> QED
    BY <1>1, <1>2, <2>2, StaysRight
<1> QED
  BY <1>2, <1>4, <1>6, <1>10, <1>11, <1>12

\* Numbers in order, each of them before the last.
LEMMA InOrder ==
  ASSUME NEW b \in Nat, NEW o \in Nat, NEW c \in Nat, NEW k \in Nat, NEW v \in Nat, NEW x \in Nat,
         NEW y \in Nat, NEW l \in Nat,
         b <= o, o < c, c < k, k < v, v < x, x <= y, y <= l
  PROVE  b < c /\ k < x /\ b < l /\ c < l /\ k < l /\ x <= l
<1>1. b < c /\ k < x
  OBVIOUS
<1>2. x <= l
  OBVIOUS
<1>3. k < l
  BY <1>1, <1>2
<1>4. c < l
  BY <1>3
<1>5. b < l
  BY <1>1, <1>4
<1> QED
  BY <1>1, <1>2, <1>3, <1>4, <1>5

LEMMA PlacesInOrder ==
  ASSUME NEW T, NEW l \in Nat, l = Len(T), NEW a, PlacesIn(T, a)
  PROVE  /\ a.begin \in Nat /\ a.close \in Nat /\ a.colon \in Nat /\ a.end \in Nat /\ a.next \in Nat
         /\ a.begin < a.close /\ a.close < a.colon /\ a.colon < a.end /\ a.end <= a.next
         /\ a.begin < l /\ a.close < l /\ a.colon < l /\ a.next <= l
<1>1. /\ a.begin \in Nat /\ a.open \in Nat /\ a.close \in Nat /\ a.colon \in Nat
      /\ a.value \in Nat /\ a.end \in Nat /\ a.next \in Nat
  BY DEF PlacesIn
<1>2. /\ a.begin <= a.open /\ a.open < a.close /\ a.close < a.colon
      /\ a.colon < a.value /\ a.value < a.end /\ a.end <= a.next /\ a.next <= l
  BY DEF PlacesIn
<1>3. a.begin < a.close /\ a.colon < a.end /\ a.begin < l /\ a.close < l /\ a.colon < l
  BY ONLY <1>1, <1>2, l \in Nat, InOrder
<1> QED
  BY <1>1, <1>2, <1>3, Zenon

\* The loop ends: the packet that was read in place up to its end was cut off.
LEMMA EndKeepsRight ==
  ASSUME ScannerInv, NEW d \in Documents, NEW T \in Seq(Geek!Characters), NEW start, NEW at,
         Layout(d, T, start, at), Begins(T), Right(d, T, start, at), Geek!ParseEnds
  PROVE  Right(d, T, start, at)'
<1>1. /\ state \in {"ObjectStart", "KeyOrObjectEnd", "Colon", "Value", "CommaOrObjectEnd"}
      /\ state' = "parsed" /\ p >= Geek!End /\ UNCHANGED <<packet, properties, p, key>>
  BY DEF Geek!ParseEnds, Geek!CountComplete, ScannerInv
<1>2. PICK m \in Nat, n \in Nat, e \in Nat, l \in Nat :
        /\ m = Len(packet) /\ n = Len(properties) /\ e = Len(d) /\ l = Len(T)
        /\ p >= m + 1 /\ p \in Nat /\ m <= l
  <2>1. Len(d) \in Nat /\ Len(T) \in Nat
    <3>1. d \in Seq([key : Seq(Geek!Characters), value : Seq(Geek!Characters)])
      BY DocumentsAssumption, Zenon
    <3> QED
      BY <3>1
  <2>2. Len(properties) \in Nat
    BY DEF ScannerInv
  <2>3. Len(packet) \in Nat /\ Geek!End = Len(packet) + 1 /\ p \in Nat
    BY ScannerNumbers
  <2>4. Len(packet) <= Len(T)
    BY DEF Begins
  <2> QED
    BY <1>1, <2>1, <2>2, <2>3, <2>4
<1>3. ReadSoFar(d, at)'
  BY <1>1 DEF Right, ReadSoFar
<1>4. m < l
  <2> SUFFICES ASSUME ~ Over(T) PROVE m < l
    BY <1>2 DEF Over
  <2>1. LastRead(d, at) /\ InPlace(d, start, at) /\ ReadSoFar(d, at)
    BY DEF Right
  <2>2. start \in Nat /\ 1 <= start /\ start < l
    BY <1>2 DEF Layout
  <2>3. ASSUME NEW i \in 1 .. e
        PROVE  /\ at[i].begin \in Nat /\ at[i].close \in Nat /\ at[i].colon \in Nat
               /\ at[i].end \in Nat /\ at[i].next \in Nat
               /\ at[i].begin < at[i].close /\ at[i].close < at[i].colon
               /\ at[i].colon < at[i].end /\ at[i].end <= at[i].next /\ at[i].next <= l
               /\ at[i].begin < l /\ at[i].close < l /\ at[i].colon < l
               /\ Geek!Quoted(d[i].value) => at[i].end < at[i].next
    <3>1. PlacesIn(T, at[i]) /\ ValueIn(T, d[i].value, at[i])
      BY <1>2 DEF Layout
    <3>2. Geek!Quoted(d[i].value) => at[i].end < at[i].next
      BY <3>1, Zenon DEF ValueIn
    <3> QED
      BY <1>2, <3>1, <3>2, PlacesInOrder
  <2>4. CASE state = "ObjectStart"
    BY <1>2, <2>1, <2>2, <2>4 DEF InPlace
  <2>5. CASE state = "KeyOrObjectEnd"
    <3>1. CASE n = 0
      <4>1. p = start + 1
        BY <1>2, <2>1, <2>5, <3>1 DEF InPlace
      <4> QED
        BY <1>2, <2>2, <4>1
    <3>2. CASE n > 0
      <4>1. p = at[n].next + 1 /\ n < e
        BY <1>2, <2>1, <2>5, <3>2 DEF InPlace
      <4>2. PICK i \in 1 .. e : i = n + 1 /\ i > 1 /\ i - 1 = n
        <5>1. n + 1 \in 1 .. e /\ n + 1 > 1 /\ (n + 1) - 1 = n
          BY <1>2, <3>2, <4>1
        <5> QED
          BY <5>1
      <4>3. at[i].begin = at[n].next + 1
        BY <1>2, <4>2 DEF Layout
      <4>4. PICK b \in Nat : b = at[i].begin /\ b < l
        BY <2>3, Zenon
      <4> QED
        BY <1>2, <4>1, <4>3, <4>4
    <3> QED
      BY <1>2, <3>1, <3>2
  <2>6. CASE state \in {"Colon", "Value"}
    <3>1. /\ n < e
          /\ p = at[n + 1].close + 1 \/ p = at[n + 1].colon + 1
      BY <1>2, <2>1, <2>6 DEF InPlace, KeyRead
    <3>2. PICK i \in 1 .. e : i = n + 1
      BY <1>2, <3>1
    <3>3. PICK c \in Nat, k \in Nat :
            c = at[i].close /\ k = at[i].colon /\ c < l /\ k < l
      BY <2>3, Zenon
    <3>4. p = c + 1 \/ p = k + 1
      BY <3>1, <3>2, <3>3
    <3> QED
      BY <1>2, <3>3, <3>4
  <2>7. CASE state = "CommaOrObjectEnd"
    <3>1. n > 0 /\ n <= e /\ p = IF Geek!Quoted(d[n].value) THEN at[n].end + 1 ELSE at[n].next
      BY <1>2, <2>1, <2>7 DEF InPlace, ReadSoFar
    <3>2. PICK i \in 1 .. e : i = n
      BY <1>2, <3>1
    <3>3. PICK x \in Nat, y \in Nat : /\ x = at[n].end /\ y = at[n].next /\ y <= l
                                      /\ Geek!Quoted(d[n].value) => x < y
      BY <2>3, <3>2, Zenon
    <3> QED
      BY <1>2, <3>1, <3>3
  <2> QED
    BY <1>1, <2>4, <2>5, <2>6, <2>7
<1>5. Over(T)'
  BY <1>1, <1>2, <1>4 DEF Over
<1> QED
  BY <1>3, <1>5 DEF Right


LEMMA DocumentsStep ==
  ASSUME ScannerInv, DecoderTypes, DocumentsInv, Geek!Next \/ UNCHANGED Geek!geekVars
  PROVE  DocumentsInv'
<1> SUFFICES ASSUME state' # "idle", NEW d \in Documents, NEW T \in Seq(Geek!Characters), NEW start, NEW at,
                    Layout(d, T, start, at), Begins(T)'
             PROVE  Right(d, T, start, at)'
  BY DEF DocumentsInv
<1>1. CASE Geek!Receive
  <2>1. /\ state = "idle" /\ state' = "ObjectStart"
        /\ UNCHANGED <<p, key, properties>>
    BY <1>1 DEF Geek!Receive
  <2>2. p = 1 /\ properties = <<>>
    BY <2>1 DEF ScannerInv
  <2>3. properties' = <<>> /\ Len(properties') = 0 /\ p' = 1
    BY <2>1, <2>2
  <2>4. Len(d) \in Nat
    <3>1. d \in Seq([key : Seq(Geek!Characters), value : Seq(Geek!Characters)])
      BY DocumentsAssumption, Zenon
    <3> QED
      BY <3>1
  <2>5. ReadSoFar(d, at)'
    BY <2>3, <2>4 DEF ReadSoFar
  <2>6. LastRead(d, at)' /\ InPlace(d, start, at)'
    BY <2>1, <2>3 DEF LastRead, InPlace
  <2> QED
    BY <2>5, <2>6 DEF Right
<1>2. CASE Geek!Decode /\ ~ Geek!WriteToStream
  <2>1. state # "idle" /\ packet' = packet
    BY <1>2 DEF Geek!Decode, Geek!Turn, Geek!ExpectObjectStart, Geek!ExpectKeyOrObjectEnd, Geek!ExpectColon,
                Geek!ExpectValue, Geek!ExpectCommaOrObjectEnd, Geek!ParseEnds, Geek!LearnUser
  <2>2. Begins(T)
    BY <2>1 DEF Begins
  <2>3. Right(d, T, start, at)
    BY <2>1, <2>2 DEF DocumentsInv
  <2>4. CASE Geek!LearnUser
    <3>1. state = "parsed" /\ state' = "learnt" /\ UNCHANGED <<packet, p, key, properties>>
      BY <2>4 DEF Geek!LearnUser
    <3> QED
      BY <2>3, <3>1 DEF Right, ReadSoFar, LastRead, InPlace, Over
  <2> QED
    BY <1>2, <2>2, <2>3, <2>4, ObjectStartKeepsRight, KeyKeepsRight, ColonKeepsRight, ValueKeepsRight,
       CommaKeepsRight, EndKeepsRight DEF Geek!Decode
<1>3. CASE Geek!WriteToStream
  BY <1>3 DEF Geek!WriteToStream
<1>4. CASE UNCHANGED Geek!geekVars
  <2>1. UNCHANGED <<packet, state, p, key, properties>>
    BY <1>4 DEF Geek!geekVars, Geek!scanner
  <2>2. Begins(T) /\ state # "idle"
    BY <2>1 DEF Begins
  <2>3. Right(d, T, start, at)
    BY <2>2 DEF DocumentsInv
  <2> QED
    BY <2>1, <2>3 DEF Right, ReadSoFar, LastRead, InPlace, KeyRead, Over
<1> QED
  BY <1>1, <1>2, <1>3, <1>4 DEF Geek!Next

\* The text holds F behind b.
Holds(T, b, F) == \A j \in 1 .. Len(F) : T[b + j] = F[j]

\* Where the n parts of F are in the text: the i-th behind o[i].
Within(T, b, F, s, n, last) ==
  \E o \in [1 .. last -> Nat] :
    /\ o[1] = b /\ o[last] = b + Len(F)
    /\ \A i \in 1 .. n :
         o[i + 1] = o[i] + Len(s[i]) /\ o[i + 1] <= b + Len(F) /\ Holds(T, o[i], s[i])

LEMMA PlacesWithin ==
  ASSUME NEW S, NEW s \in Seq(Seq(S)), NEW F, F = FlattenSeq(s), NEW T, NEW b \in Nat,
         NEW n \in Nat, n = Len(s), NEW last \in Nat, last = n + 1,
         Holds(T, b, F)
  PROVE  Len(F) \in Nat /\ Within(T, b, F, s, n, last)
<1>1. PICK off : Places(s, off)
  BY FlattenPlaces
<1>2. F \in Seq(S) /\ Len(F) \in Nat
  BY FlattenType
<1>3. /\ off \in [1 .. last -> Nat] /\ off[1] = 0 /\ off[last] = Len(F)
      /\ \A i \in 1 .. n : /\ off[i + 1] = off[i] + Len(s[i]) /\ off[i + 1] <= Len(F)
                           /\ \A j \in 1 .. Len(s[i]) : F[off[i] + j] = s[i][j]
  BY <1>1 DEF Places
<1>4. PICK o : o = [i \in 1 .. last |-> b + off[i]]
  OBVIOUS
<1>5. o \in [1 .. last -> Nat] /\ \A i \in 1 .. last : o[i] = b + off[i]
  BY <1>3, <1>4
<1>6. o[1] = b /\ o[last] = b + Len(F)
  <2>1. 1 \in 1 .. last /\ last \in 1 .. last
    OBVIOUS
  <2>2. o[1] = b + 0 /\ o[last] = b + Len(F)
    BY <1>3, <1>5, <2>1
  <2> QED
    BY <2>2
<1>7. ASSUME NEW i \in 1 .. n
      PROVE  o[i + 1] = o[i] + Len(s[i]) /\ o[i + 1] <= b + Len(F) /\ Holds(T, o[i], s[i])
  <2>1. PICK x \in Nat, y \in Nat, l \in Nat : x = off[i] /\ y = off[i + 1] /\ l = Len(s[i])
    <3>1. s[i] \in Seq(S) /\ i \in 1 .. last /\ i + 1 \in 1 .. last
      OBVIOUS
    <3>2. off[i] \in Nat /\ off[i + 1] \in Nat
      <4>1. off \in [1 .. last -> Nat]
        BY <1>3
      <4> QED
        BY <3>1, <4>1
    <3>3. Len(s[i]) \in Nat
      BY <3>1
    <3> QED
      BY <3>2, <3>3
  <2>2. y = x + l /\ y <= Len(F) /\ \A j \in 1 .. l : F[x + j] = s[i][j]
    BY <1>3, <2>1
  <2>3. o[i] = b + x /\ o[i + 1] = b + y
    <3>1. i \in 1 .. last /\ i + 1 \in 1 .. last
      OBVIOUS
    <3> QED
      BY <1>5, <2>1, <3>1
  <2>4. ASSUME NEW j \in 1 .. l PROVE T[o[i] + j] = s[i][j]
    <3>1. PICK k \in Nat : k = Len(F)
      BY <1>2
    <3>2. y = x + l /\ y <= k
      BY <2>2, <3>1
    <3>3. x + j \in 1 .. k /\ o[i] + j = b + (x + j)
      BY <2>3, <3>2
    <3>4. T[b + (x + j)] = F[x + j]
      BY <3>1, <3>3 DEF Holds
    <3> QED
      BY <2>2, <3>3, <3>4
  <2>5. o[i + 1] = o[i] + l /\ o[i + 1] <= b + Len(F)
    BY <1>2, <2>2, <2>3
  <2> QED
    BY <2>1, <2>4, <2>5 DEF Holds
<1> QED
  BY <1>2, <1>5, <1>6, <1>7 DEF Within

\* What the keys and values of a document hold.
Readable(k, v) ==
  /\ \A j \in 1 .. Len(k) : k[j] # "q"
  /\ Len(v) > 0
  /\ Geek!Quoted(v) => v[1] = "q" /\ \A j \in 2 .. Len(v) : v[j] # "q"
  /\ ~ Geek!Quoted(v) => \A j \in 1 .. Len(v) : v[j] \notin {"sp", "q", ",", RightBrace}

LEMMA WellFormedParts ==
  ASSUME NEW d \in Documents, NEW i \in 1 .. Len(d), NEW k, NEW v, k = d[i].key, v = d[i].value
  PROVE  k \in Seq(Geek!Characters) /\ v \in Seq(Geek!Characters) /\ Readable(k, v)
<1>1. k \in Seq(Geek!Characters) /\ v \in Seq(Geek!Characters) /\ i \in DOMAIN d
  <2> DEFINE E == [key : Seq(Geek!Characters), value : Seq(Geek!Characters)]
  <2>1. d \in Seq(E)
    BY DocumentsAssumption, Zenon
  <2>2. \A e \in E : e.key \in Seq(Geek!Characters) /\ e.value \in Seq(Geek!Characters)
    OBVIOUS
  <2> HIDE DEF E
  <2>3. d[i] \in E /\ i \in DOMAIN d
    BY <2>1
  <2> QED
    BY <2>2, <2>3
<1> DEFINE S == Geek!Characters \ {"q"}
           N == Geek!Characters \ {"sp", "q", ",", RightBrace}
<1>2. /\ k \in Seq(S)
      /\ Geek!Quoted(v) => Tail(v) \in Seq(S)
      /\ ~ Geek!Quoted(v) => v \in Seq(N) /\ v # <<>>
  BY <1>1, DocumentsAssumption, Zenon DEF Geek!WellFormed, RightBrace
<1>3. \A j \in 1 .. Len(k) : k[j] # "q"
  <2> HIDE DEF S
  <2>1. k \in Seq(S)
    BY <1>2, Zenon
  <2>2. \A j \in 1 .. Len(k) : k[j] \in S
    BY <2>1
  <2> QED
    BY <2>2 DEF S
<1>4. ASSUME Geek!Quoted(v)
      PROVE  Len(v) > 0 /\ v[1] = "q" /\ \A j \in 2 .. Len(v) : v[j] # "q"
  <2>1. v # <<>> /\ Head(v) = "q"
    BY <1>4 DEF Geek!Quoted
  <2>2. Len(v) > 0 /\ v[1] = "q"
    BY <1>1, <2>1
  <2>3. PICK t \in Seq(S) : t = Tail(v)
    BY <1>2, <1>4
  <2>4. Len(v) \in Nat /\ Len(t) = Len(v) - 1 /\ \A j \in 1 .. Len(v) - 1 : t[j] = v[j + 1]
    BY <1>1, <2>2, <2>3
  <2>5. ASSUME NEW j \in 2 .. Len(v) PROVE v[j] # "q"
    <3>1. j - 1 \in 1 .. Len(t) /\ (j - 1) + 1 = j
      BY <2>4
    <3>2. t[j - 1] \in S
      BY <3>1
    <3> QED
      BY <2>4, <3>1, <3>2
  <2> QED
    BY <2>2, <2>5
<1>5. ASSUME ~ Geek!Quoted(v)
      PROVE  Len(v) > 0 /\ \A j \in 1 .. Len(v) : v[j] \notin {"sp", "q", ",", RightBrace}
  <2>1. v \in Seq(N) /\ v # <<>>
    BY <1>2, <1>5
  <2> HIDE DEF N
  <2>2. Len(v) > 0 /\ \A j \in 1 .. Len(v) : v[j] \in N
    BY <2>1
  <2> QED
    BY <2>2, Zenon DEF N
<1> QED
  BY <1>1, <1>3, <1>4, <1>5, Zenon DEF Readable

LEMMA PadIsBlank ==
  ASSUME NEW pad \in Geek!Pads, NEW T, NEW o \in Nat, Holds(T, o, pad)
  PROVE  Len(pad) \in {0, 1} /\ Blank(T, o + 1, o + 1 + Len(pad))
<1>1. \/ Len(pad) = 0
      \/ Len(pad) = 1 /\ pad[1] = "sp"
  BY DEF Geek!Pads
<1>2. ASSUME NEW k \in o + 1 .. o + 1 + Len(pad) - 1 PROVE T[k] = "sp"
  <2>1. PICK n \in {0, 1} : n = Len(pad) /\ (n = 1 => pad[1] = "sp")
    BY <1>1
  <2>2. n = 1 /\ k = o + 1 /\ 1 \in 1 .. n
    BY <2>1
  <2> QED
    BY <2>1, <2>2 DEF Holds
<1> QED
  BY <1>1, <1>2 DEF Blank

\* The parts of a property one behind the other, the i-th behind o[i]: the last is
\* a comma or nothing.
PartsAt(T, b, F, pad, k, v, w, comma, o) ==
  /\ o[1] = b /\ o[12] = b + Len(F)
  /\ o[2] = o[1] + Len(pad) /\ o[3] = o[2] + 1 /\ o[4] = o[3] + Len(k) /\ o[5] = o[4] + 1
  /\ o[6] = o[5] + Len(pad) /\ o[7] = o[6] + 1 /\ o[8] = o[7] + Len(pad) /\ o[9] = o[8] + Len(v)
  /\ o[10] = o[9] + Len(w) /\ o[11] = o[10] + Len(pad) /\ o[12] = o[11] + comma
  /\ Holds(T, o[1], pad) /\ Holds(T, o[5], pad) /\ Holds(T, o[7], pad) /\ Holds(T, o[10], pad)
  /\ T[o[2] + 1] = "q" /\ T[o[4] + 1] = "q" /\ T[o[6] + 1] = ":"
  /\ Holds(T, o[3], k) /\ Holds(T, o[8], v) /\ Holds(T, o[9], w)
  /\ comma = 1 => T[o[11] + 1] = ","

LEMMA PartsPlaced ==
  ASSUME NEW d \in Documents, NEW pad \in Geek!Pads, NEW i \in 1 .. Len(d), NEW T, NEW b \in Nat, NEW F,
         F = Geek!PropertyText(d, pad, i), Holds(T, b, F),
         NEW k, NEW v, NEW w, NEW comma, k = d[i].key, v = d[i].value, w = Geek!Closing(v),
         comma = IF i = Len(d) THEN 0 ELSE 1
  PROVE  Len(F) \in Nat /\ \E o \in [1 .. 12 -> Nat] : PartsAt(T, b, F, pad, k, v, w, comma, o)
<1>1. PICK s \in Seq(Seq(Geek!Characters)) : s = PropertyParts(d, pad, i) /\ F = FlattenSeq(s)
  BY TextIsText
<1>2. PICK c, y, z : c = (IF i = Len(d) THEN <<>> ELSE <<",">>) /\ y = <<"q">> /\ z = <<":">>
  OBVIOUS
<1>3. s = <<pad, y, k, y, pad, z, pad, v, w, pad, c>>
  BY <1>1, <1>2, Zenon DEF PropertyParts
<1>4. /\ Len(s) = 11 /\ s[1] = pad /\ s[2] = y /\ s[3] = k /\ s[4] = y /\ s[5] = pad /\ s[6] = z
      /\ s[7] = pad /\ s[8] = v /\ s[9] = w /\ s[10] = pad /\ s[11] = c
  BY <1>3
<1>5. PICK e \in Nat, l \in Nat : e = 11 /\ l = 12 /\ e = Len(s) /\ l = e + 1
  BY <1>4
<1>6. Len(F) \in Nat /\ Within(T, b, F, s, e, l)
  BY <1>1, <1>5, PlacesWithin, Zenon
<1>7. PICK o \in [1 .. 12 -> Nat] :
        /\ o[1] = b /\ o[12] = b + Len(F)
        /\ \A n \in 1 .. 11 : o[n + 1] = o[n] + Len(s[n]) /\ Holds(T, o[n], s[n])
  BY <1>5, <1>6, Zenon DEF Within
<1>8. Len(y) = 1 /\ y[1] = "q" /\ Len(z) = 1 /\ z[1] = ":"
  BY <1>2
<1>9. Len(c) = comma /\ (comma = 1 => c[1] = ",")
  <2>1. CASE i = Len(d)
    <3>1. c = <<>> /\ comma = 0
      BY <1>2, <2>1
    <3> QED
      BY ONLY <3>1
  <2>2. CASE i # Len(d)
    <3>1. c = <<",">> /\ comma = 1
      BY <1>2, <2>2
    <3> QED
      BY ONLY <3>1
  <2> QED
    BY <2>1, <2>2
<1>10. /\ o[2] = o[1] + Len(pad) /\ o[3] = o[2] + Len(y) /\ o[4] = o[3] + Len(k) /\ o[5] = o[4] + Len(y)
       /\ o[6] = o[5] + Len(pad) /\ o[7] = o[6] + Len(z) /\ o[8] = o[7] + Len(pad) /\ o[9] = o[8] + Len(v)
       /\ o[10] = o[9] + Len(w) /\ o[11] = o[10] + Len(pad) /\ o[12] = o[11] + Len(c)
  BY ONLY <1>4, <1>7
<1>11. /\ Holds(T, o[1], pad) /\ Holds(T, o[2], y) /\ Holds(T, o[3], k) /\ Holds(T, o[4], y)
       /\ Holds(T, o[5], pad) /\ Holds(T, o[6], z) /\ Holds(T, o[7], pad) /\ Holds(T, o[8], v)
       /\ Holds(T, o[9], w) /\ Holds(T, o[10], pad) /\ Holds(T, o[11], c)
  BY ONLY <1>4, <1>7
<1>12. T[o[2] + 1] = "q" /\ T[o[4] + 1] = "q" /\ T[o[6] + 1] = ":"
  BY <1>8, <1>11 DEF Holds
<1>13. comma = 1 => T[o[11] + 1] = ","
  <2> SUFFICES ASSUME comma = 1 PROVE T[o[11] + 1] = ","
    OBVIOUS
  <2>1. Len(c) = 1 /\ c[1] = ","
    BY <1>9, Zenon
  <2>2. \A j \in 1 .. 1 : T[o[11] + j] = c[j]
    BY <1>11, <2>1, Zenon DEF Holds
  <2>3. 1 \in 1 .. 1
    OBVIOUS
  <2> QED
    BY <2>1, <2>2, <2>3, Zenon
<1> QED
  BY <1>6, <1>7, <1>8, <1>9, <1>10, <1>11, <1>12, <1>13, Zenon DEF PartsAt

\* The places of a property whose text F lies behind b.
PropertyAt(T, d, i, b, F, a) ==
  /\ PlacesIn(T, a) /\ KeyIn(T, d[i].key, a) /\ ColonIn(T, a) /\ ValueIn(T, d[i].value, a)
  /\ a.begin = b + 1
  /\ i # Len(d) => a.next = b + Len(F) /\ T[a.next] = ","
  /\ i = Len(d) => a.next = b + Len(F) + 1 /\ T[a.next] = RightBrace

LEMMA PropertyPlaced ==
  ASSUME NEW d \in Documents, NEW pad \in Geek!Pads, NEW i \in 1 .. Len(d), NEW T, NEW l \in Nat, l = Len(T),
         NEW b \in Nat, NEW F, F = Geek!PropertyText(d, pad, i), Holds(T, b, F), b + Len(F) < l,
         i = Len(d) => T[b + Len(F) + 1] = RightBrace
  PROVE  \E a : PropertyAt(T, d, i, b, F, a)
<1>1. PICK k, v, w : k = d[i].key /\ v = d[i].value /\ w = Geek!Closing(v)
  OBVIOUS
<1>2. Len(k) \in Nat /\ Len(v) \in Nat /\ Len(v) > 0 /\ Readable(k, v)
  <2>1. k \in Seq(Geek!Characters) /\ v \in Seq(Geek!Characters) /\ Readable(k, v)
    BY <1>1, WellFormedParts, Zenon
  <2>2. Len(k) \in Nat /\ Len(v) \in Nat
    BY <2>1
  <2> QED
    BY <2>1, <2>2, Zenon DEF Readable
<1>3. /\ Geek!Quoted(v) => Len(w) = 1 /\ w[1] = "q"
      /\ ~ Geek!Quoted(v) => Len(w) = 0
  BY <1>1 DEF Geek!Closing
<1>4. PICK A \in {0, 1} : A = Len(pad)
  BY DEF Geek!Pads
<1>5. PICK K \in Nat, V \in Nat, W \in {0, 1} :
        K = Len(k) /\ V = Len(v) /\ V > 0 /\ W = Len(w) /\ (Geek!Quoted(v) <=> W = 1)
  <2>1. Len(w) = 0 \/ Len(w) = 1
    BY <1>3
  <2>2. 0 # 1
    OBVIOUS
  <2>3. Geek!Quoted(v) <=> Len(w) = 1
    BY <1>3, <2>2, Zenon
  <2> QED
    BY <1>2, <2>1, <2>3
<1>6. PICK comma \in {0, 1}, o \in [1 .. 12 -> Nat] :
        PartsAt(T, b, F, pad, k, v, w, comma, o) /\ comma = IF i = Len(d) THEN 0 ELSE 1
  <2>1. PICK comma : comma = IF i = Len(d) THEN 0 ELSE 1
    OBVIOUS
  <2>2. \E o \in [1 .. 12 -> Nat] : PartsAt(T, b, F, pad, k, v, w, comma, o)
    BY <1>1, <2>1, PartsPlaced, Zenon
  <2> QED
    BY <2>1, <2>2
<1>7. PICK L \in Nat : L = Len(F)
  BY <1>1, PartsPlaced
<1>8. \E x2 \in Nat, x3 \in Nat, x4 \in Nat, x5 \in Nat, x6 \in Nat, x7 \in Nat, x8 \in Nat,
         x9 \in Nat, x10 \in Nat, x11 \in Nat :
        /\ x2 = o[2] /\ x3 = o[3] /\ x4 = o[4] /\ x5 = o[5] /\ x6 = o[6] /\ x7 = o[7] /\ x8 = o[8]
        /\ x9 = o[9] /\ x10 = o[10] /\ x11 = o[11]
  <2> WITNESS o[2] \in Nat, o[3] \in Nat, o[4] \in Nat, o[5] \in Nat, o[6] \in Nat, o[7] \in Nat, o[8] \in Nat,
              o[9] \in Nat, o[10] \in Nat, o[11] \in Nat
  <2> QED
    OBVIOUS
<1>9. PICK x2 \in Nat, x3 \in Nat, x4 \in Nat, x5 \in Nat, x6 \in Nat, x7 \in Nat, x8 \in Nat,
            x9 \in Nat, x10 \in Nat, x11 \in Nat :
        /\ x2 = o[2] /\ x3 = o[3] /\ x4 = o[4] /\ x5 = o[5] /\ x6 = o[6] /\ x7 = o[7] /\ x8 = o[8]
        /\ x9 = o[9] /\ x10 = o[10] /\ x11 = o[11]
  BY <1>8, Zenon
<1>10. /\ x2 = b + A /\ x3 = x2 + 1 /\ x4 = x3 + K /\ x5 = x4 + 1 /\ x6 = x5 + A
       /\ x7 = x6 + 1 /\ x8 = x7 + A /\ x9 = x8 + V /\ x10 = x9 + W /\ x11 = x10 + A
       /\ b + L = x11 + comma
  BY <1>4, <1>5, <1>6, <1>7, <1>9, Zenon DEF PartsAt
<1>11. /\ Holds(T, b, pad) /\ Holds(T, x5, pad) /\ Holds(T, x7, pad) /\ Holds(T, x10, pad)
       /\ T[x2 + 1] = "q" /\ T[x4 + 1] = "q" /\ T[x6 + 1] = ":"
       /\ Holds(T, x3, k) /\ Holds(T, x8, v) /\ Holds(T, x9, w)
       /\ comma = 1 => T[x11 + 1] = ","
  BY <1>6, <1>9, Zenon DEF PartsAt
<1>12. /\ b \in Nat /\ A \in {0, 1} /\ K \in Nat /\ V \in Nat /\ V > 0 /\ W \in {0, 1} /\ comma \in {0, 1}
       /\ L \in Nat /\ l \in Nat /\ b + L < l
       /\ x2 \in Nat /\ x3 \in Nat /\ x4 \in Nat /\ x5 \in Nat /\ x6 \in Nat /\ x7 \in Nat /\ x8 \in Nat
       /\ x9 \in Nat /\ x10 \in Nat /\ x11 \in Nat
  BY <1>5, <1>7, Zenon
<1>13. /\ Blank(T, b + 1, x2 + 1) /\ Blank(T, x5 + 1, x6 + 1) /\ Blank(T, x7 + 1, x8 + 1)
       /\ Blank(T, x10 + 1, x11 + 1)
  <2>1. /\ Blank(T, b + 1, b + 1 + A) /\ Blank(T, x5 + 1, x5 + 1 + A) /\ Blank(T, x7 + 1, x7 + 1 + A)
        /\ Blank(T, x10 + 1, x10 + 1 + A)
    BY <1>4, <1>11, PadIsBlank
  <2>2. b + 1 + A = x2 + 1 /\ x5 + 1 + A = x6 + 1 /\ x7 + 1 + A = x8 + 1 /\ x10 + 1 + A = x11 + 1
    BY <1>10
  <2> QED
    BY <2>1, <2>2
<1>14. PICK a : a = [begin |-> b + 1, open |-> x2 + 1, close |-> x4 + 1, colon |-> x6 + 1, value |-> x8 + 1,
                     end |-> x9 + 1, next |-> x11 + 1]
  OBVIOUS
<1>15. /\ a.begin = b + 1 /\ a.open = x2 + 1 /\ a.close = x4 + 1 /\ a.colon = x6 + 1 /\ a.value = x8 + 1
       /\ a.end = x9 + 1 /\ a.next = x11 + 1
  BY <1>14
<1>16. PlacesIn(T, a)
  <2>1. x11 + 1 <= l
    <3>1. CASE comma = 0
      <4>1. x11 = b + L
        BY ONLY <1>10, <1>12, <3>1
      <4> QED
        BY ONLY <1>12, <4>1
    <3>2. CASE comma = 1
      BY ONLY <1>10, <1>12, <3>2
    <3> QED
      BY <1>12, <3>1, <3>2
  <2>2. b <= x2 /\ x2 < x4 /\ x4 < x6
    <3>1. b <= x2
      BY ONLY <1>10, <1>12
    <3>2. x2 < x4
      BY ONLY <1>10, <1>12
    <3>3. x4 < x6
      BY ONLY <1>10, <1>12
    <3> QED
      BY <3>1, <3>2, <3>3
  <2>3. x6 < x8 /\ x8 < x9
    BY ONLY <1>10, <1>12
  <2>4. x9 <= x11
    <3>1. x9 <= x10
      BY ONLY <1>10, <1>12
    <3>2. x10 <= x11
      BY ONLY <1>10, <1>12
    <3> QED
      BY ONLY <1>12, <3>1, <3>2
  <2>5. 1 <= b + 1 /\ b + 1 <= x2 + 1 /\ x2 + 1 < x4 + 1 /\ x4 + 1 < x6 + 1
    BY ONLY <1>12, <2>2
  <2>6. x6 + 1 < x8 + 1 /\ x8 + 1 < x9 + 1 /\ x9 + 1 <= x11 + 1
    BY ONLY <1>12, <2>3, <2>4
  <2> QED
    BY <1>12, <1>15, <2>1, <2>5, <2>6 DEF PlacesIn
<1>17. KeyIn(T, k, a)
  <2>1. x4 + 1 = (x2 + 1) + 1 + K
    BY ONLY <1>10, <1>12
  <2>2. \A j \in 1 .. K : T[(x2 + 1) + j] = k[j]
    BY <1>5, <1>10, <1>11 DEF Holds
  <2>3. ASSUME NEW j \in (x2 + 1) + 1 .. (x4 + 1) - 1 PROVE T[j] # "q"
    <3>1. PICK n \in 1 .. K : j = (x2 + 1) + n
      <4>1. j - (x2 + 1) \in 1 .. K /\ j = (x2 + 1) + (j - (x2 + 1))
        BY <1>10
      <4> QED
        BY <4>1
    <3> QED
      BY <1>2, <1>5, <2>2, <3>1 DEF Readable
  <2> QED
    BY <1>5, <1>11, <1>13, <1>15, <2>1, <2>2, <2>3, Zenon DEF KeyIn
<1>18. ColonIn(T, a)
  <2>1. x4 + 1 + 1 = x5 + 1 /\ x6 + 1 + 1 = x7 + 1 /\ T[x6 + 1] = ":"
    BY <1>10, <1>11
  <2> QED
    BY <1>13, <1>15, <2>1 DEF ColonIn
<1>19. ValueIn(T, v, a)
  <2>1. x9 + 1 = (x8 + 1) + V
    BY <1>10
  <2>2. ASSUME NEW j \in 1 .. V PROVE T[(x8 + 1) + (j - 1)] = v[j]
    <3>1. (x8 + 1) + (j - 1) = x8 + j
      OBVIOUS
    <3>2. T[x8 + j] = v[j]
      BY <1>5, <1>11 DEF Holds
    <3> QED
      BY <3>1, <3>2
  <2>3. ASSUME NEW j \in x8 + 1 .. (x9 + 1) - 1 PROVE \E n \in 1 .. V : j = x8 + n /\ T[j] = v[n]
    <3>1. j - x8 \in 1 .. V /\ j = x8 + (j - x8)
      BY <1>10
    <3>2. T[x8 + (j - x8)] = v[j - x8]
      BY <1>5, <1>11, <3>1 DEF Holds
    <3> QED
      BY <3>1, <3>2
  <2>4. ASSUME Geek!Quoted(v)
        PROVE  /\ T[x8 + 1] = "q" /\ T[x9 + 1] = "q" /\ x9 + 1 < x11 + 1
               /\ \A j \in (x8 + 1) + 1 .. (x9 + 1) - 1 : T[j] # "q"
               /\ Blank(T, (x9 + 1) + 1, x11 + 1)
    <3>1. T[x8 + 1] = "q"
      <4>1. 1 \in 1 .. V
        BY <1>5
      <4> QED
        BY <1>2, <1>5, <1>11, <2>4, <4>1 DEF Holds, Readable
    <3>2. T[x9 + 1] = "q"
      <4>1. w[1] = "q" /\ Len(w) = 1 /\ 1 \in 1 .. 1
        BY <1>3, <2>4
      <4> QED
        BY <1>11, <4>1 DEF Holds
    <3>3. x9 + 1 < x11 + 1 /\ (x9 + 1) + 1 = x10 + 1
      <4>1. W = 1
        BY <1>5, <2>4, Zenon
      <4> QED
        BY ONLY <1>10, <1>12, <4>1
    <3>4. ASSUME NEW j \in (x8 + 1) + 1 .. (x9 + 1) - 1 PROVE T[j] # "q"
      <4>1. j \in x8 + 1 .. (x9 + 1) - 1 /\ j > x8 + 1
        OBVIOUS
      <4>2. PICK n \in 1 .. V : j = x8 + n /\ T[j] = v[n]
        BY <2>3, <4>1
      <4>3. n \in 2 .. V
        BY ONLY <1>12, <4>1, <4>2
      <4> QED
        BY <1>2, <1>5, <2>4, <4>2, <4>3, Zenon DEF Readable
    <3> QED
      BY <1>13, <3>1, <3>2, <3>3, <3>4
  <2>5. ASSUME ~ Geek!Quoted(v)
        PROVE  /\ \A j \in x8 + 1 .. (x9 + 1) - 1 : T[j] \notin {"sp", "q", ",", RightBrace}
               /\ Blank(T, x9 + 1, x11 + 1) /\ x11 + 1 <= (x9 + 1) + 1
    <3>1. x9 + 1 = x10 + 1 /\ x11 + 1 <= (x9 + 1) + 1
      <4>1. W # 1
        BY <1>5, <2>5, Zenon
      <4> QED
        BY ONLY <1>10, <1>12, <4>1
    <3>2. ASSUME NEW j \in x8 + 1 .. (x9 + 1) - 1 PROVE T[j] \notin {"sp", "q", ",", RightBrace}
      <4>1. PICK n \in 1 .. V : T[j] = v[n]
        BY <2>3
      <4> QED
        BY <1>2, <1>5, <2>5, <4>1, Zenon DEF Readable
    <3>3. Blank(T, x9 + 1, x11 + 1)
      BY <1>13, <3>1
    <3> QED
      BY <3>1, <3>2, <3>3, Zenon
  <2>6. \A j \in 1 .. Len(v) : T[(x8 + 1) + (j - 1)] = v[j]
    BY <1>5, <2>2
  <2> QED
    BY <1>5, <1>15, <2>1, <2>6, <2>4, <2>5, Zenon DEF ValueIn
<1>20. /\ i # Len(d) => a.next = b + Len(F) /\ T[a.next] = ","
       /\ i = Len(d) => a.next = b + Len(F) + 1 /\ T[a.next] = RightBrace
  <2>1. i # Len(d) => comma = 1 /\ x11 + 1 = b + L
    BY <1>6, <1>10
  <2>2. i = Len(d) => comma = 0 /\ x11 + 1 = b + L + 1
    BY <1>6, <1>10
  <2> QED
    BY <1>7, <1>11, <1>15, <2>1, <2>2, Zenon
<1> QED
  BY <1>1, <1>15, <1>16, <1>17, <1>18, <1>19, <1>20, Zenon DEF PropertyAt

\* The text of every document has a layout.
LEMMA LayoutExists ==
  ASSUME NEW d \in Documents, NEW pad \in Geek!Pads, NEW T, T = Geek!TextOf(d, pad)
  PROVE  \E start, at : Layout(d, T, start, at)
<1>1. PICK s, P, f : /\ s = TextParts(d, pad) /\ P = PropertyTexts(d, pad) /\ f = FlattenSeq(P)
                     /\ s \in Seq(Seq(Geek!Characters)) /\ P \in Seq(Seq(Geek!Characters))
                     /\ T = FlattenSeq(s) /\ T \in Seq(Geek!Characters)
  BY TextIsText
<1>2. PICK e \in Nat, l \in Nat, M \in Nat, A \in {0, 1} :
        e = Len(d) /\ DOMAIN d = 1 .. e /\ l = Len(T) /\ M = Len(f) /\ A = Len(pad)
  <2>1. Len(d) \in Nat /\ DOMAIN d = 1 .. Len(d)
    BY TextIsText
  <2>2. Len(T) \in Nat
    BY <1>1
  <2>3. Len(f) \in Nat
    BY <1>1, FlattenType
  <2>4. Len(pad) \in {0, 1}
    BY DEF Geek!Pads
  <2> QED
    BY <2>1, <2>2, <2>3, <2>4
\* The text: the brace behind A, the properties behind A + 1, the brace at the end.
<1>3. PICK y, z : y = <<LeftBrace>> /\ z = <<RightBrace>>
  OBVIOUS
<1>4. Len(y) = 1 /\ y[1] = LeftBrace /\ Len(z) = 1 /\ z[1] = RightBrace
  BY <1>3
<1>5. s = <<pad, y, f, z>>
  BY <1>1, <1>3, Zenon DEF TextParts, LeftBrace, RightBrace
<1>6. Len(s) = 4 /\ s[1] = pad /\ s[2] = y /\ s[3] = f /\ s[4] = z
  BY ONLY <1>5
<1>7. PICK o \in [1 .. 5 -> Nat] :
        /\ o[1] = 0 /\ o[5] = 0 + l
        /\ \A i \in 1 .. 4 : o[i + 1] = o[i] + Len(s[i]) /\ Holds(T, o[i], s[i])
  <2>1. Holds(T, 0, T)
    <3>1. \A j \in 1 .. Len(T) : 0 + j = j
      BY <1>1
    <3> QED
      BY <3>1 DEF Holds
  <2>2. PICK n \in Nat, m \in Nat : n = 4 /\ m = 5 /\ n = Len(s) /\ m = n + 1
    BY <1>6
  <2>3. 0 \in Nat
    OBVIOUS
  <2>4. Within(T, 0, T, s, n, m)
    BY <1>1, <2>1, <2>2, <2>3, PlacesWithin, Zenon
  <2> QED
    BY <1>2, <2>2, <2>4, Zenon DEF Within
<1>8. /\ o[2] = o[1] + Len(pad) /\ o[3] = o[2] + Len(y) /\ o[4] = o[3] + Len(f) /\ o[5] = o[4] + Len(z)
      /\ Holds(T, o[1], pad) /\ Holds(T, o[2], y) /\ Holds(T, o[3], f) /\ Holds(T, o[4], z)
  BY ONLY <1>6, <1>7
<1>9. PICK start \in Nat : start = A + 1
  BY <1>2
<1>10. o[1] = 0 /\ o[2] = A /\ o[3] = start /\ o[4] = start + M /\ l = start + M + 1
  <2>1. o[2] = 0 + A /\ o[3] = o[2] + 1 /\ o[4] = o[3] + M /\ l = o[4] + 1
    <3>1. 0 + l = l
      OBVIOUS
    <3> QED
      BY <1>2, <1>4, <1>7, <1>8, <3>1, Zenon
  <2>2. o[2] = A
    BY <2>1
  <2> QED
    BY <1>7, <1>9, <2>1, <2>2
<1>11. Holds(T, 0, pad) /\ Holds(T, A, y) /\ Holds(T, start, f) /\ Holds(T, start + M, z)
  BY <1>8, <1>10, Zenon
<1>12. Blank(T, 1, start) /\ T[start] = LeftBrace /\ T[l] = RightBrace
  <2>1. Blank(T, 0 + 1, 0 + 1 + Len(pad))
    BY <1>11, PadIsBlank
  <2>2. 0 + 1 + Len(pad) = start
    BY <1>2, <1>9
  <2>3. T[A + 1] = y[1] /\ T[(start + M) + 1] = z[1]
    BY <1>4, <1>11 DEF Holds
  <2> QED
    BY <1>4, <1>9, <1>10, <2>1, <2>2, <2>3
\* The properties, the i-th behind q[i].
<1>13. Len(P) = e /\ \A i \in 1 .. e : P[i] = Geek!PropertyText(d, pad, i)
  BY <1>1, <1>2 DEF PropertyTexts
<1>14. PICK q \in [1 .. e + 1 -> Nat] :
         /\ q[1] = start /\ q[e + 1] = start + M
         /\ \A i \in 1 .. e : q[i + 1] = q[i] + Len(P[i]) /\ q[i + 1] <= start + M /\ Holds(T, q[i], P[i])
  <2>1. PICK m \in Nat : m = e + 1
    OBVIOUS
  <2>2. Within(T, start, f, P, e, m)
    BY <1>1, <1>11, <1>13, <2>1, PlacesWithin, Zenon
  <2> QED
    BY <1>2, <2>1, <2>2, Zenon DEF Within
<1> DEFINE Is(i, a) ==
             /\ PlacesIn(T, a) /\ KeyIn(T, d[i].key, a) /\ ColonIn(T, a) /\ ValueIn(T, d[i].value, a)
             /\ a.begin = q[i] + 1
             /\ i # e => a.next = q[i + 1] /\ T[a.next] = ","
             /\ i = e => a.next = l /\ T[a.next] = RightBrace
<1>15. ASSUME NEW i \in 1 .. e PROVE \E a : Is(i, a)
  <2>1. PICK b, F : b \in Nat /\ b = q[i] /\ F = P[i]
    <3>1. i \in 1 .. e + 1
      OBVIOUS
    <3> QED
      BY <3>1
  <2>2. F = Geek!PropertyText(d, pad, i) /\ Holds(T, b, F) /\ q[i + 1] = b + Len(F) /\ b + Len(F) <= start + M
    BY <1>13, <1>14, <2>1
  <2>3. PICK L \in Nat : L = Len(F)
    <3>1. F \in Seq(Geek!Characters)
      BY <1>2, <2>2, TextIsText
    <3> QED
      BY <3>1
  <2>4. b + Len(F) < l
    <3>1. b + L <= start + M /\ b \in Nat
      BY <2>1, <2>2, <2>3
    <3>2. b + L < start + M + 1
      BY <3>1
    <3> QED
      BY <1>10, <2>3, <3>2
  <2>5. i = e => b + Len(F) + 1 = l
    BY <1>10, <1>14, <2>1, <2>2, <2>3
  <2>6. i = Len(d) => T[b + Len(F) + 1] = RightBrace
    BY <1>2, <1>12, <2>5
  <2>7. i \in 1 .. Len(d)
    BY <1>2
  <2>8. PICK a : PropertyAt(T, d, i, b, F, a)
    BY <1>2, <2>1, <2>2, <2>4, <2>6, <2>7, PropertyPlaced, Zenon
  <2>9. Is(i, a)
    BY <1>2, <2>1, <2>2, <2>5, <2>8, Zenon DEF PropertyAt
  <2> QED
    BY <2>9
<1> HIDE DEF Is
<1>16. PICK at : at = [i \in 1 .. e |-> CHOOSE a : Is(i, a)]
  OBVIOUS
<1>17. ASSUME NEW i \in 1 .. e PROVE Is(i, at[i])
  <2>1. at[i] = CHOOSE a : Is(i, a)
    BY <1>16
  <2> QED
    BY <1>15, <2>1, Zenon
<1>18. ASSUME NEW i \in 1 .. e
       PROVE  /\ PlacesIn(T, at[i]) /\ KeyIn(T, d[i].key, at[i]) /\ ColonIn(T, at[i])
              /\ ValueIn(T, d[i].value, at[i])
              /\ i = 1 => at[i].begin = start + 1
              /\ i > 1 => at[i].begin = at[i - 1].next + 1
              /\ i < e => T[at[i].next] = ","
              /\ i = e => T[at[i].next] = RightBrace /\ at[i].next = l
  <2>1. /\ PlacesIn(T, at[i]) /\ KeyIn(T, d[i].key, at[i]) /\ ColonIn(T, at[i])
        /\ ValueIn(T, d[i].value, at[i])
        /\ at[i].begin = q[i] + 1
        /\ i # e => T[at[i].next] = ","
        /\ i = e => T[at[i].next] = RightBrace /\ at[i].next = l
    BY <1>17, Zenon DEF Is
  <2>2. i = 1 => at[i].begin = start + 1
    BY <1>14, <2>1
  <2>3. ASSUME i > 1 PROVE at[i].begin = at[i - 1].next + 1
    <3>1. PICK h \in 1 .. e : h = i - 1 /\ h # e /\ h + 1 = i
      <4>1. i - 1 \in 1 .. e /\ i - 1 # e /\ (i - 1) + 1 = i
        BY <2>3
      <4> QED
        BY <4>1
    <3>2. at[h].next = q[h + 1]
      BY <1>17, <3>1, Zenon DEF Is
    <3> QED
      BY <2>1, <3>1, <3>2, Zenon
  <2>4. i < e => T[at[i].next] = ","
    <3>1. i < e => i # e
      OBVIOUS
    <3> QED
      BY <2>1, <3>1, Zenon
  <2> QED
    BY <2>1, <2>2, <2>3, <2>4, Zenon
<1>19. e = 0 => T[start + 1] = RightBrace
  <2> SUFFICES ASSUME e = 0 PROVE T[start + 1] = RightBrace
    OBVIOUS
  <2>1. start = start + M
    BY <1>14
  <2>2. l = start + 1
    BY <1>10, <2>1
  <2> QED
    BY <1>12, <2>2
<1>20. 1 <= start /\ start < l
  BY <1>2, <1>9, <1>10
<1>21. Layout(d, T, start, at)
  BY <1>2, <1>12, <1>18, <1>19, <1>20, Zenon DEF Layout
<1> QED
  BY <1>21, Zenon

\* The text holds w from b on.
HoldsFrom(T, b, w) == \A j \in 1 .. Len(w) : T[b + (j - 1)] = w[j]

\* The text of an extent that lies in the packet.
LEMMA ExtentIsRead ==
  ASSUME ScannerInv, NEW T, Begins(T), NEW w \in Seq(Geek!Characters), NEW b \in Nat, NEW x \in Nat,
         x = b + Len(w), b > 0, x <= Len(packet) + 1, HoldsFrom(T, b, w)
  PROVE  Geek!Text([begin |-> b, end |-> x]) = w
<1>1. PICK n \in Nat, m \in Nat : n = Len(w) /\ m = Len(packet) /\ x = b + n /\ x <= m + 1
  <2>1. Len(packet) \in Nat
    BY ScannerNumbers
  <2>2. Len(w) \in Nat
    OBVIOUS
  <2> QED
    BY <2>1, <2>2
<1>2. ASSUME NEW j \in 1 .. n PROVE Geek!Char(b + j - 1) = w[j]
  <2>1. b + (j - 1) \in 1 .. m /\ b + j - 1 = b + (j - 1)
    BY <1>1
  <2>2. packet[b + (j - 1)] = T[b + (j - 1)]
    BY <1>1, <2>1 DEF Begins
  <2>3. T[b + (j - 1)] = w[j]
    BY <1>1 DEF HoldsFrom
  <2> QED
    BY <1>1, <2>1, <2>2, <2>3 DEF Geek!Char
<1>3. x - b = n
  BY <1>1
<1>4. w = [j \in 1 .. n |-> w[j]]
  BY <1>1
<1>5. PICK extent : extent = [begin |-> b, end |-> x]
  OBVIOUS
<1>6. extent.begin = b /\ extent.end = x
  BY <1>5
<1>7. Geek!Text(extent) = [j \in 1 .. n |-> Geek!Char(b + j - 1)]
  BY <1>3, <1>6 DEF Geek!Text
<1> QED
  BY <1>2, <1>4, <1>5, <1>7

\* What the items say of a property that was read where it is.
LEMMA ItemsAre ==
  ASSUME ScannerInv, NEW i \in 1 .. Len(properties)
  PROVE  /\ Geek!Items[i].key = Geek!Text(properties[i].key)
         /\ Geek!Items[i].value = Geek!Text(properties[i].value)
<1>1. i \in DOMAIN properties
  BY DEF ScannerInv
<1> QED
  BY <1>1 DEF Geek!Items

LEMMA KeyIsRead ==
  ASSUME ScannerInv, NEW T, Begins(T), NEW k \in Seq(Geek!Characters), NEW a, PlacesIn(T, a), KeyIn(T, k, a),
         a.close <= Len(packet)
  PROVE  Geek!Text(KeyAt(a)) = k
<1>1. PICK o \in Nat, x \in Nat, b \in Nat : o = a.open /\ x = a.close /\ b = o + 1 /\ b > 0
  BY DEF PlacesIn
<1>2. Len(k) \in Nat /\ x = o + 1 + Len(k) /\ x <= Len(packet)
  BY <1>1 DEF KeyIn
<1>3. HoldsFrom(T, b, k)
  <2>1. \A j \in 1 .. Len(k) : T[o + j] = k[j] /\ b + (j - 1) = o + j
    BY <1>1 DEF KeyIn
  <2> QED
    BY <2>1 DEF HoldsFrom
<1>4. KeyAt(a) = [begin |-> b, end |-> x]
  BY <1>1 DEF KeyAt
<1>5. x = b + Len(k) /\ x <= Len(packet) + 1
  <2>1. Len(packet) \in Nat
    BY ScannerNumbers
  <2> QED
    BY <1>1, <1>2, <2>1
<1> QED
  BY <1>1, <1>3, <1>4, <1>5, ExtentIsRead

LEMMA ValueIsRead ==
  ASSUME ScannerInv, NEW T, Begins(T), NEW value \in Seq(Geek!Characters), NEW a, PlacesIn(T, a),
         ValueIn(T, value, a), a.next <= Len(packet)
  PROVE  Geek!SameValue(Geek!Text(ValueAt(value, a)), value)
<1>1. PICK b \in Nat, x \in Nat, y \in Nat : /\ b = a.value /\ x = a.end /\ y = a.next /\ b > 0
                                             /\ x <= y /\ y <= Len(packet)
  <2>1. a.value > 0
    <3>1. PICK b \in Nat, o \in Nat, c \in Nat, k \in Nat, v \in Nat :
            /\ b = a.begin /\ o = a.open /\ c = a.close /\ k = a.colon /\ v = a.value
            /\ k < v
      BY DEF PlacesIn
    <3> QED
      BY <3>1
  <2> QED
    BY <2>1 DEF PlacesIn
<1>2. Len(packet) \in Nat /\ Len(value) \in Nat
  BY ScannerNumbers
<1>3. x = b + Len(value) /\ \A j \in 1 .. Len(value) : T[b + (j - 1)] = value[j]
  BY <1>1, Zenon DEF ValueIn
<1>4. x <= Len(packet) + 1
  BY <1>1, <1>2
<1>5. Geek!Text([begin |-> b, end |-> x]) = value
  <2>1. HoldsFrom(T, b, value)
    BY <1>3 DEF HoldsFrom
  <2> QED
    BY <1>1, <1>3, <1>4, <2>1, ExtentIsRead
<1>6. CASE Geek!Quoted(value) \/ y = x
  <2>1. ValueAt(value, a) = [begin |-> b, end |-> x]
    BY <1>1, <1>6 DEF ValueAt
  <2> QED
    BY <1>5, <2>1 DEF Geek!SameValue
<1>7. CASE ~ Geek!Quoted(value) /\ y # x
  <2>1. ValueAt(value, a) = [begin |-> b, end |-> y]
    BY <1>1, <1>7 DEF ValueAt
  <2>2. y <= x + 1 /\ Blank(T, x, y)
    BY <1>1, <1>7, Zenon DEF ValueIn
  <2>3. y = x + 1 /\ T[x] = "sp"
    <3>1. y = x + 1
      BY <1>1, <1>7, <2>2
    <3>2. x \in x .. y - 1
      BY <3>1
    <3> QED
      BY <2>2, <3>1, <3>2 DEF Blank
  <2>4. PICK w : w = value \o <<"sp">>
    OBVIOUS
  <2>5. /\ w \in Seq(Geek!Characters) /\ Len(w) = Len(value) + 1 /\ w[Len(value) + 1] = "sp"
        /\ \A j \in 1 .. Len(value) : w[j] = value[j]
    <3>1. "sp" \in Geek!Characters
      BY DEF Geek!Characters
    <3> HIDE DEF Geek!Characters
    <3> QED
      BY <2>4, <3>1
  <2>6. ASSUME NEW j \in 1 .. Len(w) PROVE T[b + (j - 1)] = w[j]
    <3>1. CASE j <= Len(value)
      BY <1>2, <1>3, <2>5, <3>1
    <3>2. CASE j = Len(value) + 1
      <4>1. b + (j - 1) = x
        BY <1>2, <1>3, <3>2
      <4> QED
        BY <2>3, <2>5, <3>2, <4>1
    <3> QED
      BY <1>2, <2>5, <3>1, <3>2
  <2>7. y = b + Len(w) /\ y <= Len(packet) + 1
    BY <1>1, <1>2, <1>3, <2>3, <2>5
  <2>8. HoldsFrom(T, b, w)
    BY <2>6 DEF HoldsFrom
  <2>9. Geek!Text([begin |-> b, end |-> y]) = w
    BY <1>1, <2>5, <2>7, <2>8, ExtentIsRead
  <2> QED
    BY <1>7, <2>1, <2>4, <2>9 DEF Geek!SameValue
<1> QED
  BY <1>6, <1>7

\* What a parsed packet says, given what is known of the scanner.
LEMMA PropertiesRead ==
  ASSUME ScannerInv, NEW d \in Documents, NEW T, NEW start, NEW at, Layout(d, T, start, at), Begins(T),
         ReadSoFar(d, at)
  PROVE  /\ \A i \in 1 .. Len(properties) : Geek!Items[i].key = d[i].key
         /\ \A i \in 1 .. Len(properties) :
              properties[i].value = ValueAt(d[i].value, at[i]) /\ at[i].next <= Len(packet) =>
                Geek!SameValue(Geek!Items[i].value, d[i].value)
         /\ \A i \in 1 .. Len(properties) - 1 : Geek!SameValue(Geek!Items[i].value, d[i].value)
<1>1. PICK n \in Nat, e \in Nat : n = Len(properties) /\ e = Len(d) /\ n <= e
  <2>1. Len(properties) \in Nat
    BY DEF ScannerInv
  <2>2. Len(d) \in Nat
    <3>1. d \in Seq([key : Seq(Geek!Characters), value : Seq(Geek!Characters)])
      BY DocumentsAssumption, Zenon
    <3> QED
      BY <3>1
  <2> QED
    BY <2>1, <2>2 DEF ReadSoFar
<1>2. ASSUME NEW i \in 1 .. n
      PROVE  /\ i \in 1 .. Len(d) /\ i \in 1 .. Len(properties)
             /\ d[i].key \in Seq(Geek!Characters) /\ d[i].value \in Seq(Geek!Characters)
             /\ PlacesIn(T, at[i]) /\ KeyIn(T, d[i].key, at[i]) /\ ValueIn(T, d[i].value, at[i])
             /\ properties[i].key = KeyAt(at[i]) /\ at[i].close <= Len(packet)
  <2>1. i \in 1 .. Len(d) /\ i \in 1 .. Len(properties)
    BY <1>1
  <2>2. d[i].key \in Seq(Geek!Characters) /\ d[i].value \in Seq(Geek!Characters)
    BY <2>1, WellFormedParts, Zenon
  <2>3. PlacesIn(T, at[i]) /\ KeyIn(T, d[i].key, at[i]) /\ ValueIn(T, d[i].value, at[i])
    BY <2>1, Zenon DEF Layout
  <2>4. properties[i].key = KeyAt(at[i]) /\ at[i].close <= Len(packet)
    BY <2>1, Zenon DEF ReadSoFar
  <2> QED
    BY <2>1, <2>2, <2>3, <2>4
<1>3. ASSUME NEW i \in 1 .. n PROVE Geek!Items[i].key = d[i].key
  <2>1. Geek!Text(KeyAt(at[i])) = d[i].key
    BY <1>2, KeyIsRead, Zenon
  <2> QED
    BY <1>2, <2>1, ItemsAre, Zenon
<1>4. ASSUME NEW i \in 1 .. n, properties[i].value = ValueAt(d[i].value, at[i]), at[i].next <= Len(packet)
      PROVE  Geek!SameValue(Geek!Items[i].value, d[i].value)
  <2>1. Geek!SameValue(Geek!Text(ValueAt(d[i].value, at[i])), d[i].value)
    BY <1>2, <1>4, ValueIsRead, Zenon
  <2> QED
    BY <1>2, <1>4, <2>1, ItemsAre, Zenon
<1>5. ASSUME NEW i \in 1 .. n - 1 PROVE Geek!SameValue(Geek!Items[i].value, d[i].value)
  <2>1. PICK k \in 1 .. n : k = i + 1 /\ k > 1 /\ k - 1 = i
    <3>1. i + 1 \in 1 .. n /\ i + 1 > 1 /\ (i + 1) - 1 = i
      OBVIOUS
    <3> QED
      BY <3>1
  <2>2. i \in 1 .. n
    OBVIOUS
  <2>3. properties[i].value = ValueAt(d[i].value, at[i])
    BY <1>1, Zenon DEF ReadSoFar
  <2>4. at[i].next <= Len(packet)
    <3>1. at[k].begin = at[i].next + 1 /\ at[k].close <= Len(packet)
      BY <1>2, <2>1, Zenon DEF Layout
    <3>2. PlacesIn(T, at[k]) /\ PlacesIn(T, at[i])
      BY <1>2, <2>2
    <3>3. Len(T) \in Nat /\ Len(packet) \in Nat
      <4>1. Len(packet) \in Nat
        BY ScannerNumbers
      <4>2. Len(T) \in Int
        BY <4>1 DEF Begins
      <4> QED
        BY <4>1, <4>2
    <3>4. at[k].begin \in Nat /\ at[k].close \in Nat /\ at[i].next \in Nat /\ at[k].begin < at[k].close
      BY <3>2, <3>3, PlacesInOrder
    <3> QED
      BY <3>1, <3>3, <3>4
  <2> QED
    BY <1>4, <2>2, <2>3, <2>4
<1> QED
  BY <1>1, <1>3, <1>4, <1>5

LEMMA SmallerOfTwo ==
  ASSUME NEW a \in Nat, NEW b \in Nat, a <= b
  PROVE  Geek!Min({a, b}) = a /\ Geek!Min({b, a}) = a
<1>1. {a, b} = {b, a}
  OBVIOUS
<1>2. a \in {a, b} /\ \A y \in {a, b} : a <= y
  OBVIOUS
<1>3. PICK m \in {a, b} : m = Geek!Min({a, b}) /\ \A y \in {a, b} : m <= y
  BY <1>2 DEF Geek!Min
<1>4. m <= a /\ a <= m
  BY <1>2, <1>3
<1> QED
  BY <1>1, <1>3, <1>4

LEMMA DocumentsReadAsSent ==
  ASSUME ScannerInv, DecoderTypes, DocumentsInv
  PROVE  Geek!DocumentsAreRead
<1>1. PICK n \in Nat : n = Len(properties) /\ n <= MaxProperties
  <2>1. Len(properties) \in Nat
    BY DEF ScannerInv
  <2> QED
    BY <2>1 DEF DecoderTypes, Geek!TypeOK
<1>2. ASSUME state = "parsed", NEW d \in Documents, NEW pad \in Geek!Pads, NEW T, T = Geek!TextOf(d, pad), Begins(T)
      PROVE  \E start, at : Layout(d, T, start, at) /\ Right(d, T, start, at)
  <2>1. T \in Seq(Geek!Characters)
    BY <1>2, TextIsText, Zenon
  <2>2. PICK start, at : Layout(d, T, start, at)
    BY <1>2, LayoutExists
  <2>3. Right(d, T, start, at)
    BY <1>2, <2>1, <2>2, Zenon DEF DocumentsInv
  <2> QED
    BY <2>2, <2>3
<1>3. ASSUME state = "parsed", NEW d \in Documents, NEW pad \in Geek!Pads, packet = Geek!TextOf(d, pad)
      PROVE  /\ Len(properties) = Geek!Min({Len(d), MaxProperties})
             /\ Geek!ReadUpTo(Len(properties), d)
  <2>1. PICK T : T = Geek!TextOf(d, pad)
    OBVIOUS
  <2>2. Len(packet) \in Nat
    BY ScannerNumbers
  <2>3. Begins(T)
    BY <1>3, <2>1, <2>2 DEF Begins
  <2>4. PICK start, at : Layout(d, T, start, at) /\ Right(d, T, start, at)
    BY <1>2, <1>3, <2>1, <2>3
  <2>5. ReadSoFar(d, at) /\ LastRead(d, at) /\ InPlace(d, start, at)
    BY <1>3, <2>1, <2>2, <2>4 DEF Right, Over
  <2>6. PICK e \in Nat : e = Len(d)
    BY TextIsText
  <2>7. n <= e /\ (n = e \/ n = MaxProperties)
    BY <1>1, <1>3, <2>5, <2>6 DEF ReadSoFar, InPlace
  <2>8. n = Geek!Min({e, MaxProperties})
    <3>1. MaxProperties \in Nat
      BY DocumentsAssumption, Zenon
    <3>2. CASE n = e
      BY <1>1, <3>1, <3>2, SmallerOfTwo
    <3>3. CASE n = MaxProperties
      BY <2>6, <2>7, <3>1, <3>3, SmallerOfTwo
    <3> QED
      BY <2>7, <3>2, <3>3
  <2>9. /\ \A i \in 1 .. n : Geek!Items[i].key = d[i].key
        /\ \A i \in 1 .. n :
             properties[i].value = ValueAt(d[i].value, at[i]) /\ at[i].next <= Len(packet) =>
               Geek!SameValue(Geek!Items[i].value, d[i].value)
        /\ \A i \in 1 .. n - 1 : Geek!SameValue(Geek!Items[i].value, d[i].value)
    BY <1>1, <2>3, <2>4, <2>5, PropertiesRead, Zenon
  <2>10. ASSUME NEW i \in 1 .. n PROVE Geek!SameValue(Geek!Items[i].value, d[i].value)
    <3>1. CASE i < n
      <4>1. i \in 1 .. n - 1
        BY <3>1
      <4> QED
        BY <2>9, <4>1, Zenon
    <3>2. CASE i = n
      <4>1. properties[i].value = ValueAt(d[i].value, at[i])
        BY <1>1, <2>5, <3>2 DEF LastRead
      <4>2. at[i].next <= Len(packet)
        <5>1. i \in 1 .. Len(d)
          BY <2>6, <2>7
        <5>2. PlacesIn(T, at[i])
          BY <2>4, <5>1, Zenon DEF Layout
        <5> QED
          BY <1>3, <2>1, <5>2 DEF PlacesIn
      <4> QED
        BY <2>9, <4>1, <4>2, Zenon
    <3> QED
      BY <3>1, <3>2
  <2>11. Geek!ReadUpTo(n, d)
    BY <2>9, <2>10, Zenon DEF Geek!ReadUpTo
  <2> QED
    BY <1>1, <2>6, <2>8, <2>11
<1>4. ASSUME state = "parsed", NEW d \in Documents, NEW pad \in Geek!Pads,
             Geek!IsPrefix(packet, Geek!TextOf(d, pad))
      PROVE  /\ Len(properties) <= Len(d)
             /\ Geek!ReadUpTo(Len(properties) - 1, d)
             /\ \A i \in DOMAIN properties : Geek!Items[i].key = d[i].key
  <2>1. PICK T : T = Geek!TextOf(d, pad)
    OBVIOUS
  <2>2. T \in Seq(Geek!Characters) /\ packet \in Seq(Geek!Characters)
    BY <2>1, TextIsText DEF ScannerInv
  <2>3. Begins(T)
    <3>1. Len(packet) <= Len(T) /\ SubSeq(packet, 1, Len(packet)) = SubSeq(T, 1, Len(packet))
      BY <1>4, <2>1, Zenon DEF Geek!IsPrefix
    <3>2. PICK m \in Nat : m = Len(packet)
      BY <2>2
    <3>3. \A k \in 1 .. m : SubSeq(T, 1, m)[k] = T[k] /\ SubSeq(packet, 1, m)[k] = packet[k]
      BY <2>2, <3>1, <3>2
    <3> QED
      BY <3>1, <3>2, <3>3 DEF Begins
  <2>4. PICK start, at : Layout(d, T, start, at) /\ Right(d, T, start, at)
    BY <1>2, <1>4, <2>1, <2>3
  <2>5. ReadSoFar(d, at)
    BY <2>4 DEF Right
  <2>6. /\ \A i \in 1 .. n : Geek!Items[i].key = d[i].key
        /\ \A i \in 1 .. n - 1 : Geek!SameValue(Geek!Items[i].value, d[i].value)
    BY <1>1, <2>3, <2>4, <2>5, PropertiesRead, Zenon
  <2>7. \A i \in 1 .. n - 1 : i \in 1 .. n
    OBVIOUS
  <2>8. Geek!ReadUpTo(n - 1, d)
    BY <2>6, <2>7, Zenon DEF Geek!ReadUpTo
  <2>9. DOMAIN properties = 1 .. n
    BY <1>1 DEF ScannerInv
  <2> QED
    BY <1>1, <2>5, <2>6, <2>8, <2>9, Zenon DEF ReadSoFar
<1> QED
  BY <1>3, <1>4, Zenon DEF Geek!DocumentsAreRead, Geek!WellFormedAreRead, Geek!CutOffInventsNothing

LEMMA DocumentsBegin == ASSUME Geek!Init PROVE DocumentsInv
  BY DEF Geek!Init, DocumentsInv

\* A well-formed object is read as what it is, up to max_properties, whatever its
\* strings hold; of a part of one no property is made up, whatever lies behind it
\* (s_parse_json).
THEOREM DocumentsAreReadAsSent == PartsSpec => []DocumentsAreRead
<1>1. PartsInit => DocumentsInv
  BY DocumentsBegin DEF PartsInit
<1>2. ScannerInv /\ DecoderTypes /\ DocumentsInv /\ [PartsNext]_partVars => DocumentsInv'
  <2> SUFFICES ASSUME ScannerInv, DecoderTypes, DocumentsInv, [PartsNext]_partVars PROVE DocumentsInv'
    OBVIOUS
  <2>1. Geek!Next \/ UNCHANGED Geek!geekVars
    BY DEF PartsNext, partVars, geekVars, Geek!geekVars, Geek!scanner
  <2> QED
    BY <2>1, DocumentsStep
<1>3. ScannerInv /\ DecoderTypes /\ DocumentsInv => DocumentsAreRead
  BY DocumentsReadAsSent DEF DocumentsAreRead
<1> QED
  BY <1>1, <1>2, <1>3, ScannerInvariant, DecoderTypesInvariant, PTL DEF PartsSpec

==============================================================================
