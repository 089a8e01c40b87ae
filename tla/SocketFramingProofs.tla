------------------------- MODULE SocketFramingProofs -------------------------
(***************************************************************************)
(* read_from_client stays inside m_buf and, until a call returns in the    *)
(* middle of a message, takes the stream apart where it was put together,  *)
(* for every size of the buffer that holds a header, every set of payloads *)
(* and however the bytes arrive.                                           *)
(*                                                                         *)
(* The types and the bound are inductive together (Bounded).  Aligned says *)
(* which bytes are still to be taken: what is in the buffer, in the socket *)
(* and on the wire is what the messages that were sent and not dispatched  *)
(* make (Remains).  FlattenSeq is a fold, so the lemmas about it are       *)
(* inductions over the number of messages (DataLemmas).                    *)
(***************************************************************************)
EXTENDS SocketFraming, DataLemmas, TLAPS

USE SocketFramingAssumption

\* What a header may claim, where m_cap - US_MESSAGE_HEADER_SIZE does not wrap.
LEMMA LimitIsRest ==
  ASSUME Cap >= HeaderSize, NEW len \in Nat, ~TooLong(len)
  PROVE  HeaderSize + len <= Cap
  <1>1. Cap + Word - HeaderSize \in Nat /\ Cap + Word - HeaderSize >= Word
        /\ Cap + Word - HeaderSize < 2 * Word
    BY DEF HeaderSize
  <1>2. (Cap + Word - HeaderSize) % Word = Cap - HeaderSize
    BY <1>1 DEF HeaderSize
  <1> QED
    BY <1>2 DEF TooLong, HeaderSize

LEMMA EncodeType ==
  ASSUME NEW p \in Payloads
  PROVE  Encode(p) \in Seq(Units)
  <1>1. p \in Seq(Units) /\ Len(p) \in Nat
    OBVIOUS
  <1>2. <<Magic, Len(p)>> \in Seq(Units)
    BY <1>1 DEF Units
  <1> QED
    BY <1>1, <1>2, Joined DEF Encode

\* The reads: while a call is reading, the read is asked for at least one unit
\* and for none behind the buffer.
Bounded == TypeOK /\ WithinBuffer

LEMMA InitBounded == Init => Bounded
  <1> SUFFICES ASSUME Init
               PROVE  Bounded
    OBVIOUS
  <1>1. /\ wire \in Seq(Units) /\ socket \in Seq(Units) /\ buf \in Seq(Units)
        /\ sent \in Seq(Payloads) /\ dispatched \in Seq(Seq(Units))
    BY Empty, Zenon DEF Init
  <1>2. pc = "idle" /\ buf = <<>> /\ hungUp \in BOOLEAN /\ cut \in BOOLEAN
    BY DEF Init
  <1> QED
    BY <1>1, <1>2 DEF Bounded, TypeOK, WithinBuffer, Reading

LEMMA ClientBounded ==
  ASSUME Bounded, (\E p \in Payloads : Send(p)) \/ Arrival \/ HangUp
  PROVE  Bounded'
  <1>1. CASE \E p \in Payloads : Send(p)
    <2>1. PICK p \in Payloads : Send(p)
      BY <1>1
    <2>2. wire' \in Seq(Units) /\ sent' \in Seq(Payloads)
      BY <2>1, EncodeType, Joined DEF Send, Bounded, TypeOK
    <2> QED
      BY <2>1, <2>2 DEF Send, Bounded, TypeOK, WithinBuffer, Reading, Wanted
  <1>2. CASE Arrival
    <2>1. PICK n \in 1 .. Len(wire) : Arrive(n)
      BY <1>2 DEF Arrival
    <2>2. wire' \in Seq(Units) /\ socket' \in Seq(Units)
      BY <2>1, Stretch, Joined DEF Arrive, Bounded, TypeOK
    <2> QED
      BY <2>1, <2>2 DEF Arrive, Bounded, TypeOK, WithinBuffer, Reading, Wanted
  <1>3. CASE HangUp
    BY <1>3 DEF HangUp, Bounded, TypeOK, WithinBuffer, Reading, Wanted
  <1> QED
    BY <1>1, <1>2, <1>3

LEMMA ReadPartBounded ==
  ASSUME Bounded, ReadPart
  PROVE  Bounded'
  <1>1. /\ buf \in Seq(Units) /\ socket \in Seq(Units)
        /\ Reading /\ Len(socket) < Wanted /\ pc' = pc
        /\ buf' = buf \o socket /\ socket' = <<>>
    BY DEF ReadPart, Bounded, TypeOK
  <1>2. /\ buf' \in Seq(Units) /\ Len(buf') = Len(buf) + Len(socket)
        /\ \A i \in 1 .. Len(buf) : buf'[i] = buf[i]
    BY <1>1, Joined
  <1>3. CASE pc = "header"
    <2>1. Len(buf') < HeaderSize
      BY <1>1, <1>2, <1>3 DEF Wanted, HeaderSize
    <2> QED
      BY <1>1, <1>2, <1>3, <2>1
      DEF ReadPart, Bounded, TypeOK, WithinBuffer, Reading, Wanted, HeaderSize, client
  <1>4. CASE pc = "payload"
    <2>1. /\ Len(buf) >= HeaderSize /\ buf[2] \in Nat
          /\ buf'[2] = buf[2] /\ Len(buf') >= HeaderSize
          /\ Len(buf') < HeaderSize + buf'[2]
      BY <1>1, <1>2, <1>4 DEF Bounded, TypeOK, Wanted, HeaderSize
    <2> QED
      BY <1>1, <1>2, <1>4, <2>1
      DEF ReadPart, Bounded, TypeOK, WithinBuffer, Reading, Wanted, HeaderSize, client
  <1> QED
    BY <1>1, <1>3, <1>4 DEF Reading

LEMMA ReadRestBounded ==
  ASSUME Bounded, ReadRest
  PROVE  Bounded'
  <1> DEFINE read == buf \o SubSeq(socket, 1, Wanted)
  <1>1. /\ buf \in Seq(Units) /\ socket \in Seq(Units)
        /\ Reading /\ Wanted \in Nat /\ Wanted <= Len(socket)
    BY DEF ReadRest, Bounded, TypeOK, Reading, Wanted, HeaderSize
  <1>2. /\ read \in Seq(Units) /\ Len(read) = Len(buf) + Wanted
        /\ socket' \in Seq(Units)
    <2>1. /\ SubSeq(socket, 1, Wanted) \in Seq(Units)
          /\ Len(SubSeq(socket, 1, Wanted)) = Wanted
          /\ SubSeq(socket, Wanted + 1, Len(socket)) \in Seq(Units)
      BY <1>1, Stretch
    <2> QED
      BY <1>1, <2>1, Joined DEF ReadRest
  <1>3. UNCHANGED <<client, cut>>
    BY DEF ReadRest
  <1>4. ASSUME Dispatch(read)
        PROVE  Bounded'
    <2>1. /\ dispatched' \in Seq(Seq(Units)) /\ pc' = "header" /\ buf' = <<>>
      <3>1. SubSeq(read, HeaderSize + 1, Len(read)) \in Seq(Units)
        BY <1>2 DEF HeaderSize
      <3>2. dispatched \in Seq(Seq(Units))
        BY DEF Bounded, TypeOK
      <3> HIDE DEF read
      <3> QED
        BY <1>4, <3>1, <3>2, Appended, Zenon DEF Dispatch
    <2> QED
      BY <1>2, <1>3, <2>1 DEF Bounded, TypeOK, WithinBuffer, Reading, Wanted, HeaderSize, client
  <1>5. ASSUME Refuse
        PROVE  Bounded'
    BY <1>2, <1>3, <1>5 DEF Refuse, Bounded, TypeOK, WithinBuffer, Reading, client
  <1>6. ASSUME pc = "header", Acceptable(read), read[2] > 0, pc' = "payload",
               buf' = read, UNCHANGED dispatched
        PROVE  Bounded'
    <2>1. Len(read) = HeaderSize /\ read[2] \in Nat
      BY <1>1, <1>2, <1>6 DEF Bounded, TypeOK, Wanted, Acceptable, HeaderSize
    <2>2. Cap >= HeaderSize => HeaderSize + read[2] <= Cap
      BY <1>6, <2>1, LimitIsRest DEF Acceptable
    <2> HIDE DEF read
    <2>3. TypeOK'
      <3>1. /\ wire' \in Seq(Units) /\ hungUp' \in BOOLEAN /\ cut' \in BOOLEAN
            /\ sent' \in Seq(Payloads) /\ dispatched' \in Seq(Seq(Units))
        BY <1>3, <1>6, Zenon DEF Bounded, TypeOK, client
      <3>2. /\ socket' \in Seq(Units) /\ buf' \in Seq(Units) /\ pc' = "payload"
            /\ Len(buf') = HeaderSize /\ buf'[2] \in Nat /\ buf'[2] > 0
        BY <1>2, <1>6, <2>1
      <3> QED
        BY <3>1, <3>2 DEF TypeOK, HeaderSize
    <2> QED
      BY <1>2, <1>6, <2>1, <2>2, <2>3
      DEF Bounded, TypeOK, WithinBuffer, Reading, Wanted, HeaderSize, client
  <1> QED
    BY <1>4, <1>5, <1>6 DEF ReadRest

LEMMA StepBounded == Bounded /\ [Next]_vars => Bounded'
  <1> SUFFICES ASSUME Bounded, [Next]_vars
               PROVE  Bounded'
    OBVIOUS
  <1>1. CASE (\E p \in Payloads : Send(p)) \/ Arrival \/ HangUp
    BY <1>1, ClientBounded
  <1>2. CASE Call \/ CloseAtEnd \/ ReadNothing \/ ReadEnd
    <2>1. /\ UNCHANGED <<wire, hungUp, sent, socket, dispatched>>
          /\ buf' = <<>> /\ pc' \in {"idle", "header", "closed"}
      BY <1>2 DEF Call, CloseAtEnd, ReadNothing, ReadEnd, Bounded, TypeOK, client
    <2>2. cut' \in BOOLEAN
      BY <1>2, Zenon DEF Call, CloseAtEnd, ReadNothing, ReadEnd, Bounded, TypeOK
    <2>3. buf' \in Seq(Units) /\ Len(buf') = 0
      BY <2>1, Empty
    <2> QED
      BY <2>1, <2>2, <2>3
      DEF Bounded, TypeOK, WithinBuffer, Reading, Wanted, HeaderSize
  <1>3. CASE ReadPart
    BY <1>3, ReadPartBounded
  <1>4. CASE ReadRest
    BY <1>4, ReadRestBounded
  <1>5. CASE UNCHANGED vars
    BY <1>5 DEF vars, client, Bounded, TypeOK, WithinBuffer, Reading, Wanted
  <1> QED
    BY <1>1, <1>2, <1>3, <1>4, <1>5 DEF Next, Server

LEMMA AlwaysBounded == Spec => []Bounded
  BY InitBounded, StepBounded, PTL DEF Spec

\* The types, among them that a call reads a payload only behind a whole
\* header and never goes past the length the header claims.
THEOREM TypeCorrect == Spec => []TypeOK
  <1>1. Bounded => TypeOK
    BY DEF Bounded
  <1> QED
    BY AlwaysBounded, <1>1, PTL

\* No read of read_from_client can write behind m_buf, whatever length a
\* client claims, once the buffer holds a header.
THEOREM ReadsStayInBuffer == Spec => []WithinBuffer
  <1>1. Bounded => WithinBuffer
    BY DEF Bounded
  <1> QED
    BY AlwaysBounded, <1>1, PTL

------------------------------------------------------------------------------
(* The stream of a sequence of payloads.                                   *)

LEMMA StreamEmpty == Stream(<<>>) = <<>>
<1>1. [i \in DOMAIN <<>> |-> Encode(<<>>[i])] = <<>>
  OBVIOUS
<1> QED
  BY <1>1, FlattenEmpty DEF Stream

LEMMA StreamAppended ==
  ASSUME NEW r \in Seq(Payloads), NEW p \in Payloads
  PROVE  Stream(Append(r, p)) = Stream(r) \o Encode(p)
<1> DEFINE Encoded(s) == [i \in DOMAIN s |-> Encode(s[i])]
<1>1. /\ Append(r, p) \in Seq(Payloads) /\ Len(Append(r, p)) = Len(r) + 1
      /\ \A i \in 1 .. Len(r) : Append(r, p)[i] = r[i]
      /\ Append(r, p)[Len(r) + 1] = p
      /\ Len(r) \in Nat
  OBVIOUS
<1>2. ASSUME NEW s \in Seq(Payloads)
      PROVE  /\ Encoded(s) \in Seq(Seq(Units)) /\ Len(Encoded(s)) = Len(s)
             /\ \A i \in 1 .. Len(s) : Encoded(s)[i] = Encode(s[i])
  <2>1. \A i \in 1 .. Len(s) : Encode(s[i]) \in Seq(Units)
    BY EncodeType
  <2>2. DOMAIN s = 1 .. Len(s) /\ Len(s) \in Nat
    OBVIOUS
  <2> QED
    BY <2>1, <2>2
<1>3. PICK es : es = Encoded(r)
  OBVIOUS
<1>4. PICK ts : ts = Encoded(Append(r, p))
  OBVIOUS
<1>5. /\ es \in Seq(Seq(Units)) /\ Len(es) = Len(r)
      /\ \A i \in 1 .. Len(r) : es[i] = Encode(r[i])
  BY <1>2, <1>3
<1>6. /\ ts \in Seq(Seq(Units)) /\ Len(ts) = Len(r) + 1
      /\ \A i \in 1 .. Len(r) + 1 : ts[i] = Encode(Append(r, p)[i])
  <2>1. /\ ts \in Seq(Seq(Units)) /\ Len(ts) = Len(Append(r, p))
        /\ \A i \in 1 .. Len(Append(r, p)) : ts[i] = Encode(Append(r, p)[i])
    BY <1>1, <1>2, <1>4
  <2> QED
    BY <1>1, <2>1
<1>7. Encode(p) \in Seq(Units)
  BY EncodeType
<1>8. ts = Append(es, Encode(p))
  <2>1. /\ Append(es, Encode(p)) \in Seq(Seq(Units)) /\ Len(Append(es, Encode(p))) = Len(r) + 1
        /\ \A i \in 1 .. Len(r) : Append(es, Encode(p))[i] = es[i]
        /\ Append(es, Encode(p))[Len(r) + 1] = Encode(p)
    <3>1. ASSUME NEW T, NEW u \in Seq(T), NEW x \in T
          PROVE  /\ Append(u, x) \in Seq(T) /\ Len(Append(u, x)) = Len(u) + 1
                 /\ \A i \in 1 .. Len(u) : Append(u, x)[i] = u[i]
                 /\ Append(u, x)[Len(u) + 1] = x
      OBVIOUS
    <3> QED
      BY <1>5, <1>7, <3>1
  <2>2. \A i \in 1 .. Len(r) + 1 : i \in 1 .. Len(r) \/ i = Len(r) + 1
    BY <1>1
  <2>3. ASSUME NEW i \in 1 .. Len(r) + 1 PROVE ts[i] = Append(es, Encode(p))[i]
    <3>1. CASE i \in 1 .. Len(r)
      <4>1. Append(r, p)[i] = r[i]
        BY <1>1, <3>1
      <4> QED
        BY <1>5, <1>6, <2>1, <3>1, <4>1
    <3>2. CASE i = Len(r) + 1
      <4>1. Append(r, p)[i] = p
        BY <1>1, <3>2
      <4> QED
        BY <1>6, <2>1, <3>2, <4>1
    <3> QED
      BY <2>2, <3>1, <3>2
  <2>4. \A i \in 1 .. Len(ts) : ts[i] = Append(es, Encode(p))[i]
    BY <1>6, <2>3
  <2> QED
    BY <1>6, <2>1, <2>4, SequencesEqual
<1>9. FlattenSeq(ts) = FlattenSeq(es) \o Encode(p)
  BY <1>5, <1>7, <1>8, FlattenAppended
<1> QED
  BY <1>3, <1>4, <1>9 DEF Stream

LEMMA StreamType ==
  ASSUME NEW r \in Seq(Payloads)
  PROVE  Stream(r) \in Seq(Units)
<1>1. DOMAIN r = 1 .. Len(r) /\ Len(r) \in Nat /\ \A i \in 1 .. Len(r) : r[i] \in Payloads
  OBVIOUS
<1>2. \A i \in 1 .. Len(r) : Encode(r[i]) \in Seq(Units)
  BY <1>1, EncodeType
<1>3. [i \in DOMAIN r |-> Encode(r[i])] \in Seq(Seq(Units))
  BY <1>1, <1>2
<1> QED
  BY <1>3, FlattenType DEF Stream

\* The stream of two sequences, one behind the other.
LEMMA StreamJoined ==
  ASSUME NEW a \in Seq(Payloads), NEW b \in Seq(Payloads)
  PROVE  Stream(a \o b) = Stream(a) \o Stream(b)
<1> DEFINE T == {n \in Nat : \A s \in Seq(Payloads) :
                               Len(s) = n => Stream(a \o s) = Stream(a) \o Stream(s)}
<1>1. 0 \in T
  <2>1. ASSUME NEW s \in Seq(Payloads), Len(s) = 0
        PROVE  Stream(a \o s) = Stream(a) \o Stream(s)
    <3>1. s = <<>>
      BY <2>1
    <3>2. a \o <<>> = a /\ Stream(a) \o <<>> = Stream(a)
      BY EmptyJoined, StreamType
    <3> QED
      BY <3>1, <3>2, StreamEmpty
  <2> QED
    BY <2>1
<1>2. ASSUME NEW n \in Nat, n \in T PROVE n + 1 \in T
  <2>1. ASSUME NEW s \in Seq(Payloads), Len(s) = n + 1
        PROVE  Stream(a \o s) = Stream(a) \o Stream(s)
    <3>1. PICK q \in Seq(Payloads), p \in Payloads : Len(q) = n /\ s = Append(q, p)
      <4>1. /\ SubSeq(s, 1, n) \in Seq(Payloads) /\ s[n + 1] \in Payloads
            /\ Len(SubSeq(s, 1, n)) = n /\ s = Append(SubSeq(s, 1, n), s[n + 1])
        BY <2>1, LastAppended, Zenon
      <4> QED
        BY <4>1, Zenon
    <3>2. Stream(a \o q) = Stream(a) \o Stream(q)
      BY <1>2, <3>1
    <3>3. a \o s = Append(a \o q, p) /\ a \o q \in Seq(Payloads)
      <4>1. ASSUME NEW S, NEW x \in Seq(S), NEW y \in Seq(S), NEW e \in S
            PROVE  x \o Append(y, e) = Append(x \o y, e)
        OBVIOUS
      <4> QED
        BY <3>1, <4>1, Joined
    <3>4. Stream(a \o s) = (Stream(a) \o Stream(q)) \o Encode(p)
      BY <3>2, <3>3, StreamAppended
    <3>5. Stream(s) = Stream(q) \o Encode(p)
      BY <3>1, StreamAppended
    <3>6. (Stream(a) \o Stream(q)) \o Encode(p) = Stream(a) \o (Stream(q) \o Encode(p))
      <4>1. PICK x, y, z \in Seq(Units) : x = Stream(a) /\ y = Stream(q) /\ z = Encode(p)
        BY <3>1, StreamType, EncodeType
      <4>2. (x \o y) \o z = x \o (y \o z)
        OBVIOUS
      <4> QED
        BY <4>1, <4>2
    <3> QED
      BY <3>4, <3>5, <3>6
  <2> QED
    BY <2>1
<1> HIDE DEF T
<1>3. Nat \subseteq T
  BY <1>1, <1>2, AllNatural
<1>4. Len(b) \in Nat
  OBVIOUS
<1>5. Len(b) \in T
  BY <1>3, <1>4
<1> QED
  BY <1>5 DEF T

LEMMA StreamOfOne ==
  ASSUME NEW p \in Payloads
  PROVE  Stream(<<p>>) = Encode(p)
<1>1. <<p>> = Append(<<>>, p) /\ <<>> \in Seq(Payloads)
  OBVIOUS
<1>2. Stream(<<p>>) = <<>> \o Encode(p)
  BY <1>1, StreamAppended, StreamEmpty
<1> QED
  BY <1>2, EncodeType, EmptyJoined

\* The stream of a sequence that is not empty begins with its first message.
LEMMA StreamBegins ==
  ASSUME NEW r \in Seq(Payloads), r # <<>>
  PROVE  /\ r[1] \in Payloads /\ Tail(r) \in Seq(Payloads) /\ r = <<r[1]>> \o Tail(r)
         /\ Stream(r) = Encode(r[1]) \o Stream(Tail(r))
<1>1. /\ r[1] \in Payloads /\ Tail(r) \in Seq(Payloads) /\ r = <<r[1]>> \o Tail(r)
      /\ <<r[1]>> \in Seq(Payloads)
  BY FirstAndRest
<1>2. Stream(<<r[1]>> \o Tail(r)) = Stream(<<r[1]>>) \o Stream(Tail(r))
  BY <1>1, StreamJoined
<1>3. Stream(<<r[1]>>) = Encode(r[1])
  BY <1>1, StreamOfOne
<1> QED
  BY <1>1, <1>2, <1>3

LEMMA EncodeParts ==
  ASSUME NEW p \in Payloads
  PROVE  /\ Len(p) \in Nat /\ Len(Encode(p)) = HeaderSize + Len(p)
         /\ Encode(p)[1] = Magic /\ Encode(p)[2] = Len(p)
         /\ SubSeq(Encode(p), HeaderSize + 1, Len(Encode(p))) = p
<1>1. p \in Seq(Units) /\ Len(p) \in Nat
  OBVIOUS
<1>2. PICK header \in Seq(Units) :
        /\ header = <<Magic, Len(p)>>
        /\ Len(header) = 2 /\ header[1] = Magic /\ header[2] = Len(p)
  <2>1. <<Magic, Len(p)>> \in Seq(Units)
    BY <1>1 DEF Units
  <2> QED
    BY <2>1
<1>3. /\ header \o p \in Seq(Units) /\ Len(header \o p) = 2 + Len(p)
      /\ (header \o p)[1] = Magic /\ (header \o p)[2] = Len(p)
  BY <1>1, <1>2, Joined
<1>4. \A i \in 1 .. Len(p) : (header \o p)[2 + i] = p[i]
  BY <1>1, <1>2, JoinedBehind
<1>5. SubSeq(header \o p, 3, 2 + Len(p)) = p
  <2>1. PICK e \in Seq(Units) : e = header \o p
    BY <1>3
  <2>2. /\ SubSeq(e, 3, 2 + Len(p)) \in Seq(Units) /\ Len(SubSeq(e, 3, 2 + Len(p))) = Len(p)
        /\ \A i \in 1 .. Len(p) : SubSeq(e, 3, 2 + Len(p))[i] = e[2 + i]
    BY <1>1, <1>3, <2>1
  <2>3. \A i \in 1 .. Len(p) : SubSeq(e, 3, 2 + Len(p))[i] = p[i]
    BY <1>4, <2>1, <2>2
  <2> QED
    BY <1>1, <2>1, <2>2, <2>3, SequencesEqual
<1>6. Encode(p) = header \o p
  BY <1>2 DEF Encode
<1> QED
  BY <1>1, <1>3, <1>5, <1>6 DEF HeaderSize

------------------------------------------------------------------------------
(* The stream is taken apart where it was put together.                    *)

LEMMA FitsIsNotTooLong ==
  ASSUME NEW len \in Nat, HeaderSize + len <= Cap
  PROVE  ~TooLong(len)
<1>1. Cap + Word - HeaderSize \in Nat /\ Cap + Word - HeaderSize >= Word
      /\ Cap + Word - HeaderSize < 2 * Word
  BY DEF HeaderSize
<1>2. (Cap + Word - HeaderSize) % Word = Cap - HeaderSize
  BY <1>1 DEF HeaderSize
<1> QED
  BY <1>2 DEF TooLong, HeaderSize

\* What is at the beginning of a stream, once a header's worth is read.
LEMMA FirstMessage ==
  ASSUME NEW r \in Seq(Payloads), NEW read \in Seq(Units), NEW rest \in Seq(Units),
         read \o rest = Stream(r), Len(read) >= HeaderSize
  PROVE  /\ r # <<>> /\ r[1] \in Payloads
         /\ read[1] = Magic /\ read[2] = Len(r[1])
<1>1. Len(read) \in Nat /\ Len(rest) \in Nat /\ Len(read) >= 2
  BY DEF HeaderSize
<1>2. /\ Len(read \o rest) = Len(read) + Len(rest)
      /\ \A i \in 1 .. Len(read) : (read \o rest)[i] = read[i]
  BY Joined
<1>3. r # <<>>
  <2>1. ASSUME r = <<>> PROVE FALSE
    <3>1. Stream(r) = <<>>
      BY <2>1, StreamEmpty
    <3>2. Len(Stream(r)) = 0
      BY <3>1
    <3>3. Len(Stream(r)) = Len(read) + Len(rest)
      BY <1>2, Zenon
    <3>4. Len(read) + Len(rest) = 0
      BY <3>2, <3>3, Zenon
    <3>5. PICK k, l \in Nat : k = Len(read) /\ l = Len(rest)
      BY <1>1
    <3>6. k + l = 0 /\ k >= 2
      BY <1>1, <3>4, <3>5
    <3> QED
      BY <3>6
  <2> QED
    BY <2>1
<1>4. PICK p \in Payloads : /\ p = r[1] /\ Tail(r) \in Seq(Payloads)
                            /\ Stream(r) = Encode(p) \o Stream(Tail(r))
  BY <1>3, StreamBegins
<1>5. /\ Len(p) \in Nat /\ Len(Encode(p)) = HeaderSize + Len(p)
      /\ Encode(p)[1] = Magic /\ Encode(p)[2] = Len(p)
      /\ Encode(p) \in Seq(Units) /\ Stream(Tail(r)) \in Seq(Units)
  BY <1>4, EncodeParts, EncodeType, StreamType
<1>6. \A i \in 1 .. Len(Encode(p)) : (Encode(p) \o Stream(Tail(r)))[i] = Encode(p)[i]
  BY <1>5, Joined
<1>7. 1 \in 1 .. Len(read) /\ 2 \in 1 .. Len(read)
      /\ 1 \in 1 .. Len(Encode(p)) /\ 2 \in 1 .. Len(Encode(p))
  BY <1>1, <1>5 DEF HeaderSize
<1>8. read[1] = Encode(p)[1] /\ read[2] = Encode(p)[2]
  BY <1>2, <1>4, <1>6, <1>7
<1> QED
  BY <1>3, <1>4, <1>5, <1>8

\* A message that is read whole is the first one that was not dispatched.
LEMMA WholeMessage ==
  ASSUME NEW r \in Seq(Payloads), NEW read \in Seq(Units), NEW rest \in Seq(Units),
         read \o rest = Stream(r), Len(read) >= HeaderSize, Len(read) = HeaderSize + read[2]
  PROVE  /\ r # <<>> /\ r[1] \in Payloads /\ Tail(r) \in Seq(Payloads)
         /\ SubSeq(read, HeaderSize + 1, Len(read)) = r[1]
         /\ rest = Stream(Tail(r))
<1>1. r # <<>> /\ read[2] = Len(r[1])
  BY FirstMessage
<1>2. PICK p \in Payloads : /\ p = r[1] /\ Tail(r) \in Seq(Payloads)
                            /\ Stream(r) = Encode(p) \o Stream(Tail(r))
  BY <1>1, StreamBegins
<1>3. /\ Len(Encode(p)) = HeaderSize + Len(p)
      /\ SubSeq(Encode(p), HeaderSize + 1, Len(Encode(p))) = p
      /\ Encode(p) \in Seq(Units) /\ Stream(Tail(r)) \in Seq(Units)
  BY <1>2, EncodeParts, EncodeType, StreamType
<1>4. Len(read) = Len(Encode(p)) /\ read \o rest = Encode(p) \o Stream(Tail(r))
  BY <1>1, <1>2, <1>3
<1>5. read = Encode(p) /\ rest = Stream(Tail(r))
  BY <1>3, <1>4, CutsAgree
<1> QED
  BY <1>1, <1>2, <1>3, <1>5

\* What remains of what was sent: r, of which the bytes are in the buffer, in
\* the socket and on the wire.
Remains(r) ==
  /\ dispatched \in Seq(Payloads) /\ sent = dispatched \o r
  /\ Open => buf \o socket \o wire = Stream(r)
  /\ pc = "refused" => r # <<>> /\ ~Fits(r[1])

Aligned == ~cut => \E r \in Seq(Payloads) : Remains(r)

LEMMA SendAligned ==
  ASSUME TypeOK, NEW r \in Seq(Payloads), Remains(r), NEW p \in Payloads, Send(p)
  PROVE  Append(r, p) \in Seq(Payloads) /\ Remains(Append(r, p))'
<1>1. /\ Open /\ wire' = wire \o Encode(p) /\ sent' = Append(sent, p)
      /\ UNCHANGED <<socket, pc, buf, dispatched>>
  BY DEF Send
<1>2. Append(r, p) \in Seq(Payloads)
  BY Appended
<1>3. sent' = dispatched' \o Append(r, p) /\ dispatched' \in Seq(Payloads)
  <2>1. ASSUME NEW S, NEW x \in Seq(S), NEW y \in Seq(S), NEW e \in S
        PROVE  x \o Append(y, e) = Append(x \o y, e)
    OBVIOUS
  <2>2. sent = dispatched \o r /\ dispatched \in Seq(Payloads)
    BY DEF Remains
  <2>3. dispatched \o Append(r, p) = Append(dispatched \o r, p)
    BY <2>1, <2>2
  <2> QED
    BY <1>1, <2>2, <2>3
<1>4. buf' \o socket' \o wire' = Stream(Append(r, p))
  <2>1. PICK x, y, z \in Seq(Units) : x = buf \o socket /\ y = wire /\ z = Encode(p)
    <3>1. buf \o socket \in Seq(Units) /\ wire \in Seq(Units) /\ Encode(p) \in Seq(Units)
      BY Joined, EncodeType DEF TypeOK
    <3> QED
      BY <3>1
  <2>2. x \o (y \o z) = (x \o y) \o z
    OBVIOUS
  <2>3. x \o y = Stream(r)
    BY <1>1, <2>1 DEF Remains
  <2>4. Stream(Append(r, p)) = Stream(r) \o z
    BY <2>1, StreamAppended
  <2> QED
    BY <1>1, <2>1, <2>2, <2>3, <2>4
<1> QED
  BY <1>1, <1>2, <1>3, <1>4 DEF Remains, Open

\* Units that move from the wire to the socket, or from there to the buffer,
\* keep their order.
LEMMA ArriveAligned ==
  ASSUME TypeOK, NEW r \in Seq(Payloads), Remains(r), NEW n \in 1 .. Len(wire), Arrive(n)
  PROVE  Remains(r)'
<1>1. /\ Open /\ UNCHANGED <<sent, pc, buf, dispatched>>
      /\ socket' = socket \o SubSeq(wire, 1, n)
      /\ wire' = SubSeq(wire, n + 1, Len(wire))
  BY DEF Arrive
<1>2. n \in Nat /\ n <= Len(wire) /\ wire \in Seq(Units)
  BY DEF TypeOK
<1>3. PICK x, y, z, w \in Seq(Units) :
        x = buf /\ y = socket /\ z = SubSeq(wire, 1, n) /\ w = SubSeq(wire, n + 1, Len(wire))
  BY <1>2, Stretch DEF TypeOK
<1>4. wire = z \o w
  BY <1>2, <1>3, CutInTwo
<1>5. x \o (y \o z) \o w = x \o y \o (z \o w)
  <2>1. Regrouped(x, y, z, w)
    BY FourJoined
  <2> QED
    BY <2>1 DEF Regrouped
<1>6. buf' \o socket' \o wire' = buf \o socket \o wire
  BY <1>1, <1>3, <1>4, <1>5
<1> QED
  BY <1>1, <1>6 DEF Remains, Open

LEMMA ReadPartAligned ==
  ASSUME TypeOK, NEW r \in Seq(Payloads), Remains(r), ReadPart
  PROVE  Remains(r)'
<1>1. UNCHANGED <<sent, wire, pc, dispatched>> /\ buf' = buf \o socket /\ socket' = <<>>
  BY DEF ReadPart, client
<1>2. buf \o socket \in Seq(Units)
  BY Joined DEF TypeOK
<1>3. (buf \o socket) \o <<>> = buf \o socket
  BY <1>2, EmptyJoined
<1>4. buf' \o socket' \o wire' = buf \o socket \o wire
  BY <1>1, <1>3
<1> QED
  BY <1>1, <1>4 DEF Remains, Open

LEMMA ReadRestAligned ==
  ASSUME TypeOK, NEW r \in Seq(Payloads), Remains(r), ReadRest
  PROVE  \E q \in Seq(Payloads) : Remains(q)'
<1> DEFINE read == buf \o SubSeq(socket, 1, Wanted)
<1>1. /\ buf \in Seq(Units) /\ socket \in Seq(Units) /\ wire \in Seq(Units)
      /\ Reading /\ Open /\ Wanted \in Nat /\ Wanted <= Len(socket)
      /\ Len(buf) \in Nat
  <2>1. /\ buf \in Seq(Units) /\ socket \in Seq(Units) /\ wire \in Seq(Units)
        /\ Reading /\ Wanted <= Len(socket)
    BY DEF ReadRest, TypeOK
  <2>2. Open
    BY <2>1 DEF Open, Reading
  <2>3. Len(buf) \in Nat
    BY <2>1
  <2>4. Wanted \in Nat
    BY <2>1, <2>3 DEF TypeOK, Reading, Wanted, HeaderSize
  <2> QED
    BY <2>1, <2>2, <2>3, <2>4
<1>2. /\ socket' = SubSeq(socket, Wanted + 1, Len(socket)) /\ socket' \in Seq(Units)
      /\ SubSeq(socket, 1, Wanted) \in Seq(Units)
      /\ Len(SubSeq(socket, 1, Wanted)) = Wanted
      /\ socket = SubSeq(socket, 1, Wanted) \o socket'
  BY <1>1, Stretch, CutInTwo DEF ReadRest
<1>3. UNCHANGED <<sent, wire>>
  BY DEF ReadRest, client
<1>4. PICK m \in Seq(Units) :
        /\ m = read /\ Len(m) = Len(buf) + Wanted
        /\ \A i \in 1 .. Len(buf) : m[i] = buf[i]
  <2>1. PICK y \in Seq(Units) : y = SubSeq(socket, 1, Wanted) /\ Len(y) = Wanted
    BY <1>2
  <2>2. /\ buf \o y \in Seq(Units) /\ Len(buf \o y) = Len(buf) + Len(y)
        /\ \A i \in 1 .. Len(buf) : (buf \o y)[i] = buf[i]
    BY <1>1, Joined
  <2> QED
    BY <2>1, <2>2
<1>5. m \o (socket' \o wire) = Stream(r) /\ m \o socket' \o wire = Stream(r)
      /\ socket' \o wire \in Seq(Units)
  <2>1. PICK x, y, z, w \in Seq(Units) :
          x = buf /\ y = SubSeq(socket, 1, Wanted) /\ z = socket' /\ w = wire
    BY <1>1, <1>2
  <2>2. /\ x \o (y \o z) \o w = (x \o y) \o (z \o w)
        /\ x \o (y \o z) \o w = (x \o y) \o z \o w
        /\ z \o w \in Seq(Units)
    <3>1. Regrouped(x, y, z, w)
      BY FourJoined
    <3>2. z \o w \in Seq(Units)
      BY Joined
    <3> QED
      BY <3>1, <3>2 DEF Regrouped
  <2>3. x \o (y \o z) \o w = Stream(r)
    BY <1>1, <1>2, <2>1 DEF Remains
  <2> QED
    BY <1>4, <2>1, <2>2, <2>3
<1>6. /\ Len(m) >= HeaderSize
      /\ pc = "header" => Len(m) = HeaderSize
      /\ pc = "payload" => Len(m) = HeaderSize + m[2]
  <2>1. CASE pc = "header"
    BY <1>1, <1>4, <2>1 DEF Wanted, HeaderSize
  <2>2. CASE pc = "payload"
    <3>1. Len(buf) >= HeaderSize /\ buf[2] \in Nat /\ m[2] = buf[2]
      BY <1>1, <1>4, <2>2 DEF TypeOK, HeaderSize
    <3> QED
      BY <1>1, <1>4, <2>2, <3>1 DEF Wanted, HeaderSize
  <2> QED
    BY <1>1, <2>1, <2>2 DEF Reading
<1>7. r # <<>> /\ r[1] \in Payloads /\ m[1] = Magic /\ m[2] = Len(r[1])
  BY <1>5, <1>6, FirstMessage
<1>8. ASSUME Dispatch(m), Len(m) = HeaderSize + m[2] PROVE Remains(Tail(r))'
  <2>1. /\ Tail(r) \in Seq(Payloads)
        /\ SubSeq(m, HeaderSize + 1, Len(m)) = r[1]
        /\ socket' \o wire = Stream(Tail(r))
    BY <1>5, <1>6, <1>8, WholeMessage
  <2>2. dispatched' = Append(dispatched, r[1]) /\ pc' = "header" /\ buf' = <<>>
    BY <1>8, <2>1 DEF Dispatch
  <2>3. dispatched' \in Seq(Payloads) /\ sent = dispatched' \o Tail(r)
    <3>1. dispatched \in Seq(Payloads) /\ sent = dispatched \o r
      BY DEF Remains
    <3>2. r = <<r[1]>> \o Tail(r)
      BY <1>7, StreamBegins
    <3>3. dispatched \o (<<r[1]>> \o Tail(r)) = Append(dispatched, r[1]) \o Tail(r)
      <4>1. Moved(dispatched, r[1], Tail(r))
        BY <1>7, <2>1, <3>1, MovedOver
      <4> QED
        BY <4>1 DEF Moved
    <3>4. Append(dispatched, r[1]) \in Seq(Payloads)
      BY <1>7, <3>1, Appended
    <3> QED
      BY <2>2, <3>1, <3>2, <3>3, <3>4
  <2>4. buf' \o socket' \o wire = Stream(Tail(r))
    BY <1>2, <2>1, <2>2, EmptyJoined
  <2> QED
    BY <1>3, <2>2, <2>3, <2>4 DEF Remains
<1>9. ASSUME pc = "header", ~Acceptable(m), Refuse PROVE Remains(r)'
  <2>1. Len(r[1]) \in Nat
    BY <1>7
  <2>2. TooLong(Len(r[1]))
    BY <1>7, <1>9, <2>1 DEF Acceptable
  <2>3. ~Fits(r[1])
    BY <2>1, <2>2, FitsIsNotTooLong DEF Fits
  <2> QED
    BY <1>3, <1>7, <1>9, <2>3 DEF Refuse, Remains, Open
<1>10. ASSUME pc' = "payload", buf' = m, UNCHANGED dispatched PROVE Remains(r)'
  BY <1>3, <1>5, <1>10 DEF Remains
<1>11. \/ pc = "header" /\ Acceptable(m) /\ pc' = "payload" /\ buf' = m /\ UNCHANGED dispatched
       \/ pc = "header" /\ m[2] = 0 /\ Dispatch(m)
       \/ pc = "header" /\ ~Acceptable(m) /\ Refuse
       \/ pc = "payload" /\ Dispatch(m)
  BY <1>4 DEF ReadRest
<1>12. CASE Dispatch(m) /\ Len(m) = HeaderSize + m[2]
  <2>1. Tail(r) \in Seq(Payloads)
    BY <1>7, StreamBegins
  <2> QED
    BY <1>8, <1>12, <2>1
<1>13. pc = "header" /\ m[2] = 0 => Len(m) = HeaderSize + m[2]
  BY <1>6 DEF HeaderSize
<1> QED
  BY <1>6, <1>9, <1>10, <1>11, <1>12, <1>13

LEMMA StepAligned == ASSUME TypeOK, Aligned, [Next]_vars PROVE Aligned'
<1> SUFFICES ASSUME ~cut' PROVE \E q \in Seq(Payloads) : Remains(q)'
  BY DEF Aligned
<1>1. ~cut
  BY DEF Next, Send, Arrival, Arrive, HangUp, Server, Call, CloseAtEnd, ReadPart, ReadRest,
         ReadNothing, ReadEnd, vars
<1>2. PICK r \in Seq(Payloads) : Remains(r)
  BY <1>1 DEF Aligned
<1>3. CASE \E p \in Payloads : Send(p)
  BY <1>2, <1>3, SendAligned
<1>4. CASE Arrival
  BY <1>2, <1>4, ArriveAligned DEF Arrival
<1>5. CASE HangUp \/ Call \/ ReadNothing \/ UNCHANGED vars
  <2>1. /\ UNCHANGED <<wire, socket, sent, dispatched>>
        /\ pc' = "refused" => pc = "refused"
        /\ pc' \notin {"closed", "refused"} => Open
    BY <1>5 DEF HangUp, Call, ReadNothing, vars, client, Open, Reading
  <2>2. buf' = buf
    BY <1>1, <1>5 DEF HangUp, Call, ReadNothing, vars
  <2>3. Remains(r)'
    BY <1>2, <2>1, <2>2 DEF Remains, Open
  <2> QED
    BY <2>3
<1>6. CASE CloseAtEnd \/ ReadEnd
  <2>1. UNCHANGED <<sent, dispatched>> /\ pc' = "closed"
    BY <1>6 DEF CloseAtEnd, ReadEnd, client
  <2>2. Remains(r)'
    BY <1>2, <2>1 DEF Remains, Open
  <2> QED
    BY <2>2
<1>7. CASE ReadPart
  BY <1>2, <1>7, ReadPartAligned
<1>8. CASE ReadRest
  BY <1>2, <1>8, ReadRestAligned
<1> QED
  BY <1>3, <1>4, <1>5, <1>6, <1>7, <1>8 DEF Next, Server

LEMMA InitAligned == ASSUME Init PROVE Aligned
<1>1. <<>> \in Seq(Payloads) /\ <<>> \in Seq(Units)
  BY Empty
<1>2. <<>> \o <<>> \o <<>> = <<>>
  OBVIOUS
<1>3. Remains(<<>>)
  BY <1>1, <1>2, StreamEmpty DEF Init, Remains
<1> QED
  BY <1>1, <1>3 DEF Aligned

LEMMA AlwaysAligned == Spec => []Aligned
<1>1. Bounded => TypeOK
  BY DEF Bounded
<1>2. TypeOK /\ Aligned /\ [Next]_vars => Aligned'
  BY StepAligned
<1>3. Init => Aligned
  BY InitAligned
<1> QED
  BY AlwaysBounded, <1>1, <1>2, <1>3, PTL DEF Spec

LEMMA AlignedConserves == ASSUME TypeOK, Aligned PROVE StreamConserved
<1> SUFFICES ASSUME ~cut, Open
             PROVE  Stream(dispatched) \o buf \o socket \o wire = Stream(sent)
  BY DEF StreamConserved
<1>1. PICK r \in Seq(Payloads) : Remains(r)
  BY DEF Aligned
<1>2. dispatched \in Seq(Payloads) /\ sent = dispatched \o r
      /\ buf \o socket \o wire = Stream(r)
  BY <1>1 DEF Remains
<1>3. Stream(sent) = Stream(dispatched) \o Stream(r)
  BY <1>2, StreamJoined
<1>4. PICK x, y, z, w \in Seq(Units) :
        x = Stream(dispatched) /\ y = buf /\ z = socket /\ w = wire
  BY <1>2, StreamType DEF TypeOK
<1>5. x \o y \o z \o w = x \o (y \o z \o w)
  <2>1. x \o y \o z = x \o (y \o z)
    OBVIOUS
  <2>2. PICK v \in Seq(Units) : v = y \o z
    BY Joined
  <2>3. x \o v \o w = x \o (v \o w)
    OBVIOUS
  <2> QED
    BY <2>1, <2>2, <2>3
<1> QED
  BY <1>2, <1>3, <1>4, <1>5

LEMMA AlignedRefuses == ASSUME Aligned PROVE RefusedOnlyIfTooLong
<1> SUFFICES ASSUME ~cut, pc = "refused"
             PROVE  /\ IsPrefix(dispatched, sent)
                    /\ Len(dispatched) < Len(sent)
                    /\ ~Fits(sent[Len(dispatched) + 1])
  BY DEF RefusedOnlyIfTooLong
<1>1. PICK r \in Seq(Payloads) : Remains(r)
  BY DEF Aligned
<1>2. /\ dispatched \in Seq(Payloads) /\ sent = dispatched \o r
      /\ r # <<>> /\ ~Fits(r[1])
  BY <1>1 DEF Remains
<1>3. Len(r) \in Nat /\ Len(r) > 0 /\ Len(dispatched) \in Nat
  BY <1>2
<1>4. /\ sent \in Seq(Payloads) /\ Len(sent) = Len(dispatched) + Len(r)
      /\ \A i \in 1 .. Len(dispatched) : sent[i] = dispatched[i]
  BY <1>2, Joined
<1>5. sent[Len(dispatched) + 1] = r[1]
  BY <1>2, <1>3, JoinedBehind
<1>6. SubSeq(dispatched, 1, Len(dispatched)) = SubSeq(sent, 1, Len(dispatched))
  <2>1. Len(dispatched) <= Len(sent)
    BY <1>3, <1>4
  <2> QED
    BY <1>2, <1>3, <1>4, <2>1
<1> QED
  BY <1>2, <1>3, <1>4, <1>5, <1>6 DEF IsPrefix

\* Until a call returns in the middle of a message, nothing of the stream is
\* lost, doubled or cut wrongly, for every set of payloads, every size of the
\* buffer and however the bytes arrive and are read.
THEOREM StreamIsConserved == Spec => []StreamConserved
<1>1. Bounded => TypeOK
  BY DEF Bounded
<1>2. TypeOK /\ Aligned => StreamConserved
  BY AlignedConserves
<1> QED
  BY AlwaysBounded, AlwaysAligned, <1>1, <1>2, PTL

\* Until then a connection is refused for a message that does not fit into
\* m_buf and for no other, and everything before it was dispatched.
THEOREM OnlyLongMessagesRefused == Spec => []RefusedOnlyIfTooLong
<1>1. Aligned => RefusedOnlyIfTooLong
  BY AlignedRefuses
<1> QED
  BY AlwaysAligned, <1>1, PTL

==============================================================================
