---------------------------- MODULE SocketFraming ----------------------------
(***************************************************************************)
(* How read_from_client of unix_socket_server.cpp takes the messages of one *)
(* connection apart.  A message is a header, which has a magic number and   *)
(* the length of the payload, and the payload.  The bytes come in pieces    *)
(* that have nothing to do with the messages, the descriptor does not       *)
(* block, and what was read of a message lives in m_buf for one call only.  *)
(*                                                                          *)
(* Bytes are units: Magic, or a number, which may be a length or data.  A   *)
(* header is two units long; its type and flags, which the code does not    *)
(* look at, are left out.                                                   *)
(***************************************************************************)
EXTENDS Naturals, Sequences, SequencesExt

CONSTANTS Magic,        \* US_MESSAGE_MAGIC
          Payloads,     \* the payloads the client sends
          Cap,          \* m_cap, the size of m_buf
          Word,         \* 2^32, where u32 wraps
          MaxMessages   \* bound: the messages the client sends

Units == Nat \cup {Magic}
HeaderSize == 2         \* US_MESSAGE_HEADER_SIZE

ASSUME SocketFramingAssumption ==
  /\ Magic \notin Nat
  /\ Payloads \subseteq Seq(Units)
  /\ Word \in Nat /\ HeaderSize < Word
  /\ Cap \in Nat \ {0} /\ Cap < Word
  /\ MaxMessages \in Nat

VARIABLES
  wire,       \* sent and not yet arrived
  socket,     \* arrived and not yet read
  hungUp,     \* the client closed its end
  pc,         \* read_from_client: not called, or what it is reading
  buf,        \* what this call has put into m_buf: hn or 32 + bn units
  sent,       \* history: the payloads sent
  dispatched, \* history: the payloads passed to on_msg
  cut         \* history: a call returned in the middle of a message

client == <<wire, hungUp, sent>>
vars == <<client, socket, pc, buf, dispatched, cut>>

TypeOK ==
  /\ wire \in Seq(Units) /\ socket \in Seq(Units)
  /\ hungUp \in BOOLEAN /\ cut \in BOOLEAN
  /\ pc \in {"idle", "header", "payload", "closed", "refused"}
  /\ buf \in Seq(Units)
  /\ pc \in {"idle", "closed", "refused"} => buf = <<>>
  /\ pc = "header" => Len(buf) < HeaderSize
  /\ pc = "payload" => /\ Len(buf) >= HeaderSize /\ buf[2] \in Nat
                       /\ Len(buf) < HeaderSize + buf[2]
  /\ sent \in Seq(Payloads) /\ dispatched \in Seq(Seq(Units))

Init ==
  /\ wire = <<>> /\ socket = <<>> /\ hungUp = FALSE
  /\ pc = "idle" /\ buf = <<>>
  /\ sent = <<>> /\ dispatched = <<>> /\ cut = FALSE

------------------------------------------------------------------------------
(* The client and the network.                                             *)
Open == pc \notin {"closed", "refused"}

Encode(p) == <<Magic, Len(p)>> \o p

Send(p) ==
  /\ ~hungUp /\ Open
  /\ Len(sent) < MaxMessages
  /\ wire' = wire \o Encode(p)
  /\ sent' = Append(sent, p)
  /\ UNCHANGED <<socket, hungUp, pc, buf, dispatched, cut>>

Arrive(n) ==
  /\ Open
  /\ socket' = socket \o SubSeq(wire, 1, n)
  /\ wire' = SubSeq(wire, n + 1, Len(wire))
  /\ UNCHANGED <<hungUp, pc, buf, sent, dispatched, cut>>

HangUp ==
  /\ ~hungUp /\ Open
  /\ hungUp' = TRUE
  /\ UNCHANGED <<wire, socket, pc, buf, sent, dispatched, cut>>

AtEnd == hungUp /\ wire = <<>>

------------------------------------------------------------------------------
(* read_from_client, one read a step.                                      *)
\* Mutant: it is called when there is more than a header.
CallForMore ==
  /\ pc = "idle" /\ Len(socket) > HeaderSize /\ ~AtEnd
  /\ pc' = "header"
  /\ UNCHANGED <<client, socket, buf, dispatched, cut>>

\* us_loop_run calls it for an event without EV_EOF.
Call ==
  /\ pc = "idle" /\ socket # <<>> /\ ~AtEnd
  /\ pc' = "header"
  /\ UNCHANGED <<client, socket, buf, dispatched, cut>>

\* For an event with EV_EOF it closes the connection, whatever is unread.
CloseAtEnd ==
  /\ pc = "idle" /\ AtEnd
  /\ pc' = "closed"
  /\ UNCHANGED <<client, socket, buf, dispatched, cut>>

Reading == pc \in {"header", "payload"}

\* Mutant: every read asks for the whole.
WantedWhole == IF pc = "header" THEN HeaderSize ELSE HeaderSize + buf[2]

\* What the read may return at most.
Wanted ==
  IF pc = "header" THEN HeaderSize - Len(buf) ELSE HeaderSize + buf[2] - Len(buf)

\* There is less: the loop reads again.
ReadPart ==
  /\ Reading
  /\ socket # <<>> /\ Len(socket) < Wanted
  /\ buf' = buf \o socket
  /\ socket' = <<>>
  /\ UNCHANGED <<client, pc, dispatched, cut>>

\* Mutants: the header is not taken off the size of m_buf; a payload that
\* fills it is refused.
LongerThanBuffer(len) == len > Cap
FillsBuffer(len) == len >= (Cap + Word - HeaderSize) % Word

\* payload_len > m_cap - US_MESSAGE_HEADER_SIZE, in 32 bits without sign.
TooLong(len) == len > (Cap + Word - HeaderSize) % Word

\* The length Magic, read as a number, is larger than any buffer.
Acceptable(header) ==
  /\ header[1] = Magic
  /\ header[2] \in Nat
  /\ ~TooLong(header[2])

\* Mutant: the message begins behind the magic number.
DispatchLength(message) ==
  /\ dispatched' = Append(dispatched, SubSeq(message, HeaderSize, Len(message)))
  /\ pc' = "header"
  /\ buf' = <<>>

\* on_msg is called with the whole message, and the loop begins again.
Dispatch(message) ==
  /\ dispatched' = Append(dispatched, SubSeq(message, HeaderSize + 1, Len(message)))
  /\ pc' = "header"
  /\ buf' = <<>>

Refuse ==
  /\ pc' = "refused"
  /\ buf' = <<>>
  /\ UNCHANGED dispatched

\* All that was wanted is there.
ReadRest ==
  LET read == buf \o SubSeq(socket, 1, Wanted)
  IN  /\ Reading
      /\ Len(socket) >= Wanted
      /\ socket' = SubSeq(socket, Wanted + 1, Len(socket))
      /\ \/ /\ pc = "header" /\ Acceptable(read) /\ read[2] > 0
            /\ pc' = "payload"
            /\ buf' = read
            /\ UNCHANGED dispatched
         \/ pc = "header" /\ Acceptable(read) /\ read[2] = 0 /\ Dispatch(read)
         \/ pc = "header" /\ ~Acceptable(read) /\ Refuse
         \/ pc = "payload" /\ Dispatch(read)
      /\ UNCHANGED <<client, cut>>

\* read returns EAGAIN, and so does the function: the next call begins with a
\* header again, wherever this one was.
ReadNothing ==
  /\ Reading
  /\ socket = <<>> /\ ~AtEnd
  /\ pc' = "idle"
  /\ buf' = <<>>
  /\ cut' = (cut \/ buf # <<>>)
  /\ UNCHANGED <<client, socket, dispatched>>

\* read returns 0 or fails.
ReadEnd ==
  /\ Reading
  /\ socket = <<>> /\ AtEnd
  /\ pc' = "closed"
  /\ buf' = <<>>
  /\ UNCHANGED <<client, socket, dispatched, cut>>

Arrival == \E n \in 1 .. Len(wire) : Arrive(n)
Server == Call \/ CloseAtEnd \/ ReadPart \/ ReadRest \/ ReadNothing \/ ReadEnd

Next == (\E p \in Payloads : Send(p)) \/ Arrival \/ HangUp \/ Server

Spec == Init /\ [][Next]_vars

\* What was sent arrives, and the loop is run.
FairSpec == Spec /\ WF_vars(Arrival) /\ WF_vars(Server)

------------------------------------------------------------------------------
(* Properties.                                                             *)
\* No read is asked to put more into m_buf than it holds, whatever length the
\* client claims, if it holds a header at all.
WithinBuffer ==
  Reading /\ Cap >= HeaderSize => Len(buf) + Wanted <= Cap

Stream(payloads) == FlattenSeq([i \in DOMAIN payloads |-> Encode(payloads[i])])

\* Until a call returns in the middle of a message, the stream is taken apart
\* where it was put together: what was dispatched, is being read, has arrived
\* and is under way make up what was sent, nothing lost, doubled or cut wrongly.
StreamConserved ==
  ~cut /\ Open => Stream(dispatched) \o buf \o socket \o wire = Stream(sent)

Fits(p) == HeaderSize + Len(p) <= Cap

\* And only a message that does not fit is refused.
RefusedOnlyIfTooLong ==
  ~cut /\ pc = "refused" =>
    /\ IsPrefix(dispatched, sent)
    /\ Len(dispatched) < Len(sent)
    /\ ~Fits(sent[Len(dispatched) + 1])

\* What a client sent is dispatched, unless a message was cut or refused or
\* the client hung up, which may close the connection before it is read.
WholeMessagesDispatched ==
  \A n \in 1 .. MaxMessages :
    Len(sent) = n ~> Len(dispatched) >= n \/ cut \/ pc = "refused" \/ hungUp

\* "No more data for now": a client that sends messages that fit is never
\* refused, however its bytes arrive.
SplitMessagesAreNotRefused ==
  pc = "refused" => \E i \in DOMAIN sent : ~Fits(sent[i])

==============================================================================
