----------------------------- MODULE SocketServer -----------------------------
(***************************************************************************)
(* The servers and connections of unix_socket_server.cpp and the kqueue     *)
(* that watches them.                                                       *)
(*                                                                          *)
(* Servers lie in one array, the connections of a server in another; both   *)
(* are kept without holes by moving the last element into the place of a    *)
(* removed one.  The kqueue holds, for each descriptor, the address of the  *)
(* array element it belongs to, a connection holds the address of its       *)
(* server, and us_loop_run handles a batch of events that were collected    *)
(* before the first of them is handled.  Arrays are sequences here: an      *)
(* address beyond the end is that of an element that memset has cleared.    *)
(*                                                                          *)
(* What a connection's bytes are is left to module SocketFraming: here a    *)
(* message arrives whole, and is good or one that read_from_client refuses. *)
(* The application calls the library between two calls of us_loop_run.      *)
(* Descriptors are not reused: a client stands for its connection's one, a  *)
(* server id for its listening one.                                         *)
(***************************************************************************)
EXTENDS Naturals, Sequences, FiniteSets, SequencesExt

CONSTANTS Clients,      \* the peers, each of which connects once
          ServerCap,    \* m_servers_cap
          ConnCap,      \* m_conns_cap
          BatchMax,     \* US_MAX_KEVENT_BATCH
          MaxServerId,  \* bound: the servers created
          MaxSends,     \* bound: the messages of one client
          NoData        \* a descriptor that is not in the kqueue

ASSUME SocketServerAssumption ==
  /\ ServerCap \in Nat \ {0} /\ ConnCap \in Nat \ {0} /\ BatchMax \in Nat \ {0}
  /\ MaxServerId \in Nat /\ MaxSends \in Nat
  /\ IsFiniteSet(Clients) /\ Clients \cap Nat = {}
  /\ NoData \notin [array : 0 .. MaxServerId, slot : 1 .. ConnCap + ServerCap]

ServerIds == 1 .. MaxServerId
Fds == Clients \cup ServerIds

\* The addresses &m_servers[slot] and &m_conns[slot]; an array of connections
\* is known by the id of the server it was allocated for.
ServerAt(slot) == [array |-> 0, slot |-> slot]
ConnAt(id, slot) == [array |-> id, slot |-> slot]
Addresses == [array : 0 .. MaxServerId, slot : 1 .. ConnCap + ServerCap]

VARIABLES
  servers,    \* m_servers: ids, and m_conns with m_fd, m_server and whether m_buf lives
  nextId,     \* m_next_server_id
  kq,         \* the udata of each descriptor in the kqueue
  batch,      \* the events of us_loop_run that are not handled yet
  destroyed,  \* us_loop_destroy was called
  wrecked,    \* a null function was called or memory freed twice
  peer,       \* where each client is
  target,     \* the server it connected to
  inbox,      \* what lies unread in its socket
  left,       \* how many messages it may still send
  hungUp,     \* it closed its end
  arrived,    \* history: the connections accepted since kevent returned
  greeted,    \* history: on_connect was called
  parted,     \* history: on_disconnect was called
  misled,     \* history: a message went to another server's on_msg
  moved       \* history: us_server_close has moved a server

loop == <<servers, nextId, kq, batch, destroyed, wrecked>>
clients == <<peer, target, inbox, left, hungUp>>
history == <<arrived, greeted, parted, misled, moved>>
vars == <<loop, clients, history>>

Conns == [fd : Clients, server : 1 .. ServerCap, buf : BOOLEAN]
Events == [udata : Addresses, eof : BOOLEAN]

TypeOK ==
  /\ servers \in Seq([id : ServerIds, conns : Seq(Conns)])
  /\ Len(servers) <= ServerCap
  /\ \A k \in DOMAIN servers : Len(servers[k].conns) <= ConnCap
  /\ nextId \in 1 .. MaxServerId + 1
  /\ kq \in [Fds -> Addresses \cup {NoData}]
  /\ batch \in Seq(Events) /\ Len(batch) <= BatchMax
  /\ destroyed \in BOOLEAN /\ wrecked \in BOOLEAN /\ moved \in BOOLEAN
  /\ peer \in [Clients -> {"away", "queued", "open", "closed"}]
  /\ target \in [Clients -> 0 .. MaxServerId]
  /\ inbox \in [Clients -> {"none", "good", "bad"}]
  /\ left \in [Clients -> 0 .. MaxSends]
  /\ hungUp \in [Clients -> BOOLEAN]
  /\ arrived \subseteq Clients /\ greeted \subseteq Clients
  /\ parted \subseteq Clients /\ misled \subseteq Clients

\* us_loop_create.
Init ==
  /\ servers = <<>> /\ nextId = 1
  /\ kq = [f \in Fds |-> NoData]
  /\ batch = <<>>
  /\ destroyed = FALSE /\ wrecked = FALSE /\ moved = FALSE
  /\ peer = [c \in Clients |-> "away"]
  /\ target = [c \in Clients |-> 0]
  /\ inbox = [c \in Clients |-> "none"]
  /\ left = [c \in Clients |-> MaxSends]
  /\ hungUp = [c \in Clients |-> FALSE]
  /\ arrived = {} /\ greeted = {} /\ parted = {} /\ misled = {}

Alive == ~wrecked /\ ~destroyed
Between == Alive /\ batch = <<>>

\* The array after the last element took the place of the one at idx.
SwappedOut(s, idx) ==
  [j \in 1 .. Len(s) - 1 |-> IF j = idx THEN s[Len(s)] ELSE s[j]]

ConnFds(k) == {servers[k].conns[i].fd : i \in DOMAIN servers[k].conns}
Released(k) == \E i \in DOMAIN servers[k].conns : ~servers[k].conns[i].buf

------------------------------------------------------------------------------
(* The peers.                                                              *)
Connect(c, k) ==
  /\ Alive
  /\ peer[c] = "away"
  /\ peer' = [peer EXCEPT ![c] = "queued"]
  /\ target' = [target EXCEPT ![c] = servers[k].id]
  /\ UNCHANGED <<loop, inbox, left, hungUp, history>>

Send(c, message) ==
  /\ Alive
  /\ peer[c] \in {"queued", "open"} /\ ~hungUp[c]
  /\ inbox[c] = "none" /\ left[c] > 0
  /\ inbox' = [inbox EXCEPT ![c] = message]
  /\ left' = [left EXCEPT ![c] = @ - 1]
  /\ UNCHANGED <<loop, peer, target, hungUp, history>>

HangUp(c) ==
  /\ Alive
  /\ peer[c] \in {"queued", "open"} /\ ~hungUp[c]
  /\ hungUp' = [hungUp EXCEPT ![c] = TRUE]
  /\ UNCHANGED <<loop, peer, target, inbox, left, history>>

------------------------------------------------------------------------------
(* The application, between two calls of us_loop_run.                      *)
CreateServer ==
  /\ Between
  /\ Len(servers) < ServerCap
  /\ nextId <= MaxServerId
  /\ servers' = Append(servers, [id |-> nextId, conns |-> <<>>])
  /\ kq' = [kq EXCEPT ![nextId] = ServerAt(Len(servers) + 1)]
  /\ nextId' = nextId + 1
  /\ UNCHANGED <<batch, destroyed, wrecked, clients, history>>

\* Mutant: the listening descriptor stays open.
OnlyConnsClosed(fds) ==
  [c \in Clients |-> IF c \in fds /\ peer[c] = "open" THEN "closed" ELSE peer[c]]

\* Closing descriptors: they leave the kqueue, and whoever is at their other
\* end or was still queued finds the connection closed.
Closed(fds) == [c \in Clients |-> IF c \in fds THEN "closed" ELSE peer[c]]
Queued(id) == {c \in Clients : peer[c] = "queued" /\ target[c] = id}

\* us_server_close closes the connections, the last one first.  The server
\* that is moved is registered again; its connections are left as they are.
CloseServer(k) ==
  LET gone == ConnFds(k) \cup {servers[k].id}
  IN  /\ Between
      /\ servers' = SwappedOut(servers, k)
      /\ kq' = [f \in Fds |->
                 IF f \in gone THEN NoData
                 ELSE IF f = Last(servers).id THEN ServerAt(k) ELSE kq[f]]
      /\ peer' = Closed(ConnFds(k) \cup Queued(servers[k].id))
      /\ parted' = parted \cup ConnFds(k)
      /\ wrecked' = Released(k)
      /\ moved' = (moved \/ k # Len(servers))
      /\ UNCHANGED <<nextId, batch, destroyed, target, inbox, left, hungUp,
                     arrived, greeted, misled>>

\* us_loop_destroy closes the servers, the last one first: none is moved.
DestroyLoop ==
  LET open == UNION {ConnFds(k) : k \in DOMAIN servers}
  IN  /\ Between
      /\ destroyed' = TRUE
      /\ servers' = <<>>
      /\ kq' = [f \in Fds |-> IF f \in open \/ \E k \in DOMAIN servers : servers[k].id = f
                              THEN NoData ELSE kq[f]]
      /\ peer' = Closed(open \cup UNION {Queued(servers[k].id) : k \in DOMAIN servers})
      /\ parted' = parted \cup open
      /\ wrecked' = \E k \in DOMAIN servers : Released(k)
      /\ UNCHANGED <<nextId, batch, target, inbox, left, hungUp, arrived, greeted,
                     misled, moved>>

\* Mutant: the connection that is moved keeps its old udata.
NotRegisteredAgain(k, idx) ==
  kq' = [kq EXCEPT ![servers[k].conns[idx].fd] = NoData]

\* The connection at idx leaves the kqueue; the one that takes its place is
\* registered again, with its new address, if its descriptor is still open.
RegisteredAgain(k, idx) ==
  LET conns == servers[k].conns
      mover == Last(conns).fd
  IN  kq' = [kq EXCEPT ![mover] = IF kq[mover] = NoData THEN NoData
                                  ELSE ConnAt(servers[k].id, idx),
                       ![conns[idx].fd] = NoData]

\* close_conn.
CloseConn(k, idx) ==
  LET conns == servers[k].conns
      c == conns[idx].fd
  IN  /\ servers' = [servers EXCEPT ![k].conns = SwappedOut(conns, idx)]
      /\ RegisteredAgain(k, idx)
      /\ peer' = Closed({c})
      /\ parted' = parted \cup {c}
      /\ wrecked' = ~conns[idx].buf

\* us_client_close.
CloseClient(k, idx) ==
  /\ Between
  /\ CloseConn(k, idx)
  /\ UNCHANGED <<nextId, batch, destroyed, target, inbox, left, hungUp, arrived,
                 greeted, misled, moved>>

------------------------------------------------------------------------------
(* us_loop_run.                                                            *)
\* The descriptors the kqueue reports, each with EV_EOF or without.
Ready ==
  {f \in Fds : kq[f] # NoData /\ IF f \in Clients THEN inbox[f] # "none" \/ hungUp[f]
                                                  ELSE Queued(f) # {}}

EventOf(f) == [udata |-> kq[f], eof |-> f \in Clients /\ hungUp[f]]

\* kevent returns the events in any order, and leaves what does not fit in.
Poll ==
  /\ Between
  /\ Ready # {}
  /\ \E fds \in kSubset(Min({BatchMax, Cardinality(Ready)}), Ready) :
       \E order \in SetToSeqs(fds) :
         batch' = [i \in DOMAIN order |-> EventOf(order[i])]
  /\ arrived' = {}
  /\ UNCHANGED <<servers, nextId, kq, destroyed, wrecked, clients, greeted, parted,
                 misled, moved>>

Event == Head(batch)
Handling == Alive /\ batch # <<>>

\* The event is of a server: *udata is US_KIND_SERVER.
AtServer(k) == Handling /\ Event.udata = ServerAt(k) /\ k \in DOMAIN servers

\* The event is of a connection: *udata is US_KIND_CONN.
AtConn(k, i) ==
  /\ Handling
  /\ k \in DOMAIN servers /\ i \in DOMAIN servers[k].conns
  /\ Event.udata = ConnAt(servers[k].id, i)

\* accept_new_clients closes a descriptor it cannot set up or has no slot for.
Refuse(k, c) ==
  /\ AtServer(k) /\ c \in Queued(servers[k].id)
  /\ peer' = Closed({c})
  /\ UNCHANGED <<loop, target, inbox, left, hungUp, history>>

\* Mutant: a capacity that is one too large.
RoomForOneMore(k) == Len(servers[k].conns) <= ConnCap

HasRoom(k) == Len(servers[k].conns) < ConnCap

\* Mutant: the slot is not taken back.
AdmitAndForget(k, c) ==
  /\ AtServer(k) /\ c \in Queued(servers[k].id)
  /\ HasRoom(k)
  /\ servers' = [servers EXCEPT ![k].conns =
                   Append(@, [fd |-> c, server |-> k, buf |-> TRUE])]
  /\ peer' = Closed({c})
  /\ parted' = parted \cup {c}
  /\ UNCHANGED <<nextId, kq, batch, destroyed, wrecked, target, inbox, left, hungUp,
                 arrived, greeted, misled, moved>>

\* A slot is filled, but there is no memory for its buffer or no room in the
\* kqueue: close_conn takes it back and calls on_disconnect.
AdmitAndClose(k, c) ==
  /\ AtServer(k) /\ c \in Queued(servers[k].id)
  /\ HasRoom(k)
  /\ peer' = Closed({c})
  /\ parted' = parted \cup {c}
  /\ UNCHANGED <<loop, target, inbox, left, hungUp, arrived, greeted, misled, moved>>

Admit(k, c) ==
  /\ AtServer(k) /\ c \in Queued(servers[k].id)
  /\ HasRoom(k)
  /\ servers' = [servers EXCEPT ![k].conns =
                   Append(@, [fd |-> c, server |-> k, buf |-> TRUE])]
  /\ kq' = [kq EXCEPT ![c] = ConnAt(servers[k].id, Len(servers[k].conns) + 1)]
  /\ peer' = [peer EXCEPT ![c] = "open"]
  /\ arrived' = arrived \cup {c}
  /\ greeted' = greeted \cup {c}
  /\ UNCHANGED <<nextId, batch, destroyed, wrecked, target, inbox, left, hungUp,
                 parted, misled, moved>>

\* accept returns EAGAIN, or fails: who is queued then is left to the next batch.
AcceptDone(k) ==
  /\ AtServer(k)
  /\ batch' = Tail(batch)
  /\ UNCHANGED <<servers, nextId, kq, destroyed, wrecked, clients, history>>

\* read_from_client hands a message to on_msg of the server that m_server
\* points to; of a cleared one that is a null pointer.
ReadMessage(k, i) ==
  LET conn == servers[k].conns[i]
      c == conn.fd
  IN  /\ AtConn(k, i) /\ ~Event.eof
      /\ inbox[c] = "good"
      /\ inbox' = [inbox EXCEPT ![c] = "none"]
      /\ IF conn.server \in DOMAIN servers
         THEN /\ misled' = IF servers[conn.server].id = target[c] THEN misled
                           ELSE misled \cup {c}
              /\ wrecked' = wrecked
         ELSE wrecked' = TRUE /\ misled' = misled
      /\ UNCHANGED <<servers, nextId, kq, batch, destroyed, peer, target, left, hungUp,
                     arrived, greeted, parted, moved>>

\* read returns EAGAIN.
ReadDone(k, i) ==
  LET c == servers[k].conns[i].fd
  IN  /\ AtConn(k, i) /\ ~Event.eof
      /\ peer[c] = "open" /\ inbox[c] = "none" /\ ~hungUp[c]
      /\ batch' = Tail(batch)
      /\ UNCHANGED <<servers, nextId, kq, destroyed, wrecked, clients, history>>

\* Mutant: EAGAIN is taken for an error.
NeedCloseWhenEmpty(c) == Event.eof \/ inbox[c] \in {"none", "bad"}

\* need_close: the event has EV_EOF, whatever is unread, or read_from_client
\* met the end or what it refuses.
NeedClose(c) == Event.eof \/ inbox[c] = "bad" \/ (inbox[c] = "none" /\ hungUp[c])

\* Mutant: the search for the connection begins behind the first one.
AmongTheOthers(k, i) ==
  /\ servers[k].conns[i].server = k
  /\ i > 1

\* The array of the server that m_server points to has the connection.
Found(k, i) == servers[k].conns[i].server = k

CloseFound(k, i) ==
  /\ AtConn(k, i)
  /\ NeedClose(servers[k].conns[i].fd)
  /\ Found(k, i)
  /\ CloseConn(k, i)
  /\ batch' = Tail(batch)
  /\ UNCHANGED <<nextId, destroyed, target, inbox, left, hungUp, arrived, greeted,
                 misled, moved>>

\* It has not: the descriptor and the buffer are released, and the element
\* stays where it is.
ReleaseLost(k, i) ==
  LET c == servers[k].conns[i].fd
  IN  /\ AtConn(k, i)
      /\ NeedClose(c)
      /\ ~Found(k, i)
      /\ servers' = [servers EXCEPT ![k].conns[i].buf = FALSE]
      /\ kq' = [kq EXCEPT ![c] = NoData]
      /\ peer' = Closed({c})
      /\ wrecked' = ~servers[k].conns[i].buf
      /\ batch' = Tail(batch)
      /\ UNCHANGED <<nextId, destroyed, target, inbox, left, hungUp, history>>

\* The element was cleared since kevent returned: *udata is zero.
IgnoreEvent ==
  /\ Handling
  /\ ~ \E k \in DOMAIN servers :
         \/ AtServer(k)
         \/ \E i \in DOMAIN servers[k].conns : AtConn(k, i)
  /\ batch' = Tail(batch)
  /\ UNCHANGED <<servers, nextId, kq, destroyed, wrecked, clients, history>>

Accept(k) ==
  \/ \E c \in Clients : Refuse(k, c) \/ AdmitAndClose(k, c) \/ Admit(k, c)
  \/ AcceptDone(k)

Read(k, i) ==
  \/ ReadMessage(k, i) \/ ReadDone(k, i)
  \/ CloseFound(k, i) \/ ReleaseLost(k, i)

HandleEvent ==
  \/ \E k \in DOMAIN servers :
       Accept(k) \/ \E i \in DOMAIN servers[k].conns : Read(k, i)
  \/ IgnoreEvent

Application ==
  \/ CreateServer
  \/ \E k \in DOMAIN servers :
       \/ CloseServer(k)
       \/ \E i \in DOMAIN servers[k].conns : CloseClient(k, i)
  \/ DestroyLoop

Peers ==
  \E c \in Clients :
    \/ \E k \in DOMAIN servers : Connect(c, k)
    \/ Send(c, "good") \/ Send(c, "bad")
    \/ HangUp(c)

Next == Poll \/ HandleEvent \/ Application \/ Peers

Spec == Init /\ [][Next]_vars

------------------------------------------------------------------------------
(* Properties.                                                             *)
\* The kqueue and the arrays agree through every move: the udata of a
\* listening descriptor is the address of its server, that of an open
\* connection the address of the element that has its descriptor, and no
\* other descriptor is watched.  Once us_loop_destroy has returned, nobody is
\* left waiting in a queue or on an open connection.
RegistrationsSound ==
  /\ TypeOK
  /\ \A id \in ServerIds :
       IF \E k \in DOMAIN servers : servers[k].id = id
       THEN \E k \in DOMAIN servers : servers[k].id = id /\ kq[id] = ServerAt(k)
       ELSE kq[id] = NoData
  /\ \A c \in Clients :
       IF peer[c] = "open"
       THEN \E k \in DOMAIN servers : \E i \in DOMAIN servers[k].conns :
              servers[k].conns[i].fd = c /\ kq[c] = ConnAt(servers[k].id, i)
       ELSE kq[c] = NoData
  /\ destroyed => /\ \A c \in Clients : peer[c] \notin {"queued", "open"}
                  /\ \A f \in Fds : kq[f] = NoData

\* The application sees a connection end once, and none that is in no array is
\* left over: those it was told to have come and not to have gone are the
\* connections in the arrays, the ones that failed in between included.
CallbacksPaired ==
  greeted \ parted = UNION {ConnFds(k) : k \in DOMAIN servers}

\* An event may meet another connection than the one it was collected for,
\* because a close moved it and an accept filled its place.  That happens to
\* connections accepted in the same batch only: one that was open when kevent
\* returned is closed by us_loop_run for an end or a message of its own.
OldConnectionsCloseForAReason ==
  [][batch # <<>> =>
       \A c \in Clients :
         peer[c] = "open" /\ peer'[c] = "closed" =>
           c \in arrived \/ hungUp[c] \/ inbox[c] = "bad"]_vars

\* As long as us_server_close only ever closed the last server, every
\* connection is handled by its own server: nothing is freed twice, no null
\* function is called and each message goes to the server it was sent to.
UnmovedServersAreSafe ==
  ~moved => ~wrecked /\ misled = {} /\ \A k \in DOMAIN servers : ~Released(k)

==============================================================================
