-------------------------- MODULE SocketServerProofs --------------------------
(***************************************************************************)
(* The socket server, for every number of clients, servers, connections    *)
(* and events of a batch: the kqueue agrees with the arrays, callbacks     *)
(* come in pairs, and an old connection is closed for a reason of its own. *)
(***************************************************************************)
EXTENDS SocketServer, FiniteSetTheorems, TLAPS

USE SocketServerAssumption

Servers == [id : ServerIds, conns : Seq(Conns)]

------------------------------------------------------------------------------
(* The inductive invariant.                                                *)

At(k, i) == k \in DOMAIN servers /\ i \in DOMAIN servers[k].conns

Fd(k, i) == servers[k].conns[i].fd

\* A server has an id of its own, under which its place is registered.
ServersWatched ==
  /\ \A k, l \in DOMAIN servers : servers[k].id = servers[l].id => k = l
  /\ \A k \in DOMAIN servers : servers[k].id < nextId /\ kq[servers[k].id] = ServerAt(k)
  /\ \A id \in ServerIds : (\A k \in DOMAIN servers : servers[k].id # id) => kq[id] = NoData

\* An element of an array of connections belongs to a client of this server,
\* whose only element it is, and is registered as long as it has its buffer.
Element(k, i) ==
  /\ target[Fd(k, i)] = servers[k].id
  /\ Fd(k, i) \in greeted \ parted
  /\ peer[Fd(k, i)] = IF servers[k].conns[i].buf THEN "open" ELSE "closed"
  /\ servers[k].conns[i].buf => kq[Fd(k, i)] = ConnAt(servers[k].id, i)
  /\ \A j \in DOMAIN servers[k].conns : Fd(k, j) = Fd(k, i) => j = i

\* A client with an open connection, or whose end was not reported, is in an
\* array, and one that is queued has a server.
Client(c) ==
  /\ peer[c] = "open" \/ c \in greeted \ parted =>
       \E k \in DOMAIN servers : \E i \in DOMAIN servers[k].conns : Fd(k, i) = c
  /\ peer[c] # "open" => kq[c] = NoData
  /\ peer[c] \in {"away", "queued"} => c \notin greeted \cup parted
  /\ peer[c] = "queued" => \E k \in DOMAIN servers : servers[k].id = target[c]

\* A batch has one event for each place, and one of an end at a place that has
\* an old connection is of that connection.
EventsOwned ==
  /\ \A m, n \in DOMAIN batch : batch[m].udata = batch[n].udata => m = n
  /\ \A n \in DOMAIN batch : batch[n].eof =>
       \A k \in DOMAIN servers : \A i \in DOMAIN servers[k].conns :
         batch[n].udata = ConnAt(servers[k].id, i) =>
           Fd(k, i) \in arrived \/ hungUp[Fd(k, i)]

\* As long as no server was moved, the connections know theirs.
Unmoved ==
  ~moved =>
    /\ ~wrecked /\ misled = {}
    /\ \A k \in DOMAIN servers : \A i \in DOMAIN servers[k].conns :
         servers[k].conns[i].server = k /\ servers[k].conns[i].buf

ServerInv ==
  /\ TypeOK
  /\ ServersWatched
  /\ \A k \in DOMAIN servers : \A i \in DOMAIN servers[k].conns : Element(k, i)
  /\ \A c \in Clients : Client(c)
  /\ EventsOwned
  /\ Unmoved
  /\ destroyed => servers = <<>>

------------------------------------------------------------------------------
(* Arrays.                                                                 *)

LEMMA LastFacts ==
  ASSUME NEW S, NEW s \in Seq(S), NEW idx \in DOMAIN s
  PROVE  Len(s) \in Nat \ {0} /\ Len(s) \in DOMAIN s /\ Last(s) = s[Len(s)]
BY DEF Last

LEMMA SwapFacts ==
  ASSUME NEW S, NEW s \in Seq(S), NEW idx \in DOMAIN s, NEW q, q = SwappedOut(s, idx)
  PROVE  /\ q \in Seq(S)
         /\ DOMAIN q = 1 .. Len(s) - 1
         /\ Len(q) = Len(s) - 1
         /\ \A j \in 1 .. Len(s) - 1 : q[j] = IF j = idx THEN s[Len(s)] ELSE s[j]
<1>1. Len(s) \in Nat \ {0} /\ Len(s) \in DOMAIN s
  OBVIOUS
<1>2. \A j \in 1 .. Len(s) - 1 : (IF j = idx THEN s[Len(s)] ELSE s[j]) \in S
  BY <1>1
<1>3. q \in [1 .. Len(s) - 1 -> S]
  BY <1>2 DEF SwappedOut
<1>4. q \in Seq(S) /\ Len(q) = Len(s) - 1 /\ DOMAIN q = 1 .. Len(s) - 1
  BY <1>1, <1>3
<1>5. \A j \in 1 .. Len(s) - 1 : q[j] = IF j = idx THEN s[Len(s)] ELSE s[j]
  BY DEF SwappedOut
<1> QED
  BY <1>4, <1>5

LEMMA AppendFacts ==
  ASSUME NEW S, NEW s \in Seq(S), NEW e \in S
  PROVE  /\ Append(s, e) \in Seq(S)
         /\ Len(Append(s, e)) = Len(s) + 1
         /\ DOMAIN Append(s, e) = DOMAIN s \cup {Len(s) + 1}
         /\ Append(s, e)[Len(s) + 1] = e
         /\ \A i \in DOMAIN s : Append(s, e)[i] = s[i] /\ i # Len(s) + 1
         /\ Len(s) \in Nat
OBVIOUS

LEMMA TailFacts ==
  ASSUME NEW S, NEW s \in Seq(S), s # <<>>
  PROVE  /\ Head(s) \in S /\ Head(s) = s[1]
         /\ Tail(s) \in Seq(S) /\ Len(Tail(s)) = Len(s) - 1 /\ Len(s) \in Nat
         /\ \A i \in DOMAIN Tail(s) : i + 1 \in DOMAIN s /\ Tail(s)[i] = s[i + 1] /\ i + 1 # 1
         /\ \A i, j \in DOMAIN Tail(s) : i + 1 = j + 1 => i = j
OBVIOUS

\* A server and its connections.
LEMMA ServerFacts ==
  ASSUME TypeOK, NEW k \in DOMAIN servers
  PROVE  /\ k \in 1 .. ServerCap /\ k \in 1 .. Len(servers)
         /\ servers[k] \in Servers
         /\ servers[k].id \in ServerIds
         /\ servers[k].conns \in Seq(Conns) /\ Len(servers[k].conns) <= ConnCap
<1>1. servers \in Seq(Servers) /\ Len(servers) <= ServerCap /\ Len(servers[k].conns) <= ConnCap
  BY DEF TypeOK, Servers
<1>2. k \in 1 .. Len(servers) /\ Len(servers) \in Nat
  BY <1>1
<1>3. servers[k] \in Servers
  BY <1>1
<1> QED
  BY <1>1, <1>2, <1>3 DEF Servers

LEMMA ConnFacts ==
  ASSUME TypeOK, NEW k \in DOMAIN servers, NEW i \in DOMAIN servers[k].conns
  PROVE  /\ servers[k].conns[i] \in Conns
         /\ Fd(k, i) \in Clients
         /\ servers[k].conns[i].buf \in BOOLEAN
         /\ i \in 1 .. Len(servers[k].conns) /\ i \in 1 .. ConnCap
<1>1. PICK s \in Seq(Conns) : s = servers[k].conns /\ Len(s) <= ConnCap
  BY ServerFacts
<1>2. i \in 1 .. Len(s) /\ s[i] \in Conns /\ Len(s) \in Nat
  BY <1>1
<1> QED
  BY <1>1, <1>2 DEF Conns, Fd

\* The descriptors of clients and those of servers differ, and so do the
\* addresses of elements.
LEMMA Apart ==
  /\ \A c \in Clients, id \in ServerIds : c # id
  /\ \A id, jd \in ServerIds, i, j \in Nat :
       /\ ConnAt(id, i) # ServerAt(j)
       /\ ConnAt(id, i) = ConnAt(jd, j) => id = jd /\ i = j
<1>1. \A c \in Clients, id \in ServerIds : c # id
  BY DEF ServerIds
<1>2. \A id, jd \in ServerIds, i, j \in Nat :
        /\ ConnAt(id, i) # ServerAt(j)
        /\ ConnAt(id, i) = ConnAt(jd, j) => id = jd /\ i = j
  BY DEF ServerIds, ConnAt, ServerAt
<1> QED
  BY <1>1, <1>2

LEMMA AddressTypes ==
  /\ \A id \in ServerIds, i \in 1 .. ConnCap : ConnAt(id, i) \in Addresses
  /\ \A k \in 1 .. ServerCap : ServerAt(k) \in Addresses
  /\ NoData \notin Addresses
BY DEF ServerIds, ConnAt, ServerAt, Addresses

\* A client is in one array only, once.
LEMMA OnePlace ==
  ASSUME ServerInv,
         NEW k \in DOMAIN servers, NEW i \in DOMAIN servers[k].conns,
         NEW l \in DOMAIN servers, NEW j \in DOMAIN servers[l].conns,
         Fd(k, i) = Fd(l, j)
  PROVE  k = l /\ i = j
<1>1. target[Fd(k, i)] = servers[k].id /\ target[Fd(l, j)] = servers[l].id
  BY DEF ServerInv, Element
<1>2. k = l
  BY <1>1 DEF ServerInv, ServersWatched
<1> QED
  BY <1>2 DEF ServerInv, Element

------------------------------------------------------------------------------
(* Steps that leave the arrays and the kqueue as they are.                 *)

LEMMA QuietStep ==
  ASSUME ServerInv, TypeOK',
         UNCHANGED <<servers, kq, nextId, greeted, destroyed, moved>>,
         \A c \in Clients :
           /\ peer[c] \in {"open", "closed"} =>
                peer'[c] = peer[c] /\ target'[c] = target[c] /\ (c \in parted' <=> c \in parted)
           /\ peer'[c] = "open" => peer[c] = "open"
           /\ peer'[c] \in {"away", "queued"} => peer[c] \in {"away", "queued"} /\ c \notin parted'
           /\ peer'[c] = "queued" => \E k \in DOMAIN servers : servers[k].id = target'[c]
           /\ hungUp[c] => hungUp'[c],
         arrived \subseteq arrived',
         batch' = batch \/ (batch # <<>> /\ batch' = Tail(batch)),
         ~moved => ~wrecked' /\ misled' = {}
  PROVE  ServerInv'
<1>1. TypeOK
  BY DEF ServerInv
<1>2. ServersWatched'
  BY DEF ServerInv, ServersWatched
<1>3. ASSUME NEW k \in DOMAIN servers, NEW i \in DOMAIN servers[k].conns PROVE Element(k, i)'
  <2>1. Element(k, i) /\ Fd(k, i) \in Clients /\ servers[k].conns[i].buf \in BOOLEAN
    BY <1>1, ConnFacts DEF ServerInv
  <2>2. peer[Fd(k, i)] \in {"open", "closed"}
    BY <2>1 DEF Element
  <2> QED
    BY <2>1, <2>2 DEF Element, Fd
<1>4. ASSUME NEW c \in Clients PROVE Client(c)'
  <2>1. Client(c)
    BY DEF ServerInv
  <2>2. peer[c] \in {"away", "queued", "open", "closed"} /\ peer'[c] \in {"away", "queued", "open", "closed"}
    BY <1>1 DEF TypeOK
  <2>3. c \in greeted \ parted' => c \in greeted \ parted
    BY <2>1, <2>2 DEF Client
  <2> QED
    BY <2>1, <2>2, <2>3 DEF Client, Fd
<1>5. EventsOwned'
  <2>1. \A k \in DOMAIN servers : \A i \in DOMAIN servers[k].conns :
          hungUp[Fd(k, i)] => hungUp'[Fd(k, i)]
    BY <1>1, ConnFacts
  <2>2. CASE batch' = batch
    BY <2>1, <2>2 DEF ServerInv, EventsOwned, Fd
  <2>3. CASE batch # <<>> /\ batch' = Tail(batch)
    <3>1. /\ \A n \in DOMAIN batch' : n + 1 \in DOMAIN batch /\ batch'[n] = batch[n + 1]
          /\ \A m, n \in DOMAIN batch' : m + 1 = n + 1 => m = n
      BY <1>1, <2>3, TailFacts DEF TypeOK
    <3> QED
      BY <2>1, <3>1 DEF ServerInv, EventsOwned, Fd
  <2> QED
    BY <2>2, <2>3
<1>6. Unmoved'
  BY DEF ServerInv, Unmoved
<1> QED
  BY <1>2, <1>3, <1>4, <1>5, <1>6 DEF ServerInv

LEMMA PeersKeep ==
  ASSUME ServerInv, Peers
  PROVE  ServerInv'
<1>1. TypeOK /\ (Alive => ~wrecked)
  BY DEF ServerInv, Alive
<1>2. \A d \in Clients :
        /\ peer[d] = "queued" => \E l \in DOMAIN servers : servers[l].id = target[d]
        /\ peer[d] \in {"away", "queued"} => d \notin parted
  BY DEF ServerInv, Client
<1>3. ~moved => ~wrecked /\ misled = {}
  BY DEF ServerInv, Unmoved
<1>4. ASSUME NEW c \in Clients, NEW k \in DOMAIN servers, Connect(c, k) PROVE ServerInv'
  <2>1. servers[k].id \in 0 .. MaxServerId
    BY <1>1, ServerFacts DEF ServerIds
  <2>2. /\ peer[c] = "away" /\ peer' = [peer EXCEPT ![c] = "queued"]
        /\ target' = [target EXCEPT ![c] = servers[k].id]
        /\ UNCHANGED <<servers, kq, nextId, greeted, destroyed, moved, wrecked, misled,
                       arrived, parted, batch, hungUp, inbox, left>>
    BY <1>4 DEF Connect, loop, history
  <2>3. TypeOK'
    BY <1>1, <2>1, <2>2 DEF TypeOK
  <2>4. peer \in [Clients -> {"away", "queued", "open", "closed"}]
        /\ target \in [Clients -> 0 .. MaxServerId]
    BY <1>1 DEF TypeOK
  <2>5. ASSUME NEW d \in Clients
        PROVE  /\ peer[d] \in {"open", "closed"} =>
                    peer'[d] = peer[d] /\ target'[d] = target[d] /\ (d \in parted' <=> d \in parted)
               /\ peer'[d] = "open" => peer[d] = "open"
               /\ peer'[d] \in {"away", "queued"} => peer[d] \in {"away", "queued"} /\ d \notin parted'
               /\ peer'[d] = "queued" => \E l \in DOMAIN servers : servers[l].id = target'[d]
               /\ hungUp[d] => hungUp'[d]
    BY <1>2, <2>2, <2>4
  <2> QED
    BY <1>3, <2>2, <2>3, <2>5, QuietStep
<1>5. ASSUME NEW c \in Clients, Send(c, "good") \/ Send(c, "bad") PROVE ServerInv'
  <2>1. /\ inbox' \in {[inbox EXCEPT ![c] = "good"], [inbox EXCEPT ![c] = "bad"]}
        /\ left[c] > 0 /\ left' = [left EXCEPT ![c] = @ - 1]
        /\ UNCHANGED <<servers, kq, nextId, greeted, destroyed, moved, wrecked, misled,
                       arrived, parted, batch, hungUp, peer, target>>
    BY <1>5 DEF Send, loop, history
  <2>2. left' \in [Clients -> 0 .. MaxSends] /\ inbox' \in [Clients -> {"none", "good", "bad"}]
    <3>1. left \in [Clients -> 0 .. MaxSends] /\ inbox \in [Clients -> {"none", "good", "bad"}]
      BY <1>1 DEF TypeOK
    <3>2. left[c] - 1 \in 0 .. MaxSends
      BY <2>1, <3>1
    <3> QED
      BY <2>1, <3>1, <3>2
  <2>3. TypeOK'
    BY <1>1, <2>1, <2>2 DEF TypeOK
  <2> QED
    BY <1>2, <1>3, <2>1, <2>3, QuietStep
<1>6. ASSUME NEW c \in Clients, HangUp(c) PROVE ServerInv'
  <2>1. /\ hungUp' = [hungUp EXCEPT ![c] = TRUE]
        /\ UNCHANGED <<servers, kq, nextId, greeted, destroyed, moved, wrecked, misled,
                       arrived, parted, batch, peer, target, inbox, left>>
    BY <1>6 DEF HangUp, loop, history
  <2>2. hungUp' \in [Clients -> BOOLEAN]
    BY <1>1, <2>1 DEF TypeOK
  <2>3. \A d \in Clients : hungUp[d] => hungUp'[d]
    BY <1>1, <2>1 DEF TypeOK
  <2>4. TypeOK'
    BY <1>1, <2>1, <2>2 DEF TypeOK
  <2> QED
    BY <1>2, <1>3, <2>1, <2>3, <2>4, QuietStep
<1> QED
  BY <1>4, <1>5, <1>6 DEF Peers

\* The descriptors of those who are queued at a server are in no array.
LEMMA QueuedFacts ==
  ASSUME ServerInv, NEW k \in DOMAIN servers, NEW c \in Queued(servers[k].id)
  PROVE  /\ c \in Clients /\ peer[c] = "queued" /\ target[c] = servers[k].id
         /\ c \notin greeted /\ c \notin parted /\ kq[c] = NoData
         /\ \A l \in DOMAIN servers : \A i \in DOMAIN servers[l].conns : Fd(l, i) # c
BY DEF ServerInv, Client, Element, Queued

LEMMA QuietAcceptKeeps ==
  ASSUME ServerInv, NEW k \in DOMAIN servers, NEW c \in Clients,
         Refuse(k, c) \/ AdmitAndClose(k, c)
  PROVE  ServerInv'
<1>1. TypeOK
  BY DEF ServerInv
<1>2. c \in Queued(servers[k].id) /\ peer' = [peer EXCEPT ![c] = "closed"]
  BY <1>1 DEF Refuse, AdmitAndClose, Closed, TypeOK
<1>3. TypeOK'
  BY <1>1, <1>2 DEF TypeOK, Refuse, AdmitAndClose, loop, history
<1>4. \A d \in Clients : peer[d] = "queued" =>
        \E l \in DOMAIN servers : servers[l].id = target[d]
  BY DEF ServerInv, Client
<1>5. \A d \in Clients : peer[d] \in {"away", "queued"} => d \notin parted
  BY DEF ServerInv, Client
<1>6. /\ UNCHANGED <<servers, kq, nextId, greeted, destroyed, moved, wrecked, misled,
                     arrived, batch, hungUp, inbox, left, target>>
      /\ parted' \in {parted, parted \cup {c}}
  BY DEF Refuse, AdmitAndClose, loop, history
<1>7. ~moved => ~wrecked /\ misled = {}
  BY DEF ServerInv, Unmoved
<1>8. peer[c] = "queued" /\ c \notin greeted /\ peer \in [Clients -> {"away", "queued", "open", "closed"}]
  BY <1>1, <1>2, QueuedFacts DEF TypeOK
<1>9. ASSUME NEW d \in Clients
      PROVE  /\ peer[d] \in {"open", "closed"} =>
                  peer'[d] = peer[d] /\ target'[d] = target[d] /\ (d \in parted' <=> d \in parted)
             /\ peer'[d] = "open" => peer[d] = "open"
             /\ peer'[d] \in {"away", "queued"} => peer[d] \in {"away", "queued"} /\ d \notin parted'
             /\ peer'[d] = "queued" => \E l \in DOMAIN servers : servers[l].id = target'[d]
             /\ hungUp[d] => hungUp'[d]
  BY <1>2, <1>4, <1>5, <1>6, <1>8
<1> QED
  BY <1>3, <1>6, <1>7, <1>9, QuietStep

LEMMA QuietHandlingKeeps ==
  ASSUME ServerInv,
         \/ IgnoreEvent
         \/ \E k \in DOMAIN servers :
              AcceptDone(k) \/ \E i \in DOMAIN servers[k].conns : ReadDone(k, i)
  PROVE  ServerInv'
<1>1. TypeOK
  BY DEF ServerInv
<1>2. /\ batch # <<>> /\ batch' = Tail(batch)
      /\ UNCHANGED <<servers, nextId, kq, destroyed, wrecked, clients, history>>
  BY DEF IgnoreEvent, AcceptDone, ReadDone, AtServer, AtConn, Handling
<1>3. batch' \in Seq(Events) /\ Len(batch') <= BatchMax
  BY <1>1, <1>2, TailFacts DEF TypeOK
<1>4. TypeOK'
  BY <1>1, <1>2, <1>3 DEF TypeOK, clients, history
<1>5. \A d \in Clients : peer[d] = "queued" =>
        \E l \in DOMAIN servers : servers[l].id = target[d]
  BY DEF ServerInv, Client
<1>6. \A d \in Clients : peer[d] \in {"away", "queued"} => d \notin parted
  BY DEF ServerInv, Client
<1> QED
  BY <1>1, <1>2, <1>4, <1>5, <1>6, QuietStep DEF clients, history, ServerInv, Unmoved

LEMMA ReadMessageKeeps ==
  ASSUME ServerInv, NEW k \in DOMAIN servers, NEW i \in DOMAIN servers[k].conns,
         ReadMessage(k, i)
  PROVE  ServerInv'
<1>1. TypeOK
  BY DEF ServerInv
<1> DEFINE c == Fd(k, i)
<1>2. c \in Clients
  BY <1>1, ConnFacts
<1>3. /\ inbox' = [inbox EXCEPT ![c] = "none"]
      /\ misled' \in {misled, misled \cup {c}} /\ wrecked' \in {wrecked, TRUE}
      /\ UNCHANGED <<servers, nextId, kq, batch, destroyed, peer, target, left, hungUp,
                     arrived, greeted, parted, moved>>
  BY DEF ReadMessage, Fd
<1>4. TypeOK'
  BY <1>1, <1>2, <1>3 DEF TypeOK
<1>5. ~moved => ~wrecked' /\ misled' = {}
  <2>1. ASSUME ~moved PROVE servers[k].conns[i].server = k /\ misled = {} /\ ~wrecked
    BY <2>1 DEF ServerInv, Unmoved
  <2>2. target[c] = servers[k].id
    BY DEF ServerInv, Element
  <2> QED
    BY <2>1, <2>2 DEF ReadMessage, Fd
<1>6. \A d \in Clients : peer[d] = "queued" =>
        \E l \in DOMAIN servers : servers[l].id = target[d]
  BY DEF ServerInv, Client
<1>7. \A d \in Clients : peer[d] \in {"away", "queued"} => d \notin parted
  BY DEF ServerInv, Client
<1> QED
  BY <1>1, <1>3, <1>4, <1>5, <1>6, <1>7, QuietStep

------------------------------------------------------------------------------
(* Steps that change the arrays or the kqueue.                             *)

LEMMA NoEvents == ASSUME batch' = <<>> PROVE EventsOwned'
BY DEF EventsOwned

LEMMA WatchedTypes ==
  ASSUME TypeOK
  PROVE  /\ kq \in [Fds -> Addresses \cup {NoData}]
         /\ Clients \subseteq Fds /\ ServerIds \subseteq Fds
         /\ peer \in [Clients -> {"away", "queued", "open", "closed"}]
         /\ servers \in Seq(Servers) /\ Len(servers) <= ServerCap
         /\ nextId \in 1 .. MaxServerId + 1
BY DEF TypeOK, Fds, Servers

LEMMA CreateServerKeeps == ASSUME ServerInv, CreateServer PROVE ServerInv'
<1>1. TypeOK /\ batch' = <<>> /\ batch = <<>>
  BY DEF ServerInv, CreateServer, Between
<1> DEFINE n == Len(servers) + 1
           e == [id |-> nextId, conns |-> <<>>]
<1>2. nextId \in ServerIds /\ nextId' = nextId + 1 /\ Len(servers) < ServerCap
  BY <1>1, WatchedTypes DEF CreateServer, ServerIds
<1>3. e \in Servers
  BY <1>2 DEF Servers
<1>4. /\ servers' \in Seq(Servers) /\ Len(servers') = n
      /\ DOMAIN servers' = DOMAIN servers \cup {n}
      /\ servers'[n] = e
      /\ \A k \in DOMAIN servers : servers'[k] = servers[k] /\ k # n
      /\ Len(servers) \in Nat /\ n \in 1 .. ServerCap
  BY <1>1, <1>2, <1>3, WatchedTypes, AppendFacts DEF CreateServer
<1>5. /\ kq' \in [Fds -> Addresses \cup {NoData}]
      /\ kq'[nextId] = ServerAt(n)
      /\ \A f \in Fds : f # nextId => kq'[f] = kq[f]
  BY <1>1, <1>2, <1>4, WatchedTypes, AddressTypes DEF CreateServer
<1>6. UNCHANGED <<clients, history, destroyed, wrecked>> /\ ~destroyed
  BY DEF CreateServer, Between, Alive
<1>7. TypeOK'
  <2>1. nextId' \in 1 .. MaxServerId + 1
    BY <1>2 DEF ServerIds
  <2>2. \A k \in DOMAIN servers' : Len(servers'[k].conns) <= ConnCap
    BY <1>1, <1>4 DEF TypeOK
  <2> QED
    BY <1>1, <1>2, <1>4, <1>5, <1>6, <2>1, <2>2 DEF TypeOK, clients, history, Servers
<1>8. ServersWatched'
  <2>1. \A k \in DOMAIN servers : servers[k].id \in ServerIds /\ servers[k].id < nextId
    BY <1>1, ServerFacts DEF ServerInv, ServersWatched
  <2>2. \A k \in DOMAIN servers : servers'[k].id # nextId /\ servers'[k].id = servers[k].id
    BY <1>2, <1>4, <2>1 DEF ServerIds
  <2>3. \A k, l \in DOMAIN servers' : servers'[k].id = servers'[l].id => k = l
    BY <1>4, <2>2 DEF ServerInv, ServersWatched
  <2>4. \A k \in DOMAIN servers' : servers'[k].id < nextId' /\ kq'[servers'[k].id] = ServerAt(k)
    <3>1. ASSUME NEW k \in DOMAIN servers
          PROVE  servers'[k].id < nextId' /\ kq'[servers'[k].id] = ServerAt(k)
      BY <1>1, <1>2, <1>5, <2>1, <2>2, WatchedTypes DEF ServerInv, ServersWatched, ServerIds
    <3>2. servers'[n].id < nextId' /\ kq'[servers'[n].id] = ServerAt(n)
      BY <1>2, <1>4, <1>5 DEF ServerIds
    <3> QED
      BY <1>4, <3>1, <3>2
  <2>5. ASSUME NEW id \in ServerIds, \A k \in DOMAIN servers' : servers'[k].id # id
        PROVE  kq'[id] = NoData
    <3>1. id # nextId /\ \A k \in DOMAIN servers : servers[k].id # id
      BY <1>4, <2>5
    <3> QED
      BY <1>1, <1>5, <3>1, WatchedTypes DEF ServerInv, ServersWatched
  <2> QED
    BY <2>3, <2>4, <2>5 DEF ServersWatched
<1>9. \A c \in Clients : kq'[c] = kq[c]
  BY <1>1, <1>2, <1>5, Apart, WatchedTypes
<1>10. ASSUME NEW k \in DOMAIN servers', NEW i \in DOMAIN servers'[k].conns
       PROVE  /\ k \in DOMAIN servers /\ i \in DOMAIN servers[k].conns
              /\ servers'[k] = servers[k]
  BY <1>4
<1>11. ASSUME NEW k \in DOMAIN servers', NEW i \in DOMAIN servers'[k].conns PROVE Element(k, i)'
  <2>1. Element(k, i) /\ Fd(k, i) \in Clients
    BY <1>1, <1>10, ConnFacts DEF ServerInv
  <2> QED
    BY <1>6, <1>9, <1>10, <2>1 DEF Element, Fd, clients, history
<1>12. ASSUME NEW c \in Clients PROVE Client(c)'
  <2>1. Client(c)
    BY DEF ServerInv
  <2> QED
    BY <1>4, <1>6, <1>9, <2>1 DEF Client, Fd, clients, history
<1>13. Unmoved'
  BY <1>6, <1>10 DEF ServerInv, Unmoved, history
<1> QED
  BY <1>1, <1>6, <1>7, <1>8, <1>11, <1>12, <1>13, NoEvents DEF ServerInv

LEMMA ReplaceFacts ==
  ASSUME NEW S, NEW s \in Seq(S), NEW k \in DOMAIN s, NEW e \in S
  PROVE  /\ [s EXCEPT ![k] = e] \in Seq(S)
         /\ Len([s EXCEPT ![k] = e]) = Len(s)
         /\ DOMAIN [s EXCEPT ![k] = e] = DOMAIN s
         /\ [s EXCEPT ![k] = e][k] = e
         /\ \A l \in DOMAIN s : l # k => [s EXCEPT ![k] = e][l] = s[l]
<1>1. PICK q : q = [s EXCEPT ![k] = e]
  OBVIOUS
<1>2. Len(s) \in Nat /\ DOMAIN s = 1 .. Len(s) /\ s \in [1 .. Len(s) -> S]
  OBVIOUS
<1>3. q \in [1 .. Len(s) -> S]
  BY <1>1, <1>2
<1>4. q \in Seq(S) /\ Len(q) = Len(s) /\ DOMAIN q = 1 .. Len(s)
  BY <1>2, <1>3
<1> QED
  BY <1>1, <1>2, <1>4

\* One array of connections is another one.
LEMMA OneArray ==
  ASSUME TypeOK, NEW k \in DOMAIN servers, NEW e \in Servers,
         e.id = servers[k].id, Len(e.conns) <= ConnCap,
         servers' = [servers EXCEPT ![k] = e]
  PROVE  /\ servers' \in Seq(Servers) /\ Len(servers') <= ServerCap
         /\ DOMAIN servers' = DOMAIN servers
         /\ servers'[k] = e
         /\ \A l \in DOMAIN servers : servers'[l].id = servers[l].id
         /\ \A l \in DOMAIN servers : l # k => servers'[l] = servers[l]
         /\ \A l \in DOMAIN servers : Len(servers'[l].conns) <= ConnCap
<1>1. PICK q \in Seq(Servers) : q = servers
  BY WatchedTypes
<1>2. /\ [q EXCEPT ![k] = e] \in Seq(Servers)
      /\ Len([q EXCEPT ![k] = e]) = Len(q)
      /\ DOMAIN [q EXCEPT ![k] = e] = DOMAIN q
      /\ [q EXCEPT ![k] = e][k] = e
      /\ \A l \in DOMAIN q : l # k => [q EXCEPT ![k] = e][l] = q[l]
  BY <1>1, ReplaceFacts
<1>3. /\ servers' \in Seq(Servers) /\ Len(servers') = Len(servers)
      /\ DOMAIN servers' = DOMAIN servers /\ servers'[k] = e
      /\ \A l \in DOMAIN servers : l # k => servers'[l] = servers[l]
  BY <1>1, <1>2
<1>4. \A l \in DOMAIN servers : Len(servers[l].conns) <= ConnCap
  BY DEF TypeOK
<1> QED
  BY <1>3, <1>4, WatchedTypes

\* A server with other connections.
LEMMA OtherConns ==
  ASSUME TypeOK, NEW k \in DOMAIN servers, NEW s \in Seq(Conns)
  PROVE  \E e \in Servers :
           /\ e = [servers[k] EXCEPT !.conns = s]
           /\ e.id = servers[k].id /\ e.conns = s
<1>1. PICK r \in Servers : r = servers[k]
  BY ServerFacts
<1>2. /\ [r EXCEPT !.conns = s] \in Servers
      /\ [r EXCEPT !.conns = s].id = r.id /\ [r EXCEPT !.conns = s].conns = s
  BY <1>1 DEF Servers
<1> QED
  BY <1>1, <1>2

\* The registrations of servers do not change with those of clients.
LEMMA ServersStillWatched ==
  ASSUME ServerInv, DOMAIN servers' = DOMAIN servers, nextId' = nextId,
         \A l \in DOMAIN servers : servers'[l].id = servers[l].id,
         \A id \in ServerIds : kq'[id] = kq[id]
  PROVE  ServersWatched'
<1>1. \A k \in DOMAIN servers : servers[k].id \in ServerIds
  BY ServerFacts DEF ServerInv
<1> QED
  BY <1>1 DEF ServerInv, ServersWatched

\* close_conn: where each element that is left was before.
LEMMA CloseConnPlaces ==
  ASSUME ServerInv, NEW k \in DOMAIN servers, NEW idx \in DOMAIN servers[k].conns,
         CloseConn(k, idx)
  PROVE  /\ servers' \in Seq(Servers) /\ Len(servers') <= ServerCap
         /\ DOMAIN servers' = DOMAIN servers
         /\ \A l \in DOMAIN servers : servers'[l].id = servers[l].id
         /\ \A l \in DOMAIN servers : Len(servers'[l].conns) <= ConnCap
         /\ \A l \in DOMAIN servers : \A j \in DOMAIN servers'[l].conns :
              \E old \in DOMAIN servers[l].conns :
                /\ servers'[l].conns[j] = servers[l].conns[old]
                /\ IF l = k /\ j = idx THEN old = Len(servers[k].conns) ELSE old = j
                /\ l = k => old # idx
                /\ l = k /\ old = Len(servers[k].conns) => j = idx
         /\ \A l \in DOMAIN servers : \A old \in DOMAIN servers[l].conns :
              l # k \/ old # idx =>
                \E j \in DOMAIN servers'[l].conns :
                  servers'[l].conns[j] = servers[l].conns[old]
<1>1. TypeOK
  BY DEF ServerInv
<1>2. PICK s \in Seq(Conns) : s = servers[k].conns /\ Len(s) <= ConnCap
  BY <1>1, ServerFacts
<1>3. idx \in DOMAIN s /\ DOMAIN s = 1 .. Len(s) /\ Len(s) \in Nat
  BY <1>2
<1>4. PICK q : q = SwappedOut(s, idx)
  OBVIOUS
<1>5. /\ q \in Seq(Conns)
      /\ DOMAIN q = 1 .. Len(s) - 1 /\ Len(q) = Len(s) - 1
      /\ \A j \in 1 .. Len(s) - 1 : q[j] = IF j = idx THEN s[Len(s)] ELSE s[j]
  <2>1. q \in Seq(Conns)
    BY <1>2, <1>3, <1>4, SwapFacts
  <2>2. Len(q) = Len(s) - 1
    BY <1>2, <1>3, <1>4, SwapFacts
  <2>3. \A j \in 1 .. Len(s) - 1 : q[j] = IF j = idx THEN s[Len(s)] ELSE s[j]
    BY <1>2, <1>3, <1>4, SwapFacts
  <2> QED
    BY <2>1, <2>2, <2>3
<1>6. Len(q) <= ConnCap
  BY <1>2, <1>3, <1>5
<1>x. PICK e \in Servers : /\ e = [servers[k] EXCEPT !.conns = q]
                            /\ e.id = servers[k].id /\ e.conns = q
  BY <1>1, <1>5, OtherConns
<1>y. servers' = [servers EXCEPT ![k] = e]
  BY <1>2, <1>4, <1>x DEF CloseConn
<1>7. /\ servers' \in Seq(Servers) /\ Len(servers') <= ServerCap
      /\ DOMAIN servers' = DOMAIN servers
      /\ servers'[k].conns = q
      /\ \A l \in DOMAIN servers : servers'[l].id = servers[l].id
      /\ \A l \in DOMAIN servers : l # k => servers'[l] = servers[l]
      /\ \A l \in DOMAIN servers : Len(servers'[l].conns) <= ConnCap
  BY <1>1, <1>6, <1>x, <1>y, OneArray
<1>8. ASSUME NEW l \in DOMAIN servers, NEW j \in DOMAIN servers'[l].conns
      PROVE  \E old \in DOMAIN servers[l].conns :
                /\ servers'[l].conns[j] = servers[l].conns[old]
                /\ IF l = k /\ j = idx THEN old = Len(servers[k].conns) ELSE old = j
                /\ l = k => old # idx
                /\ l = k /\ old = Len(servers[k].conns) => j = idx
  <2>1. CASE l # k
    BY <1>7, <2>1
  <2>2. CASE l = k /\ j = idx
    <3>1. Len(s) \in DOMAIN s /\ q[j] = s[Len(s)] /\ Len(s) # idx
      BY <1>3, <1>5, <1>7, <2>2
    <3> QED
      BY <1>2, <1>7, <2>2, <3>1
  <2>3. CASE l = k /\ j # idx
    <3>1. j \in DOMAIN s /\ q[j] = s[j] /\ j # Len(s)
      BY <1>3, <1>5, <1>7, <2>3
    <3> QED
      BY <1>2, <1>7, <2>3, <3>1
  <2> QED
    BY <2>1, <2>2, <2>3
<1>9. ASSUME NEW l \in DOMAIN servers, NEW old \in DOMAIN servers[l].conns,
             l # k \/ old # idx
      PROVE  \E j \in DOMAIN servers'[l].conns :
               servers'[l].conns[j] = servers[l].conns[old]
  <2>1. CASE l # k
    BY <1>7, <2>1
  <2>2. CASE l = k /\ old = Len(s)
    <3>1. idx \in DOMAIN q /\ q[idx] = s[old]
      BY <1>2, <1>3, <1>5, <1>9, <2>2
    <3> QED
      BY <1>2, <1>7, <2>2, <3>1
  <2>3. CASE l = k /\ old # Len(s)
    <3>1. old \in DOMAIN q /\ q[old] = s[old]
      BY <1>2, <1>3, <1>5, <1>9, <2>3
    <3> QED
      BY <1>2, <1>7, <2>3, <3>1
  <2> QED
    BY <2>1, <2>2, <2>3
<1> QED
  BY <1>7, <1>8, <1>9

\* The kqueue after close_conn.
LEMMA CloseConnWatched ==
  ASSUME ServerInv, NEW k \in DOMAIN servers, NEW idx \in DOMAIN servers[k].conns,
         RegisteredAgain(k, idx)
  PROVE  LET mover == Fd(k, Len(servers[k].conns)) IN
         /\ Len(servers[k].conns) \in DOMAIN servers[k].conns
         /\ kq' \in [Fds -> Addresses \cup {NoData}]
         /\ kq'[Fd(k, idx)] = NoData
         /\ mover # Fd(k, idx) =>
              kq'[mover] = IF kq[mover] = NoData THEN NoData ELSE ConnAt(servers[k].id, idx)
         /\ \A f \in Fds : f \notin {mover, Fd(k, idx)} => kq'[f] = kq[f]
<1>1. TypeOK
  BY DEF ServerInv
<1>2. servers[k].conns \in Seq(Conns)
  BY <1>1, ServerFacts
<1> DEFINE n == Len(servers[k].conns)
<1>3. n \in DOMAIN servers[k].conns /\ Last(servers[k].conns) = servers[k].conns[n]
  BY <1>2, LastFacts
<1>4. Fd(k, n) \in Fds /\ Fd(k, idx) \in Fds
  BY <1>1, <1>3, ConnFacts, WatchedTypes
<1>5. ConnAt(servers[k].id, idx) \in Addresses
  BY <1>1, ServerFacts, ConnFacts, AddressTypes
<1>6. kq' = [kq EXCEPT ![Fd(k, n)] = IF kq[Fd(k, n)] = NoData THEN NoData
                                     ELSE ConnAt(servers[k].id, idx),
                       ![Fd(k, idx)] = NoData]
  BY <1>3 DEF RegisteredAgain, Fd
<1> HIDE DEF n
<1>7. PICK x \in Fds, y \in Fds, a \in Addresses :
        x = Fd(k, n) /\ y = Fd(k, idx) /\ a = ConnAt(servers[k].id, idx)
  BY <1>4, <1>5
<1>8. kq' = [kq EXCEPT ![x] = IF kq[x] = NoData THEN NoData ELSE a, ![y] = NoData]
  BY <1>6, <1>7
<1>9. kq \in [Fds -> Addresses \cup {NoData}]
  BY <1>1, WatchedTypes
<1>10. /\ kq' \in [Fds -> Addresses \cup {NoData}]
       /\ kq'[y] = NoData
       /\ x # y => kq'[x] = IF kq[x] = NoData THEN NoData ELSE a
       /\ \A f \in Fds : f \notin {x, y} => kq'[f] = kq[f]
  BY <1>8, <1>9
<1> QED
  BY <1>3, <1>7, <1>10 DEF n

\* The event of the element that close_conn removes, if there is a batch, is
\* the one being handled.
LEMMA CloseConnKeeps ==
  ASSUME ServerInv, NEW k \in DOMAIN servers, NEW idx \in DOMAIN servers[k].conns,
         CloseConn(k, idx), Alive,
         UNCHANGED <<nextId, destroyed, target, inbox, left, hungUp, arrived, greeted, misled,
                     moved>>,
         \/ batch = <<>> /\ batch' = <<>>
         \/ batch # <<>> /\ batch' = Tail(batch) /\ Head(batch).udata = ConnAt(servers[k].id, idx)
  PROVE  ServerInv'
<1>1. TypeOK /\ ~wrecked /\ ~destroyed
  BY DEF ServerInv, Alive
<1>2. PICK c \in Clients : c = Fd(k, idx)
  BY <1>1, ConnFacts
<1>3. /\ servers' \in Seq(Servers) /\ Len(servers') <= ServerCap
      /\ DOMAIN servers' = DOMAIN servers
      /\ \A l \in DOMAIN servers : servers'[l].id = servers[l].id
      /\ \A l \in DOMAIN servers : Len(servers'[l].conns) <= ConnCap
  BY CloseConnPlaces
<1>4. PICK n \in DOMAIN servers[k].conns : n = Len(servers[k].conns)
  BY CloseConnWatched DEF CloseConn
<1>5. PICK m \in Clients : m = Fd(k, n)
  BY <1>1, ConnFacts
<1>6. /\ kq' \in [Fds -> Addresses \cup {NoData}]
      /\ kq'[c] = NoData
      /\ m # c => kq'[m] = IF kq[m] = NoData THEN NoData ELSE ConnAt(servers[k].id, idx)
      /\ \A f \in Fds : f \notin {m, c} => kq'[f] = kq[f]
  BY <1>2, <1>4, <1>5, CloseConnWatched DEF CloseConn
<1>7. /\ peer' = [peer EXCEPT ![c] = "closed"]
      /\ parted' = parted \cup {c}
      /\ wrecked' = ~servers[k].conns[idx].buf
  BY <1>1, <1>2, WatchedTypes DEF CloseConn, Closed, Fd
\* Where an element was, and what its client is.
<1>8. ASSUME NEW l \in DOMAIN servers, NEW j \in DOMAIN servers'[l].conns
      PROVE  \E old \in DOMAIN servers[l].conns :
                /\ servers'[l].conns[j] = servers[l].conns[old]
                /\ l # k \/ j # idx => old = j
                /\ Fd(l, old) # c /\ Fd(l, old) \in Clients
                /\ IF Fd(l, old) = m THEN l = k /\ j = idx ELSE old = j
  <2>1. PICK old \in DOMAIN servers[l].conns :
                /\ servers'[l].conns[j] = servers[l].conns[old]
                /\ IF l = k /\ j = idx THEN old = Len(servers[k].conns) ELSE old = j
                /\ l = k => old # idx
                /\ l = k /\ old = Len(servers[k].conns) => j = idx
    BY CloseConnPlaces
  <2>2. Fd(l, old) # c /\ Fd(l, old) \in Clients
    BY <1>1, <1>2, <2>1, OnePlace, ConnFacts
  <2>3. Fd(l, old) = m => l = k /\ old = n
    BY <1>4, <1>5, OnePlace
  <2>4. l = k /\ j = idx => Fd(l, old) = m
    BY <1>4, <1>5, <2>1
  <2> QED
    BY <1>4, <2>1, <2>2, <2>3, <2>4
<1>9. TypeOK'
  <2>1. batch' \in Seq(Events) /\ Len(batch') <= BatchMax
    <3>1. batch \in Seq(Events) /\ Len(batch) <= BatchMax
      BY <1>1 DEF TypeOK
    <3>2. CASE batch' = <<>>
      BY <3>2
    <3>3. CASE batch # <<>> /\ batch' = Tail(batch)
      BY <3>1, <3>3, TailFacts
    <3> QED
      BY <3>2, <3>3
  <2>2. peer' \in [Clients -> {"away", "queued", "open", "closed"}] /\ parted' \subseteq Clients
    BY <1>1, <1>7 DEF TypeOK
  <2>3. wrecked' \in BOOLEAN
    BY <1>7
  <2> QED
    BY <1>1, <1>3, <1>6, <2>1, <2>2, <2>3 DEF TypeOK, Servers
<1>10. ServersWatched'
  <2>1. \A id \in ServerIds : kq'[id] = kq[id]
    BY <1>1, <1>6, Apart, WatchedTypes
  <2> QED
    BY <1>3, <2>1, ServersStillWatched
<1>11. ASSUME NEW l \in DOMAIN servers', NEW j \in DOMAIN servers'[l].conns PROVE Element(l, j)'
  <2>1. l \in DOMAIN servers /\ servers'[l].id = servers[l].id /\ servers[l].id \in ServerIds
    BY <1>1, <1>3, ServerFacts
  <2>2. PICK old \in DOMAIN servers[l].conns :
                /\ servers'[l].conns[j] = servers[l].conns[old]
                /\ l # k \/ j # idx => old = j
                /\ Fd(l, old) # c /\ Fd(l, old) \in Clients
                /\ IF Fd(l, old) = m THEN l = k /\ j = idx ELSE old = j
    BY <1>8, <2>1
  <2>3. PICK d \in Clients : d = Fd(l, old) /\ d # c /\ d = servers'[l].conns[j].fd
    BY <2>2 DEF Fd
  <2>4. Element(l, old)
    BY <2>1 DEF ServerInv
  <2>5. target'[d] = servers'[l].id /\ d \in greeted' \ parted'
        /\ peer'[d] = IF servers'[l].conns[j].buf THEN "open" ELSE "closed"
    BY <1>1, <1>7, <2>1, <2>2, <2>3, <2>4, WatchedTypes DEF Element
  <2>6. ASSUME servers'[l].conns[j].buf PROVE kq'[d] = ConnAt(servers'[l].id, j)
    <3>1. kq[d] = ConnAt(servers[l].id, old) /\ d \in Fds
      BY <1>1, <2>2, <2>3, <2>4, <2>6, WatchedTypes DEF Element
    <3>2. CASE d # m
      BY <1>6, <2>1, <2>2, <2>3, <3>1, <3>2
    <3>3. CASE d = m
      <4>1. kq[d] # NoData
        BY <1>1, <2>1, <3>1, ConnFacts, AddressTypes
      <4> QED
        BY <1>6, <2>1, <2>2, <2>3, <3>3, <4>1
    <3> QED
      BY <3>2, <3>3
  <2>7. ASSUME NEW h \in DOMAIN servers'[l].conns, servers'[l].conns[h].fd = d
        PROVE  h = j
    <3>1. PICK was \in DOMAIN servers[l].conns :
                /\ servers'[l].conns[h] = servers[l].conns[was]
                /\ IF Fd(l, was) = m THEN l = k /\ h = idx ELSE was = h
      BY <1>8, <2>1
    <3>2. was = old
      BY <2>1, <2>2, <2>3, <2>7, <3>1, OnePlace DEF Fd
    <3> QED
      BY <2>2, <3>1, <3>2
  <2> QED
    BY <2>3, <2>5, <2>6, <2>7 DEF Element, Fd
<1>12. ASSUME NEW d \in Clients PROVE Client(d)'
  <2>1. Client(d) /\ d \in Fds
    BY <1>1, WatchedTypes DEF ServerInv
  <2>2. CASE d = c
    <3>1. peer'[d] = "closed" /\ d \in parted'
      BY <1>1, <1>7, <2>2, WatchedTypes
    <3> QED
      BY <1>6, <2>2, <3>1 DEF Client
  <2>3. CASE d # c
    <3>1. peer'[d] = peer[d] /\ (d \in parted' <=> d \in parted)
      BY <1>1, <1>7, <2>3, WatchedTypes
    <3>2. ASSUME NEW l \in DOMAIN servers, NEW i \in DOMAIN servers[l].conns, Fd(l, i) = d
          PROVE  \E j \in DOMAIN servers'[l].conns : servers'[l].conns[j].fd = d
      <4>1. l # k \/ i # idx
        BY <1>2, <2>3, <3>2
      <4> QED
        BY <3>2, <4>1, CloseConnPlaces DEF Fd
    <3>3. kq[d] = NoData => kq'[d] = NoData
      BY <1>6, <2>1, <2>3
    <3> QED
      BY <1>3, <2>1, <3>1, <3>2, <3>3 DEF Client, Fd
  <2> QED
    BY <2>2, <2>3
<1>13. EventsOwned'
  <2>1. CASE batch' = <<>>
    BY <2>1, NoEvents
  <2>2. CASE batch # <<>> /\ batch' = Tail(batch) /\ Head(batch).udata = ConnAt(servers[k].id, idx)
    <3>1. /\ \A e \in DOMAIN batch' : e + 1 \in DOMAIN batch /\ batch'[e] = batch[e + 1] /\ e + 1 # 1
          /\ \A e, f \in DOMAIN batch' : e + 1 = f + 1 => e = f
          /\ Head(batch) = batch[1] /\ 1 \in DOMAIN batch
      <4>1. batch \in Seq(Events)
        BY <1>1 DEF TypeOK
      <4>2. \A e \in DOMAIN Tail(batch) :
              e + 1 \in DOMAIN batch /\ Tail(batch)[e] = batch[e + 1] /\ e + 1 # 1
        BY <2>2, <4>1, TailFacts
      <4>3. \A e, f \in DOMAIN Tail(batch) : e + 1 = f + 1 => e = f
        BY <2>2, <4>1, TailFacts
      <4>4. Head(batch) = batch[1] /\ 1 \in DOMAIN batch
        BY <2>2, <4>1
      <4> QED
        BY <2>2, <4>2, <4>3, <4>4
    <3>2. \A e, f \in DOMAIN batch' : batch'[e].udata = batch'[f].udata => e = f
      BY <3>1 DEF ServerInv, EventsOwned
    <3>3. ASSUME NEW e \in DOMAIN batch', batch'[e].eof,
                 NEW l \in DOMAIN servers', NEW j \in DOMAIN servers'[l].conns,
                 batch'[e].udata = ConnAt(servers'[l].id, j)
          PROVE  servers'[l].conns[j].fd \in arrived' \/ hungUp'[servers'[l].conns[j].fd]
      <4>1. l \in DOMAIN servers /\ servers'[l].id = servers[l].id
        BY <1>3
      <4>2. l # k \/ j # idx
        BY <2>2, <3>1, <3>3, <4>1 DEF ServerInv, EventsOwned
      <4>3. j \in DOMAIN servers[l].conns /\ servers'[l].conns[j] = servers[l].conns[j]
        BY <1>8, <4>1, <4>2
      <4> QED
        BY <3>1, <3>3, <4>1, <4>3 DEF ServerInv, EventsOwned, Fd
    <3> QED
      BY <3>2, <3>3 DEF EventsOwned, Fd
  <2> QED
    BY <2>1, <2>2
<1>14. Unmoved'
  <2>1. ASSUME ~moved'
        PROVE  /\ ~wrecked' /\ misled' = {}
               /\ \A l \in DOMAIN servers : \A i \in DOMAIN servers[l].conns :
                    servers[l].conns[i].server = l /\ servers[l].conns[i].buf
    BY <1>7, <2>1 DEF ServerInv, Unmoved
  <2> QED
    BY <1>3, <1>8, <2>1 DEF Unmoved
<1> QED
  BY <1>1, <1>9, <1>10, <1>11, <1>12, <1>13, <1>14 DEF ServerInv

LEMMA AdmitKeeps ==
  ASSUME ServerInv, NEW k \in DOMAIN servers, NEW c \in Clients, Admit(k, c)
  PROVE  ServerInv'
<1>1. TypeOK /\ ~wrecked /\ ~destroyed
  BY DEF ServerInv, Admit, AtServer, Handling, Alive
<1>2. /\ peer[c] = "queued" /\ target[c] = servers[k].id
      /\ c \notin greeted /\ c \notin parted
      /\ \A l \in DOMAIN servers : \A i \in DOMAIN servers[l].conns : Fd(l, i) # c
  BY QueuedFacts DEF Admit
<1>3. PICK s \in Seq(Conns) : s = servers[k].conns /\ Len(s) < ConnCap
  BY <1>1, ServerFacts DEF Admit, HasRoom
<1>4. PICK new : new = [fd |-> c, server |-> k, buf |-> TRUE]
  OBVIOUS
<1>5. new \in Conns /\ new.fd = c /\ new.server = k /\ new.buf
  BY <1>1, <1>4, ServerFacts DEF Conns
<1>6. PICK q : q = Append(s, new)
  OBVIOUS
<1>7. PICK n : n = Len(s) + 1
  OBVIOUS
<1>8. /\ q \in Seq(Conns) /\ Len(q) <= ConnCap
      /\ DOMAIN q = DOMAIN s \cup {n}
      /\ q[n] = new
      /\ \A i \in DOMAIN s : q[i] = s[i] /\ i # n
      /\ n \in 1 .. ConnCap
  BY <1>3, <1>5, <1>6, <1>7, AppendFacts
<1>9. PICK e \in Servers : /\ e = [servers[k] EXCEPT !.conns = q]
                           /\ e.id = servers[k].id /\ e.conns = q
  BY <1>1, <1>8, OtherConns
<1>10. servers' = [servers EXCEPT ![k] = e]
  BY <1>3, <1>4, <1>6, <1>9 DEF Admit
<1>11. /\ servers' \in Seq(Servers) /\ Len(servers') <= ServerCap
       /\ DOMAIN servers' = DOMAIN servers
       /\ servers'[k] = e
       /\ \A l \in DOMAIN servers : servers'[l].id = servers[l].id
       /\ \A l \in DOMAIN servers : l # k => servers'[l] = servers[l]
       /\ \A l \in DOMAIN servers : Len(servers'[l].conns) <= ConnCap
  BY <1>1, <1>8, <1>9, <1>10, OneArray
<1>12. /\ kq' = [kq EXCEPT ![c] = ConnAt(servers[k].id, n)]
       /\ peer' = [peer EXCEPT ![c] = "open"]
       /\ arrived' = arrived \cup {c}
       /\ greeted' = greeted \cup {c}
       /\ UNCHANGED <<nextId, batch, destroyed, wrecked, target, inbox, left, hungUp,
                      parted, misled, moved>>
  BY <1>3, <1>7 DEF Admit
<1>13. /\ kq' \in [Fds -> Addresses \cup {NoData}]
       /\ kq'[c] = ConnAt(servers[k].id, n)
       /\ \A f \in Fds : f # c => kq'[f] = kq[f]
  BY <1>1, <1>8, <1>12, WatchedTypes, ServerFacts, AddressTypes
\* An element is the new one or one that was there.
<1>14. ASSUME NEW l \in DOMAIN servers, NEW j \in DOMAIN servers'[l].conns
       PROVE  \/ l = k /\ j = n /\ servers'[l].conns[j] = new
              \/ /\ j \in DOMAIN servers[l].conns /\ servers'[l].conns[j] = servers[l].conns[j]
                 /\ Fd(l, j) # c
  <2>1. CASE l # k
    BY <1>2, <1>11, <2>1
  <2>2. CASE l = k
    <3>1. j \in DOMAIN q /\ servers'[l].conns[j] = q[j]
      BY <1>9, <1>11, <2>2
    <3>2. CASE j = n
      BY <1>8, <2>2, <3>1, <3>2
    <3>3. CASE j \in DOMAIN s
      BY <1>2, <1>3, <1>8, <2>2, <3>1, <3>3
    <3> QED
      BY <1>8, <3>1, <3>2, <3>3
  <2> QED
    BY <2>1, <2>2
<1>15. /\ n \in DOMAIN servers'[k].conns /\ servers'[k].conns[n] = new
       /\ \A l \in DOMAIN servers : \A i \in DOMAIN servers[l].conns :
            i \in DOMAIN servers'[l].conns /\ servers'[l].conns[i] = servers[l].conns[i]
  BY <1>3, <1>8, <1>9, <1>11
<1>16. TypeOK'
  <2>1. peer' \in [Clients -> {"away", "queued", "open", "closed"}]
    BY <1>1, <1>12 DEF TypeOK
  <2> QED
    BY <1>1, <1>11, <1>12, <1>13, <2>1 DEF TypeOK, Servers
<1>17. ServersWatched'
  <2>1. \A id \in ServerIds : kq'[id] = kq[id]
    BY <1>1, <1>13, Apart, WatchedTypes
  <2> QED
    BY <1>11, <1>12, <2>1, ServersStillWatched
<1>18. ASSUME NEW l \in DOMAIN servers', NEW j \in DOMAIN servers'[l].conns PROVE Element(l, j)'
  <2>1. l \in DOMAIN servers /\ servers'[l].id = servers[l].id
    BY <1>11
  <2>2. CASE l = k /\ j = n /\ servers'[l].conns[j] = new
    <3>1. target'[c] = servers'[l].id /\ c \in greeted' \ parted' /\ peer'[c] = "open"
          /\ kq'[c] = ConnAt(servers'[l].id, j)
      BY <1>1, <1>2, <1>12, <1>13, <2>1, <2>2, WatchedTypes
    <3>2. \A h \in DOMAIN servers'[l].conns : servers'[l].conns[h].fd = c => h = j
      BY <1>14, <2>1, <2>2 DEF Fd
    <3> QED
      BY <1>5, <2>2, <3>1, <3>2 DEF Element, Fd
  <2>3. CASE /\ j \in DOMAIN servers[l].conns /\ servers'[l].conns[j] = servers[l].conns[j]
             /\ Fd(l, j) # c
    <3>1. PICK d \in Clients : d = Fd(l, j) /\ d # c /\ d = servers'[l].conns[j].fd /\ d \in Fds
      BY <1>1, <2>1, <2>3, ConnFacts, WatchedTypes DEF Fd
    <3>2. Element(l, j)
      BY <2>1, <2>3 DEF ServerInv
    <3>3. peer'[d] = peer[d] /\ kq'[d] = kq[d]
      BY <1>1, <1>12, <1>13, <3>1, WatchedTypes
    <3>4. \A h \in DOMAIN servers'[l].conns : servers'[l].conns[h].fd = d => h = j
      BY <1>5, <1>14, <2>1, <3>1, <3>2 DEF Element, Fd
    <3> QED
      BY <1>12, <2>1, <2>3, <3>1, <3>2, <3>3, <3>4 DEF Element, Fd
  <2> QED
    BY <1>14, <2>1, <2>2, <2>3
<1>19. ASSUME NEW d \in Clients PROVE Client(d)'
  <2>1. Client(d) /\ d \in Fds
    BY <1>1, WatchedTypes DEF ServerInv
  <2>2. CASE d = c
    <3>1. peer'[d] = "open"
      BY <1>1, <1>12, <2>2, WatchedTypes
    <3> QED
      BY <1>5, <1>11, <1>15, <2>2, <3>1 DEF Client, Fd
  <2>3. CASE d # c
    <3>1. peer'[d] = peer[d] /\ kq'[d] = kq[d] /\ (d \in greeted' <=> d \in greeted)
      BY <1>1, <1>12, <1>13, <2>1, <2>3, WatchedTypes
    <3>2. ASSUME NEW l \in DOMAIN servers, NEW i \in DOMAIN servers[l].conns, Fd(l, i) = d
          PROVE  i \in DOMAIN servers'[l].conns /\ servers'[l].conns[i].fd = d
      BY <1>15, <3>2 DEF Fd
    <3>3. peer[d] = "open" \/ d \in greeted \ parted =>
            \E l \in DOMAIN servers' : \E i \in DOMAIN servers'[l].conns :
              servers'[l].conns[i].fd = d
      BY <1>11, <2>1, <3>2 DEF Client
    <3>4. peer[d] = "queued" => \E l \in DOMAIN servers' : servers'[l].id = target'[d]
      BY <1>11, <1>12, <2>1 DEF Client
    <3> QED
      BY <1>12, <2>1, <3>1, <3>3, <3>4 DEF Client, Fd
  <2> QED
    BY <2>2, <2>3
<1>20. EventsOwned'
  <2>1. \A m, h \in DOMAIN batch' : batch'[m].udata = batch'[h].udata => m = h
    BY <1>12 DEF ServerInv, EventsOwned
  <2>2. ASSUME NEW m \in DOMAIN batch', batch'[m].eof,
               NEW l \in DOMAIN servers', NEW j \in DOMAIN servers'[l].conns,
               batch'[m].udata = ConnAt(servers'[l].id, j)
        PROVE  servers'[l].conns[j].fd \in arrived' \/ hungUp'[servers'[l].conns[j].fd]
    <3>1. l \in DOMAIN servers /\ servers'[l].id = servers[l].id
      BY <1>11
    <3>2. CASE servers'[l].conns[j] = new
      BY <1>5, <1>12, <3>2
    <3>3. CASE j \in DOMAIN servers[l].conns /\ servers'[l].conns[j] = servers[l].conns[j]
      BY <1>12, <2>2, <3>1, <3>3 DEF ServerInv, EventsOwned, Fd
    <3> QED
      BY <1>14, <3>1, <3>2, <3>3
  <2> QED
    BY <2>1, <2>2 DEF EventsOwned, Fd
<1>21. Unmoved'
  <2>1. ASSUME ~moved'
        PROVE  /\ ~wrecked' /\ misled' = {}
               /\ \A l \in DOMAIN servers : \A i \in DOMAIN servers[l].conns :
                    servers[l].conns[i].server = l /\ servers[l].conns[i].buf
    BY <1>12, <2>1 DEF ServerInv, Unmoved
  <2> QED
    BY <1>5, <1>11, <1>14, <2>1 DEF Unmoved
<1> QED
  BY <1>1, <1>12, <1>16, <1>17, <1>18, <1>19, <1>20, <1>21 DEF ServerInv

LEMMA ReleaseLostKeeps ==
  ASSUME ServerInv, NEW k \in DOMAIN servers, NEW i \in DOMAIN servers[k].conns,
         ReleaseLost(k, i)
  PROVE  ServerInv'
<1>1. TypeOK /\ ~wrecked /\ ~destroyed /\ batch # <<>>
  BY DEF ServerInv, ReleaseLost, AtConn, Handling, Alive
<1>2. PICK c \in Clients : c = Fd(k, i)
  BY <1>1, ConnFacts
<1>3. PICK s \in Seq(Conns) : s = servers[k].conns /\ Len(s) <= ConnCap
  BY <1>1, ServerFacts
<1>4. PICK old \in Conns : old = s[i] /\ old.fd = c
  BY <1>1, <1>2, <1>3, ConnFacts DEF Fd
<1>5. PICK new \in Conns : new = [old EXCEPT !.buf = FALSE] /\ new.fd = c /\ ~new.buf
  <2>1. /\ [old EXCEPT !.buf = FALSE] \in Conns
        /\ [old EXCEPT !.buf = FALSE].fd = old.fd
        /\ [old EXCEPT !.buf = FALSE].buf = FALSE
    BY <1>4 DEF Conns
  <2> QED
    BY <1>4, <2>1
<1>6. PICK q : q = [s EXCEPT ![i] = new]
  OBVIOUS
<1>7. /\ q \in Seq(Conns) /\ Len(q) = Len(s) /\ DOMAIN q = DOMAIN s
      /\ q[i] = new
      /\ \A j \in DOMAIN s : j # i => q[j] = s[j]
  <2>1. i \in DOMAIN s
    BY <1>3
  <2>2. /\ [s EXCEPT ![i] = new] \in Seq(Conns)
        /\ Len([s EXCEPT ![i] = new]) = Len(s)
        /\ DOMAIN [s EXCEPT ![i] = new] = DOMAIN s
        /\ [s EXCEPT ![i] = new][i] = new
        /\ \A j \in DOMAIN s : j # i => [s EXCEPT ![i] = new][j] = s[j]
    BY <2>1, <1>3, <1>5, ReplaceFacts
  <2> QED
    BY <1>6, <2>2
<1>8. PICK e \in Servers : /\ e = [servers[k] EXCEPT !.conns = q]
                           /\ e.id = servers[k].id /\ e.conns = q
  BY <1>1, <1>7, OtherConns
<1>9. servers' = [servers EXCEPT ![k] = e]
  BY <1>3, <1>4, <1>5, <1>6, <1>8 DEF ReleaseLost
<1>10. /\ servers' \in Seq(Servers) /\ Len(servers') <= ServerCap
       /\ DOMAIN servers' = DOMAIN servers
       /\ servers'[k] = e
       /\ \A l \in DOMAIN servers : servers'[l].id = servers[l].id
       /\ \A l \in DOMAIN servers : l # k => servers'[l] = servers[l]
       /\ \A l \in DOMAIN servers : Len(servers'[l].conns) <= ConnCap
  BY <1>1, <1>3, <1>7, <1>8, <1>9, OneArray
<1>11. /\ kq' = [kq EXCEPT ![c] = NoData]
       /\ peer' = [peer EXCEPT ![c] = "closed"]
       /\ batch' = Tail(batch)
       /\ wrecked' = ~servers[k].conns[i].buf
       /\ UNCHANGED <<nextId, destroyed, target, inbox, left, hungUp, arrived, greeted,
                      parted, misled, moved>>
  BY <1>1, <1>2, WatchedTypes DEF ReleaseLost, Closed, Fd, history
<1>12. /\ kq' \in [Fds -> Addresses \cup {NoData}]
       /\ kq'[c] = NoData
       /\ \A f \in Fds : f # c => kq'[f] = kq[f]
  BY <1>1, <1>11, WatchedTypes
<1>13. /\ \A l \in DOMAIN servers : DOMAIN servers'[l].conns = DOMAIN servers[l].conns
       /\ servers'[k].conns[i] = new
       /\ \A l \in DOMAIN servers : \A j \in DOMAIN servers[l].conns :
            /\ servers'[l].conns[j].fd = Fd(l, j)
            /\ l # k \/ j # i => servers'[l].conns[j] = servers[l].conns[j] /\ Fd(l, j) # c
  <2>1. \A l \in DOMAIN servers : DOMAIN servers'[l].conns = DOMAIN servers[l].conns
    BY <1>3, <1>7, <1>8, <1>10
  <2>2. servers'[k].conns[i] = new
    BY <1>7, <1>8, <1>10
  <2>3. ASSUME NEW l \in DOMAIN servers, NEW j \in DOMAIN servers[l].conns, l # k \/ j # i
        PROVE  servers'[l].conns[j] = servers[l].conns[j] /\ Fd(l, j) # c
    <3>1. Fd(l, j) # c
      BY <1>2, <2>3, OnePlace
    <3>2. CASE l # k
      BY <1>10, <3>1, <3>2
    <3>3. CASE l = k
      <4>1. j \in DOMAIN s /\ j # i /\ q[j] = s[j]
        BY <1>3, <1>7, <2>3, <3>3
      <4> QED
        BY <1>3, <1>8, <1>10, <3>1, <3>3, <4>1
    <3> QED
      BY <3>2, <3>3
  <2> QED
    BY <1>2, <1>5, <2>1, <2>2, <2>3 DEF Fd
<1>14. TypeOK'
  <2>1. peer' \in [Clients -> {"away", "queued", "open", "closed"}]
    BY <1>1, <1>11 DEF TypeOK
  <2>2. batch' \in Seq(Events) /\ Len(batch') <= BatchMax
    <3>1. batch \in Seq(Events) /\ Len(batch) <= BatchMax
      BY <1>1 DEF TypeOK
    <3> QED
      BY <1>1, <1>11, <3>1, TailFacts
  <2>3. wrecked' \in BOOLEAN
    BY <1>11
  <2> QED
    BY <1>1, <1>10, <1>11, <1>12, <2>1, <2>2, <2>3 DEF TypeOK, Servers
<1>15. ServersWatched'
  <2>1. \A id \in ServerIds : kq'[id] = kq[id]
    BY <1>1, <1>12, Apart, WatchedTypes
  <2> QED
    BY <1>10, <1>11, <2>1, ServersStillWatched
<1>16. ASSUME NEW l \in DOMAIN servers', NEW j \in DOMAIN servers'[l].conns PROVE Element(l, j)'
  <2>1. /\ l \in DOMAIN servers /\ servers'[l].id = servers[l].id
        /\ j \in DOMAIN servers[l].conns
    BY <1>10, <1>13
  <2>2. PICK d \in Clients : d = Fd(l, j) /\ d = servers'[l].conns[j].fd /\ d \in Fds
    BY <1>1, <1>13, <2>1, ConnFacts, WatchedTypes
  <2>3. Element(l, j)
    BY <2>1 DEF ServerInv
  <2>4. \A h \in DOMAIN servers'[l].conns : servers'[l].conns[h].fd = d => h = j
    BY <1>13, <2>1, <2>2, <2>3 DEF Element
  <2>5. CASE l = k /\ j = i
    <3>1. d = c /\ ~servers'[l].conns[j].buf
      BY <1>2, <1>5, <1>13, <2>2, <2>5
    <3>2. peer'[d] = "closed"
      BY <1>1, <1>11, <3>1, WatchedTypes
    <3> QED
      BY <1>11, <2>1, <2>2, <2>3, <2>4, <3>1, <3>2 DEF Element, Fd
  <2>6. CASE l # k \/ j # i
    <3>1. d # c /\ servers'[l].conns[j] = servers[l].conns[j]
      BY <1>13, <2>1, <2>2, <2>6
    <3>2. peer'[d] = peer[d] /\ kq'[d] = kq[d]
      BY <1>1, <1>11, <1>12, <2>2, <3>1, WatchedTypes
    <3> QED
      BY <1>11, <2>1, <2>2, <2>3, <2>4, <3>1, <3>2 DEF Element, Fd
  <2> QED
    BY <2>5, <2>6
<1>17. ASSUME NEW d \in Clients PROVE Client(d)'
  <2>1. Client(d) /\ d \in Fds
    BY <1>1, WatchedTypes DEF ServerInv
  <2>2. peer'[d] = IF d = c THEN "closed" ELSE peer[d]
    BY <1>1, <1>11, WatchedTypes
  <2>3. kq'[d] = IF d = c THEN NoData ELSE kq[d]
    BY <1>12, <2>1
  <2>4. peer[d] = "open" \/ d \in greeted \ parted =>
          \E l \in DOMAIN servers' : \E j \in DOMAIN servers'[l].conns :
            servers'[l].conns[j].fd = d
    BY <1>10, <1>13, <2>1 DEF Client
  <2>5. peer[d] = "queued" => \E l \in DOMAIN servers' : servers'[l].id = target'[d]
    BY <1>10, <1>11, <2>1 DEF Client
  <2> QED
    BY <1>11, <2>1, <2>2, <2>3, <2>4, <2>5 DEF Client, Fd
<1>18. EventsOwned'
  <2>1. batch \in Seq(Events)
    BY <1>1 DEF TypeOK
  <2>2. \A a \in DOMAIN Tail(batch) : a + 1 \in DOMAIN batch /\ Tail(batch)[a] = batch[a + 1]
    BY <1>1, <2>1, TailFacts
  <2>3. \A a, b \in DOMAIN Tail(batch) : a + 1 = b + 1 => a = b
    BY <1>1, <2>1, TailFacts
  <2>4. \A m, h \in DOMAIN batch' : batch'[m].udata = batch'[h].udata => m = h
    BY <1>11, <2>2, <2>3 DEF ServerInv, EventsOwned
  <2>5. ASSUME NEW m \in DOMAIN batch', batch'[m].eof,
               NEW l \in DOMAIN servers', NEW j \in DOMAIN servers'[l].conns,
               batch'[m].udata = ConnAt(servers'[l].id, j)
        PROVE  servers'[l].conns[j].fd \in arrived' \/ hungUp'[servers'[l].conns[j].fd]
    <3>1. /\ l \in DOMAIN servers /\ j \in DOMAIN servers[l].conns
          /\ servers'[l].id = servers[l].id /\ servers'[l].conns[j].fd = Fd(l, j)
      BY <1>10, <1>13
    <3>2. m + 1 \in DOMAIN batch /\ batch'[m] = batch[m + 1]
      BY <1>11, <2>2
    <3> QED
      BY <1>11, <2>5, <3>1, <3>2 DEF ServerInv, EventsOwned
  <2> QED
    BY <2>4, <2>5 DEF EventsOwned, Fd
<1>19. Unmoved'
  <2>1. moved
    BY DEF ServerInv, Unmoved, ReleaseLost, Found
  <2> QED
    BY <1>11, <2>1 DEF Unmoved
<1> QED
  BY <1>1, <1>11, <1>14, <1>15, <1>16, <1>17, <1>18, <1>19 DEF ServerInv

LEMMA CloseServerKeeps ==
  ASSUME ServerInv, NEW k \in DOMAIN servers, CloseServer(k)
  PROVE  ServerInv'
<1>1. TypeOK /\ ~wrecked /\ ~destroyed /\ batch = <<>> /\ batch' = <<>>
  BY DEF ServerInv, CloseServer, Between, Alive
<1>2. PICK n : n = Len(servers)
  OBVIOUS
<1>3. /\ n \in Nat \ {0} /\ n \in DOMAIN servers /\ Last(servers) = servers[n]
      /\ DOMAIN servers = 1 .. n /\ n <= ServerCap
  <2>1. servers \in Seq(Servers) /\ Len(servers) <= ServerCap
    BY <1>1, WatchedTypes
  <2>2. Len(servers) \in Nat \ {0} /\ Len(servers) \in DOMAIN servers
        /\ Last(servers) = servers[Len(servers)]
    BY <2>1, LastFacts
  <2>3. DOMAIN servers = 1 .. Len(servers)
    BY <2>1
  <2> QED
    BY <1>2, <2>1, <2>2, <2>3
<1>4. PICK q : q = SwappedOut(servers, k)
  OBVIOUS
<1>5. servers \in Seq(Servers) /\ k \in DOMAIN servers
  BY <1>1, WatchedTypes
<1>6. q \in Seq(Servers)
  BY <1>4, <1>5, SwapFacts
<1>7. Len(q) = n - 1
  BY <1>2, <1>4, <1>5, SwapFacts
<1>8. \A l \in 1 .. n - 1 : q[l] = IF l = k THEN servers[n] ELSE servers[l]
  BY <1>2, <1>4, <1>5, SwapFacts
<1>9. servers' = q /\ DOMAIN servers' = 1 .. n - 1
  BY <1>3, <1>4, <1>6, <1>7 DEF CloseServer
\* Where a server was, and where it is now.
<1>10. ASSUME NEW l \in DOMAIN servers'
       PROVE  \E old \in DOMAIN servers :
                /\ servers'[l] = servers[old] /\ old # k
                /\ IF old = n THEN l = k ELSE l = old
  <2>1. CASE l = k
    BY <1>3, <1>8, <1>9, <2>1
  <2>2. CASE l # k
    BY <1>3, <1>8, <1>9, <2>2
  <2> QED
    BY <2>1, <2>2
<1>11. ASSUME NEW old \in DOMAIN servers, old # k
       PROVE  \E l \in DOMAIN servers' : servers'[l] = servers[old]
  <2>1. CASE old = n
    BY <1>3, <1>8, <1>9, <1>11, <2>1
  <2>2. CASE old # n
    BY <1>3, <1>8, <1>9, <1>11, <2>2
  <2> QED
    BY <2>1, <2>2
<1>12. /\ kq' = [f \in Fds |-> IF f \in ConnFds(k) \cup {servers[k].id} THEN NoData
                               ELSE IF f = servers[n].id THEN ServerAt(k) ELSE kq[f]]
       /\ peer' = Closed(ConnFds(k) \cup Queued(servers[k].id))
       /\ parted' = parted \cup ConnFds(k)
       /\ wrecked' = Released(k)
       /\ moved' = (moved \/ k # n)
       /\ UNCHANGED <<nextId, destroyed, target, inbox, left, hungUp, arrived, greeted, misled>>
  BY <1>2, <1>3 DEF CloseServer
<1>13. ConnFds(k) \subseteq Clients /\ \A c : c \in ConnFds(k) <=>
         \E i \in DOMAIN servers[k].conns : Fd(k, i) = c
  <2>1. \A c : c \in ConnFds(k) <=> \E i \in DOMAIN servers[k].conns : Fd(k, i) = c
    BY DEF ConnFds, Fd
  <2> QED
    BY <1>1, <2>1, ConnFacts
<1>14. /\ \A l \in DOMAIN servers : servers[l].id \in ServerIds
       /\ \A l, m \in DOMAIN servers : servers[l].id = servers[m].id => l = m
  BY <1>1, ServerFacts DEF ServerInv, ServersWatched
<1>15. \A c \in Clients : kq'[c] = IF c \in ConnFds(k) THEN NoData ELSE kq[c]
  BY <1>1, <1>3, <1>12, <1>14, Apart, WatchedTypes
<1>16. \A id \in ServerIds : kq'[id] = IF id = servers[k].id THEN NoData
                                       ELSE IF id = servers[n].id THEN ServerAt(k) ELSE kq[id]
  BY <1>1, <1>12, <1>13, Apart, WatchedTypes
<1>17. \A c \in Clients : peer'[c] = IF c \in ConnFds(k) \/ c \in Queued(servers[k].id)
                                     THEN "closed" ELSE peer[c]
  BY <1>12 DEF Closed
<1>18. TypeOK'
  <2>1. kq' \in [Fds -> Addresses \cup {NoData}]
    <3>1. ServerAt(k) \in Addresses
      BY <1>1, ServerFacts, AddressTypes
    <3> QED
      BY <1>1, <1>12, <3>1, WatchedTypes
  <2>2. peer' \in [Clients -> {"away", "queued", "open", "closed"}]
    BY <1>1, <1>12, WatchedTypes DEF Closed
  <2>3. servers' \in Seq(Servers) /\ Len(servers') <= ServerCap
    BY <1>3, <1>6, <1>7, <1>9
  <2>4. \A l \in DOMAIN servers' : Len(servers'[l].conns) <= ConnCap
    BY <1>1, <1>10, ServerFacts
  <2>5. wrecked' \in BOOLEAN /\ moved' \in BOOLEAN /\ parted' \subseteq Clients
    BY <1>1, <1>12, <1>13 DEF TypeOK, Released
  <2> QED
    BY <1>1, <1>12, <2>1, <2>2, <2>3, <2>4, <2>5 DEF TypeOK, Servers
<1>19. ServersWatched'
  <2>1. ASSUME NEW l \in DOMAIN servers', NEW m \in DOMAIN servers', servers'[l].id = servers'[m].id
        PROVE  l = m
    BY <1>10, <1>14, <2>1
  <2>2. ASSUME NEW l \in DOMAIN servers'
        PROVE  servers'[l].id < nextId' /\ kq'[servers'[l].id] = ServerAt(l)
    <3>1. PICK old \in DOMAIN servers :
                /\ servers'[l] = servers[old] /\ old # k
                /\ IF old = n THEN l = k ELSE l = old
      BY <1>10
    <3>2. servers[old].id < nextId /\ kq[servers[old].id] = ServerAt(old)
      BY DEF ServerInv, ServersWatched
    <3>3. servers[old].id # servers[k].id /\ (servers[old].id = servers[n].id => old = n)
      BY <1>3, <1>14, <3>1
    <3> QED
      BY <1>12, <1>14, <1>16, <3>1, <3>2, <3>3
  <2>3. ASSUME NEW id \in ServerIds, \A l \in DOMAIN servers' : servers'[l].id # id
        PROVE  kq'[id] = NoData
    <3>1. \A old \in DOMAIN servers : old # k => servers[old].id # id
      BY <1>11, <2>3
    <3>2. CASE id = servers[k].id
      BY <1>16, <3>2
    <3>3. CASE id # servers[k].id
      <4>1. \A old \in DOMAIN servers : servers[old].id # id
        BY <3>1, <3>3
      <4>2. kq[id] = NoData /\ id # servers[n].id
        BY <1>3, <4>1 DEF ServerInv, ServersWatched
      <4> QED
        BY <1>16, <3>3, <4>2
    <3> QED
      BY <3>2, <3>3
  <2> QED
    BY <2>1, <2>2, <2>3 DEF ServersWatched
<1>20. ASSUME NEW old \in DOMAIN servers, NEW i \in DOMAIN servers[old].conns, old # k
       PROVE  /\ Fd(old, i) \in Clients /\ Fd(old, i) \notin ConnFds(k)
              /\ Fd(old, i) \notin Queued(servers[k].id)
  <2>1. Fd(old, i) \in Clients
    BY <1>1, ConnFacts
  <2>2. Fd(old, i) \notin ConnFds(k)
    BY <1>13, <1>20, OnePlace
  <2>3. Fd(old, i) \notin Queued(servers[k].id)
    BY QueuedFacts
  <2> QED
    BY <2>1, <2>2, <2>3
<1>21. ASSUME NEW l \in DOMAIN servers', NEW i \in DOMAIN servers'[l].conns PROVE Element(l, i)'
  <2>1. PICK old \in DOMAIN servers : servers'[l] = servers[old] /\ old # k
    BY <1>10
  <2>2. i \in DOMAIN servers[old].conns
    BY <2>1
  <2>3. Element(old, i)
    BY <2>2 DEF ServerInv
  <2>4. PICK d \in Clients : /\ d = Fd(old, i) /\ d = servers'[l].conns[i].fd
                             /\ d \notin ConnFds(k) /\ d \notin Queued(servers[k].id)
    BY <1>20, <2>1, <2>2 DEF Fd
  <2>5. peer'[d] = peer[d] /\ kq'[d] = kq[d] /\ (d \in parted' <=> d \in parted)
    BY <1>12, <1>15, <1>17, <2>4
  <2> QED
    BY <1>12, <2>1, <2>2, <2>3, <2>4, <2>5 DEF Element, Fd
<1>22. ASSUME NEW c \in Clients PROVE Client(c)'
  <2>1. Client(c)
    BY DEF ServerInv
  <2>2. CASE c \in ConnFds(k)
    <3>1. peer'[c] = "closed" /\ kq'[c] = NoData /\ c \in parted'
      BY <1>12, <1>15, <1>17, <2>2
    <3> QED
      BY <3>1 DEF Client
  <2>3. CASE c \notin ConnFds(k) /\ c \in Queued(servers[k].id)
    <3>1. peer'[c] = "closed" /\ kq'[c] = kq[c] /\ kq[c] = NoData /\ c \notin greeted
      BY <1>15, <1>17, <2>3, QueuedFacts
    <3> QED
      BY <1>12, <3>1 DEF Client
  <2>4. CASE c \notin ConnFds(k) /\ c \notin Queued(servers[k].id)
    <3>1. peer'[c] = peer[c] /\ kq'[c] = kq[c] /\ (c \in parted' <=> c \in parted)
      BY <1>12, <1>15, <1>17, <2>4
    <3>2. peer[c] = "open" \/ c \in greeted \ parted =>
            \E l \in DOMAIN servers' : \E i \in DOMAIN servers'[l].conns : servers'[l].conns[i].fd = c
      <4>1. ASSUME NEW old \in DOMAIN servers, NEW i \in DOMAIN servers[old].conns, Fd(old, i) = c
            PROVE  \E l \in DOMAIN servers' : \E j \in DOMAIN servers'[l].conns :
                     servers'[l].conns[j].fd = c
        <5>1. old # k
          BY <1>13, <2>4, <4>1
        <5>2. PICK l \in DOMAIN servers' : servers'[l] = servers[old]
          BY <1>11, <5>1
        <5> QED
          BY <4>1, <5>2 DEF Fd
      <4> QED
        BY <2>1, <4>1 DEF Client
    <3>3. peer[c] = "queued" => \E l \in DOMAIN servers' : servers'[l].id = target'[c]
      <4>1. ASSUME NEW old \in DOMAIN servers, servers[old].id = target[c], peer[c] = "queued"
            PROVE  \E l \in DOMAIN servers' : servers'[l].id = target'[c]
        <5>1. old # k
          BY <2>4, <4>1 DEF Queued
        <5> QED
          BY <1>11, <1>12, <4>1, <5>1
      <4> QED
        BY <2>1, <4>1 DEF Client
    <3> QED
      BY <1>12, <2>1, <3>1, <3>2, <3>3 DEF Client, Fd
  <2> QED
    BY <2>2, <2>3, <2>4
<1>23. Unmoved'
  <2>1. ASSUME ~moved'
        PROVE  /\ k = n /\ ~wrecked' /\ misled' = {}
               /\ \A l \in DOMAIN servers : \A i \in DOMAIN servers[l].conns :
                    servers[l].conns[i].server = l /\ servers[l].conns[i].buf
    <3>1. ~moved /\ k = n
      BY <1>12, <2>1
    <3>2. /\ misled = {}
          /\ \A l \in DOMAIN servers : \A i \in DOMAIN servers[l].conns :
               servers[l].conns[i].server = l /\ servers[l].conns[i].buf
      BY <3>1 DEF ServerInv, Unmoved
    <3>3. ~Released(k)
      BY <3>2 DEF Released
    <3> QED
      BY <1>12, <3>1, <3>2, <3>3
  <2>2. ASSUME ~moved', NEW l \in DOMAIN servers' PROVE l \in DOMAIN servers /\ servers'[l] = servers[l]
    BY <1>10, <2>1, <2>2
  <2> QED
    BY <2>1, <2>2 DEF Unmoved
<1> QED
  BY <1>1, <1>12, <1>18, <1>19, <1>21, <1>22, <1>23, NoEvents DEF ServerInv

LEMMA DestroyLoopKeeps == ASSUME ServerInv, DestroyLoop PROVE ServerInv'
<1>1. TypeOK /\ ~wrecked /\ batch = <<>> /\ batch' = <<>>
  BY DEF ServerInv, DestroyLoop, Between, Alive
<1>2. PICK all : all = UNION {ConnFds(k) : k \in DOMAIN servers}
  OBVIOUS
<1>3. PICK waiting : waiting = UNION {Queued(servers[k].id) : k \in DOMAIN servers}
  OBVIOUS
<1>4. /\ servers' = <<>>
      /\ kq' = [f \in Fds |-> IF f \in all \/ \E k \in DOMAIN servers : servers[k].id = f
                              THEN NoData ELSE kq[f]]
      /\ peer' = Closed(all \cup waiting)
      /\ parted' = parted \cup all
      /\ wrecked' = \E k \in DOMAIN servers : Released(k)
      /\ destroyed'
      /\ UNCHANGED <<nextId, target, inbox, left, hungUp, arrived, greeted, misled, moved>>
  BY <1>2, <1>3 DEF DestroyLoop
<1>5. \A c : c \in all <=>
        \E k \in DOMAIN servers : \E i \in DOMAIN servers[k].conns : Fd(k, i) = c
  BY <1>2 DEF ConnFds, Fd
<1>6. \A c : c \in waiting <=> \E k \in DOMAIN servers : c \in Queued(servers[k].id)
  BY <1>3
<1>7. all \subseteq Clients
  BY <1>1, <1>5, ConnFacts
<1>8. \A f \in Fds : kq'[f] = NoData
  <2>1. ASSUME NEW c \in Clients PROVE kq'[c] = NoData
    <3>1. c \notin all => kq[c] = NoData
      BY <1>5 DEF ServerInv, Client
    <3> QED
      BY <1>1, <1>4, <3>1, WatchedTypes
  <2>2. ASSUME NEW id \in ServerIds PROVE kq'[id] = NoData
    <3>1. (\A k \in DOMAIN servers : servers[k].id # id) => kq[id] = NoData
      BY DEF ServerInv, ServersWatched
    <3> QED
      BY <1>1, <1>4, <3>1, WatchedTypes
  <2> QED
    BY <2>1, <2>2 DEF Fds
<1>9. TypeOK'
  <2>1. kq' \in [Fds -> Addresses \cup {NoData}]
    BY <1>1, <1>4, WatchedTypes
  <2>2. peer' \in [Clients -> {"away", "queued", "open", "closed"}]
    BY <1>1, <1>4, WatchedTypes DEF Closed
  <2>3. servers' \in Seq(Servers) /\ Len(servers') <= ServerCap /\ DOMAIN servers' = {}
    BY <1>4
  <2>4. wrecked' \in BOOLEAN /\ destroyed' \in BOOLEAN /\ parted' \subseteq Clients
    BY <1>1, <1>4, <1>7 DEF TypeOK
  <2> QED
    BY <1>1, <1>4, <2>1, <2>2, <2>3, <2>4 DEF TypeOK, Servers
<1>10. DOMAIN servers' = {}
  BY <1>4
<1>11. ServersWatched'
  BY <1>8, <1>10 DEF ServersWatched, Fds
<1>12. ASSUME NEW c \in Clients PROVE Client(c)'
  <2>1. Client(c) /\ peer[c] \in {"away", "queued", "open", "closed"}
    BY <1>1, WatchedTypes DEF ServerInv
  <2>2. peer[c] = "queued" => c \in waiting
    BY <1>6, <2>1 DEF Client, Queued
  <2>3. peer[c] = "open" \/ c \in greeted \ parted => c \in all
    BY <1>5, <2>1 DEF Client
  <2>4. peer'[c] = IF c \in all \cup waiting THEN "closed" ELSE peer[c]
    BY <1>4 DEF Closed
  <2>5. peer'[c] \in {"away", "closed"} /\ c \notin greeted' \ parted'
    BY <1>4, <2>1, <2>2, <2>3, <2>4
  <2>6. peer'[c] = "away" => c \notin greeted' \cup parted'
    BY <1>4, <2>1, <2>4 DEF Client
  <2>7. kq'[c] = NoData
    BY <1>8, <1>1, WatchedTypes
  <2> QED
    BY <2>5, <2>6, <2>7 DEF Client
<1>13. Unmoved'
  <2>1. ASSUME ~moved' PROVE ~wrecked' /\ misled' = {}
    BY <1>4, <2>1 DEF ServerInv, Unmoved, Released
  <2> QED
    BY <1>10, <2>1 DEF Unmoved
<1> QED
  BY <1>1, <1>4, <1>9, <1>10, <1>11, <1>12, <1>13, NoEvents DEF ServerInv

LEMMA SlotsApart == \A k, l \in Nat : ServerAt(k) = ServerAt(l) => k = l
BY DEF ServerAt

\* kevent reports each descriptor once, by the address it is registered with,
\* which is the one of its element.
LEMMA PollKeeps == ASSUME ServerInv, Poll PROVE ServerInv'
<1>1. TypeOK /\ ~wrecked /\ ~destroyed
  BY DEF ServerInv, Poll, Between, Alive
<1>2. /\ arrived' = {}
      /\ UNCHANGED <<servers, nextId, kq, destroyed, wrecked, peer, target, inbox, left,
                     hungUp, greeted, parted, misled, moved>>
  BY DEF Poll, clients
<1>3. PICK size : size = Min({BatchMax, Cardinality(Ready)})
  OBVIOUS
<1>4. PICK fds \in kSubset(size, Ready) :
        \E order \in SetToSeqs(fds) : batch' = [i \in DOMAIN order |-> EventOf(order[i])]
  BY <1>3 DEF Poll
<1>4a. PICK order \in SetToSeqs(fds) : batch' = [i \in DOMAIN order |-> EventOf(order[i])]
  BY <1>4
<1>5. IsFiniteSet(Ready)
  <2>1. IsFiniteSet(ServerIds)
    BY FS_Interval DEF ServerIds
  <2>2. IsFiniteSet(Fds)
    BY <2>1, FS_Union DEF Fds
  <2>3. Ready \subseteq Fds
    BY DEF Ready
  <2> QED
    BY <2>2, <2>3, FS_Subset
<1>6. size \in Nat /\ size <= BatchMax
  <2>1. PICK card \in Nat : card = Cardinality(Ready)
    BY <1>5, FS_CardinalityType
  <2>2. PICK low \in {BatchMax, card} : \A y \in {BatchMax, card} : low <= y
    BY SMT
  <2>3. size = CHOOSE x \in {BatchMax, card} : \A y \in {BatchMax, card} : x <= y
    BY <1>3, <2>1 DEF Min
  <2>4. size \in {BatchMax, card} /\ \A y \in {BatchMax, card} : size <= y
    BY <2>2, <2>3
  <2> QED
    BY <2>4
<1>7. fds \subseteq Ready /\ Cardinality(fds) = size
  BY <1>4 DEF kSubset
<1>8. /\ order \in [1 .. size -> fds]
      /\ \A i, j \in 1 .. size : i # j => order[i] # order[j]
  BY <1>4a, <1>7 DEF SetToSeqs
<1>9. DOMAIN batch' = 1 .. size
      /\ \A i \in 1 .. size : /\ order[i] \in Ready /\ order[i] \in Fds
                              /\ batch'[i].udata = kq[order[i]]
                              /\ batch'[i].eof = (order[i] \in Clients /\ hungUp[order[i]])
                              /\ batch'[i] = EventOf(order[i])
  BY <1>4a, <1>7, <1>8 DEF EventOf, Ready
<1>10. \A f \in Ready : kq[f] # NoData /\ f \in Fds
  BY DEF Ready
\* What is registered at the address of an element or of a server.
<1>11. ASSUME NEW f \in Fds, kq[f] # NoData
       PROVE  \/ /\ f \in ServerIds
                 /\ \E k \in DOMAIN servers : servers[k].id = f /\ kq[f] = ServerAt(k)
              \/ /\ f \in Clients
                 /\ \E k \in DOMAIN servers : \E i \in DOMAIN servers[k].conns :
                      Fd(k, i) = f /\ kq[f] = ConnAt(servers[k].id, i)
  <2>1. CASE f \in ServerIds
    BY <1>11, <2>1 DEF ServerInv, ServersWatched
  <2>2. CASE f \in Clients
    <3>1. PICK k \in DOMAIN servers : \E i \in DOMAIN servers[k].conns : Fd(k, i) = f
      BY <1>11, <2>2 DEF ServerInv, Client
    <3>2. PICK i \in DOMAIN servers[k].conns : Fd(k, i) = f
      BY <3>1
    <3>3. Element(k, i) /\ peer[f] = "open"
      BY <1>11, <2>2, <3>2 DEF ServerInv, Client
    <3>4. kq[f] = ConnAt(servers[k].id, i)
      BY <3>2, <3>3 DEF Element
    <3> QED
      BY <2>2, <3>2, <3>4
  <2> QED
    BY <2>1, <2>2 DEF Fds
<1>12. ASSUME NEW f \in Fds, kq[f] # NoData,
              NEW k \in DOMAIN servers, NEW i \in DOMAIN servers[k].conns,
              kq[f] = ConnAt(servers[k].id, i)
       PROVE  f = Fd(k, i)
  <2>1. servers[k].id \in ServerIds /\ i \in Nat
    BY <1>1, ServerFacts, ConnFacts
  <2>2. \A l \in DOMAIN servers : l \in Nat /\ servers[l].id \in ServerIds
                                  /\ kq[f] # ServerAt(l)
    BY <1>1, <1>12, <2>1, ServerFacts, Apart
  <2>3. PICK l \in DOMAIN servers, j \in Nat :
          /\ j \in DOMAIN servers[l].conns
          /\ Fd(l, j) = f /\ kq[f] = ConnAt(servers[l].id, j)
    BY <1>1, <1>11, <1>12, <2>2, ConnFacts
  <2>4. servers[k].id = servers[l].id /\ i = j
    <3>1. PICK a, b \in ServerIds : a = servers[k].id /\ b = servers[l].id
      BY <2>1, <2>2
    <3>2. ConnAt(a, i) = ConnAt(b, j)
      BY <1>12, <2>3, <3>1
    <3>3. a = b /\ i = j
      BY <2>1, <3>2, Apart
    <3> QED
      BY <3>1, <3>3
  <2>5. k = l
    BY <2>4 DEF ServerInv, ServersWatched
  <2> QED
    BY <2>3, <2>4, <2>5
<1>13. ASSUME NEW f \in Fds, NEW g \in Fds, kq[f] # NoData, kq[f] = kq[g]
       PROVE  f = g
  <2>1. CASE \E k \in DOMAIN servers : \E i \in DOMAIN servers[k].conns :
               Fd(k, i) = f /\ kq[f] = ConnAt(servers[k].id, i)
    BY <1>12, <1>13, <2>1
  <2>2. CASE \E k \in DOMAIN servers : servers[k].id = f /\ kq[f] = ServerAt(k)
    <3>1. PICK k \in DOMAIN servers : servers[k].id = f /\ kq[f] = ServerAt(k)
      BY <2>2
    <3>2. \A l \in DOMAIN servers : \A i \in DOMAIN servers[l].conns :
            kq[g] # ConnAt(servers[l].id, i)
      BY <1>1, <1>13, <3>1, ServerFacts, ConnFacts, Apart
    <3>3. PICK l \in DOMAIN servers : servers[l].id = g /\ kq[g] = ServerAt(l)
      BY <1>11, <1>13, <3>2
    <3>4. k = l
      <4>1. k \in Nat /\ l \in Nat
        BY <1>1, ServerFacts
      <4>2. ServerAt(k) = ServerAt(l)
        BY <1>13, <3>1, <3>3
      <4> QED
        BY <4>1, <4>2, SlotsApart
    <3> QED
      BY <3>1, <3>3, <3>4
  <2> QED
    BY <1>11, <1>13, <2>1, <2>2
<1>14. TypeOK'
  <2>1. \A f \in Ready : EventOf(f) \in Events
    <3>1. ASSUME NEW f \in Ready PROVE kq[f] \in Addresses
      BY <1>1, <1>10, WatchedTypes
    <3>2. ASSUME NEW f \in Ready PROVE (f \in Clients /\ hungUp[f]) \in BOOLEAN
      BY Zenon
    <3> QED
      BY <3>1, <3>2 DEF EventOf, Events
  <2>2. batch' \in [1 .. size -> Events]
    BY <1>4a, <1>7, <1>8, <2>1
  <2>3. batch' \in Seq(Events) /\ Len(batch') <= BatchMax
    BY <1>6, <2>2
  <2> QED
    BY <1>1, <1>2, <2>3 DEF TypeOK
<1>15. EventsOwned'
  <2>1. ASSUME NEW m \in DOMAIN batch', NEW n \in DOMAIN batch', batch'[m].udata = batch'[n].udata
        PROVE  m = n
    <3>1. kq[order[m]] = kq[order[n]] /\ kq[order[m]] # NoData
          /\ order[m] \in Fds /\ order[n] \in Fds
      BY <1>9, <1>10, <2>1
    <3> QED
      BY <1>8, <1>9, <1>13, <3>1
  <2>2. ASSUME NEW n \in DOMAIN batch', batch'[n].eof,
               NEW k \in DOMAIN servers, NEW i \in DOMAIN servers[k].conns,
               batch'[n].udata = ConnAt(servers[k].id, i)
        PROVE  hungUp[Fd(k, i)]
    <3>1. PICK f \in Fds : f = order[n] /\ kq[f] # NoData /\ kq[f] = ConnAt(servers[k].id, i)
      BY <1>9, <1>10, <2>2
    <3>2. f = Fd(k, i)
      BY <1>12, <3>1
    <3>3. order[n] \in Clients /\ hungUp[order[n]]
      <4>1. batch'[n].eof = (order[n] \in Clients /\ hungUp[order[n]])
        BY <1>9, <2>2
      <4> QED
        BY <2>2, <4>1, Zenon
    <3> QED
      BY <3>1, <3>2, <3>3
  <2> QED
    BY <1>2, <2>1, <2>2 DEF EventsOwned, Fd
<1>16. ServersWatched' /\ Unmoved'
  BY <1>2 DEF ServerInv, ServersWatched, Unmoved
<1>17. \A k \in DOMAIN servers' : \A i \in DOMAIN servers'[k].conns : Element(k, i)'
  BY <1>2 DEF ServerInv, Element, Fd
<1>18. \A c \in Clients : Client(c)'
  BY <1>2 DEF ServerInv, Client, Fd
<1> QED
  BY <1>1, <1>2, <1>14, <1>15, <1>16, <1>17, <1>18 DEF ServerInv

------------------------------------------------------------------------------
(* The invariant.                                                          *)

LEMMA InvInit == Init => ServerInv
<1> SUFFICES ASSUME Init PROVE ServerInv
  OBVIOUS
<1>1. TypeOK
  <2>1. /\ servers = <<>> /\ Len(servers) = 0 /\ DOMAIN servers = {}
        /\ batch = <<>> /\ Len(batch) = 0
    BY DEF Init
  <2>2. servers \in Seq([id : ServerIds, conns : Seq(Conns)]) /\ batch \in Seq(Events)
    BY <2>1
  <2>3. nextId \in 1 .. MaxServerId + 1 /\ 0 \in 0 .. MaxServerId /\ MaxSends \in 0 .. MaxSends
        /\ 0 <= ServerCap /\ 0 <= BatchMax
    BY DEF Init
  <2>4. kq \in [Fds -> Addresses \cup {NoData}]
    BY DEF Init
  <2>5. /\ peer \in [Clients -> {"away", "queued", "open", "closed"}]
        /\ target \in [Clients -> 0 .. MaxServerId]
        /\ inbox \in [Clients -> {"none", "good", "bad"}]
        /\ left \in [Clients -> 0 .. MaxSends]
        /\ hungUp \in [Clients -> BOOLEAN]
    BY <2>3 DEF Init
  <2>6. destroyed \in BOOLEAN /\ wrecked \in BOOLEAN /\ moved \in BOOLEAN
        /\ arrived = {} /\ greeted = {} /\ parted = {} /\ misled = {}
    BY DEF Init
  <2> QED
    BY <2>1, <2>2, <2>3, <2>4, <2>5, <2>6 DEF TypeOK
<1>2. DOMAIN servers = {} /\ DOMAIN batch = {}
  BY DEF Init
<1>3. ServersWatched /\ EventsOwned /\ Unmoved
  BY <1>2 DEF Init, ServersWatched, EventsOwned, Unmoved, Fds
<1>4. \A c \in Clients : Client(c)
  BY DEF Init, Client, Fds
<1> QED
  BY <1>1, <1>2, <1>3, <1>4 DEF ServerInv, Init

LEMMA InvStep == ServerInv /\ [Next]_vars => ServerInv'
<1> SUFFICES ASSUME ServerInv, [Next]_vars PROVE ServerInv'
  OBVIOUS
<1>1. CASE Poll
  BY <1>1, PollKeeps
<1>2. CASE Peers
  BY <1>2, PeersKeep
<1>3. CASE Application
  <2>1. CASE CreateServer
    BY <2>1, CreateServerKeeps
  <2>2. ASSUME NEW k \in DOMAIN servers, CloseServer(k) PROVE ServerInv'
    BY <2>2, CloseServerKeeps
  <2>3. ASSUME NEW k \in DOMAIN servers, NEW i \in DOMAIN servers[k].conns, CloseClient(k, i)
        PROVE  ServerInv'
    BY <2>3, CloseConnKeeps DEF CloseClient, Between
  <2>4. CASE DestroyLoop
    BY <2>4, DestroyLoopKeeps
  <2> QED
    BY <1>3, <2>1, <2>2, <2>3, <2>4 DEF Application
<1>4. CASE HandleEvent
  <2>1. ASSUME NEW k \in DOMAIN servers, NEW c \in Clients,
               Refuse(k, c) \/ AdmitAndClose(k, c)
        PROVE  ServerInv'
    BY <2>1, QuietAcceptKeeps
  <2>2. ASSUME NEW k \in DOMAIN servers, NEW c \in Clients, Admit(k, c) PROVE ServerInv'
    BY <2>2, AdmitKeeps
  <2>3. ASSUME NEW k \in DOMAIN servers, AcceptDone(k) PROVE ServerInv'
    BY <2>3, QuietHandlingKeeps
  <2>4. ASSUME NEW k \in DOMAIN servers, NEW i \in DOMAIN servers[k].conns, ReadMessage(k, i)
        PROVE  ServerInv'
    BY <2>4, ReadMessageKeeps
  <2>5. ASSUME NEW k \in DOMAIN servers, NEW i \in DOMAIN servers[k].conns, ReadDone(k, i)
        PROVE  ServerInv'
    BY <2>5, QuietHandlingKeeps
  <2>6. ASSUME NEW k \in DOMAIN servers, NEW i \in DOMAIN servers[k].conns, CloseFound(k, i)
        PROVE  ServerInv'
    BY <2>6, CloseConnKeeps DEF CloseFound, AtConn, Handling, Event
  <2>7. ASSUME NEW k \in DOMAIN servers, NEW i \in DOMAIN servers[k].conns, ReleaseLost(k, i)
        PROVE  ServerInv'
    BY <2>7, ReleaseLostKeeps
  <2>8. CASE IgnoreEvent
    BY <2>8, QuietHandlingKeeps
  <2> QED
    BY <1>4, <2>1, <2>2, <2>3, <2>4, <2>5, <2>6, <2>7, <2>8 DEF HandleEvent, Accept, Read
<1>5. CASE UNCHANGED vars
  <2>1. UNCHANGED <<servers, nextId, kq, batch, destroyed, wrecked, peer, target, inbox, left,
                    hungUp, arrived, greeted, parted, misled, moved>>
    BY <1>5 DEF vars, loop, clients, history
  <2>2. TypeOK'
    BY <2>1 DEF ServerInv, TypeOK
  <2>3. ServersWatched' /\ EventsOwned' /\ Unmoved'
    BY <2>1 DEF ServerInv, ServersWatched, EventsOwned, Unmoved, Fd
  <2>4. \A k \in DOMAIN servers' : \A i \in DOMAIN servers'[k].conns : Element(k, i)'
    BY <2>1 DEF ServerInv, Element, Fd
  <2>5. \A c \in Clients : Client(c)'
    BY <2>1 DEF ServerInv, Client, Fd
  <2> QED
    BY <2>1, <2>2, <2>3, <2>4, <2>5 DEF ServerInv
<1> QED
  BY <1>1, <1>2, <1>3, <1>4, <1>5 DEF Next

(***************************************************************************)
(* us_loop keeps its arrays, its kqueue and its batch of events consistent *)
(* whatever is created, closed, moved or received (unix_socket_server.cpp  *)
(* 77-549).                                                                *)
(***************************************************************************)
THEOREM ServerInvariant == Spec => []ServerInv
BY InvInit, InvStep, PTL DEF Spec

(***************************************************************************)
(* Through every move in the arrays, the kqueue holds the address of each  *)
(* server and of each open connection and nothing else, and us_loop_destroy *)
(* leaves nobody waiting (unix_socket_server.cpp 119-146, 381-461).        *)
(***************************************************************************)
THEOREM Registrations == Spec => []RegistrationsSound
<1>1. ServerInv => RegistrationsSound
  <2> SUFFICES ASSUME ServerInv PROVE RegistrationsSound
    OBVIOUS
  <2>1. TypeOK
    BY DEF ServerInv
  <2>2. ASSUME NEW id \in ServerIds
        PROVE  IF \E k \in DOMAIN servers : servers[k].id = id
               THEN \E k \in DOMAIN servers : servers[k].id = id /\ kq[id] = ServerAt(k)
               ELSE kq[id] = NoData
    BY DEF ServerInv, ServersWatched
  <2>3. ASSUME NEW c \in Clients
        PROVE  IF peer[c] = "open"
               THEN \E k \in DOMAIN servers : \E i \in DOMAIN servers[k].conns :
                      servers[k].conns[i].fd = c /\ kq[c] = ConnAt(servers[k].id, i)
               ELSE kq[c] = NoData
    <3>1. Client(c)
      BY DEF ServerInv
    <3>2. ASSUME NEW k \in DOMAIN servers, NEW i \in DOMAIN servers[k].conns, Fd(k, i) = c,
                 peer[c] = "open"
          PROVE  kq[c] = ConnAt(servers[k].id, i)
      BY <3>2 DEF ServerInv, Element
    <3> QED
      BY <3>1, <3>2 DEF Client, Fd
  <2>4. ASSUME destroyed
        PROVE  /\ \A c \in Clients : peer[c] \notin {"queued", "open"}
               /\ \A f \in Fds : kq[f] = NoData
    <3>1. DOMAIN servers = {}
      BY <2>4 DEF ServerInv
    <3>2. \A c \in Clients : peer[c] \notin {"queued", "open"} /\ kq[c] = NoData
      BY <3>1 DEF ServerInv, Client
    <3>3. \A id \in ServerIds : kq[id] = NoData
      BY <3>1 DEF ServerInv, ServersWatched
    <3> QED
      BY <3>2, <3>3 DEF Fds
  <2> QED
    BY <2>1, <2>2, <2>3, <2>4 DEF RegistrationsSound
<1> QED
  BY <1>1, ServerInvariant, PTL

(***************************************************************************)
(* on_connect and on_disconnect come in pairs: the clients the application *)
(* was told of and not told to have left are those in the arrays           *)
(* (unix_socket_server.cpp 119-193, 518-542).                              *)
(***************************************************************************)
THEOREM Callbacks == Spec => []CallbacksPaired
<1>1. ServerInv => CallbacksPaired
  <2> SUFFICES ASSUME ServerInv PROVE CallbacksPaired
    OBVIOUS
  <2>1. greeted \subseteq Clients
    BY DEF ServerInv, TypeOK
  <2>2. ASSUME NEW c \in greeted \ parted
        PROVE  c \in UNION {ConnFds(k) : k \in DOMAIN servers}
    BY <2>1 DEF ServerInv, Client, ConnFds, Fd
  <2>3. ASSUME NEW k \in DOMAIN servers, NEW c \in ConnFds(k) PROVE c \in greeted \ parted
    BY DEF ServerInv, Element, ConnFds, Fd
  <2> QED
    BY <2>2, <2>3 DEF CallbacksPaired
<1> QED
  BY <1>1, ServerInvariant, PTL

(***************************************************************************)
(* As long as only the last server was closed, nothing is freed twice, no  *)
(* null function is called and every message goes to its own server        *)
(* (unix_socket_server.cpp 381-430).                                       *)
(***************************************************************************)
THEOREM UnmovedServers == Spec => []UnmovedServersAreSafe
<1>1. ServerInv => UnmovedServersAreSafe
  BY DEF ServerInv, Unmoved, UnmovedServersAreSafe, Released
<1> QED
  BY <1>1, ServerInvariant, PTL

(***************************************************************************)
(* us_loop_run closes a connection that was open when kevent returned only *)
(* for an end or a message of its own, although the events of the batch    *)
(* hold addresses in arrays that change (unix_socket_server.cpp 488-549).  *)
(***************************************************************************)
THEOREM OldConnections == Spec => OldConnectionsCloseForAReason
<1> DEFINE Reason == batch # <<>> =>
                       \A c \in Clients :
                         peer[c] = "open" /\ peer'[c] = "closed" =>
                           c \in arrived \/ hungUp[c] \/ inbox[c] = "bad"
<1>1. ASSUME ServerInv, [Next]_vars PROVE Reason
  <2> SUFFICES ASSUME batch # <<>>, NEW c \in Clients, peer[c] = "open", peer'[c] = "closed"
               PROVE  c \in arrived \/ hungUp[c] \/ inbox[c] = "bad"
    OBVIOUS
  <2>1. TypeOK
    BY <1>1 DEF ServerInv
  <2>2. Peers \/ HandleEvent
    BY <1>1 DEF Next, Poll, Application, CreateServer, CloseServer, CloseClient, DestroyLoop,
                Between, vars, clients
  <2>3. ~Peers
    BY <2>1, WatchedTypes DEF Peers, Connect, Send, HangUp
  <2>4. ASSUME NEW k \in DOMAIN servers, NEW d \in Clients,
               Refuse(k, d) \/ AdmitAndClose(k, d) \/ Admit(k, d)
        PROVE  FALSE
    <3>1. peer' = [peer EXCEPT ![d] = "closed"] \/ peer' = [peer EXCEPT ![d] = "open"]
      BY <2>1, <2>4, WatchedTypes DEF Refuse, AdmitAndClose, Admit, Closed
    <3>2. peer[d] = "queued"
      BY <2>4 DEF Refuse, AdmitAndClose, Admit, Queued
    <3> QED
      BY <2>1, <3>1, <3>2, WatchedTypes
  <2>5. ASSUME NEW k \in DOMAIN servers, NEW i \in DOMAIN servers[k].conns,
               CloseFound(k, i) \/ ReleaseLost(k, i)
        PROVE  c \in arrived \/ hungUp[c] \/ inbox[c] = "bad"
    <3>1. peer' = Closed({Fd(k, i)}) /\ NeedClose(Fd(k, i)) /\ AtConn(k, i)
      BY <2>5 DEF CloseFound, ReleaseLost, CloseConn, Fd
    <3>2. c = Fd(k, i)
      BY <3>1 DEF Closed
    <3>3. PICK n \in DOMAIN batch : Event = batch[n]
      <4>1. batch \in Seq(Events) /\ batch # <<>>
        BY <2>1 DEF TypeOK
      <4>2. 1 \in DOMAIN batch /\ Head(batch) = batch[1]
        BY <4>1
      <4> QED
        BY <4>2 DEF Event
    <3>4. Event.eof => c \in arrived \/ hungUp[c]
      BY <1>1, <3>1, <3>2, <3>3 DEF ServerInv, EventsOwned, AtConn
    <3> QED
      BY <3>1, <3>2, <3>4 DEF NeedClose
  <2>6. CASE UNCHANGED peer
    BY <2>6
  <2>7. \/ UNCHANGED peer
        \/ \E k \in DOMAIN servers :
             \/ \E d \in Clients : Refuse(k, d) \/ AdmitAndClose(k, d) \/ Admit(k, d)
             \/ \E i \in DOMAIN servers[k].conns : CloseFound(k, i) \/ ReleaseLost(k, i)
    BY <2>2, <2>3 DEF HandleEvent, Accept, Read, AcceptDone, ReadMessage, ReadDone, IgnoreEvent,
                      clients
  <2> QED
    BY <2>4, <2>5, <2>6, <2>7
<1>2. ServerInv /\ [Next]_vars => [Reason]_vars
  BY <1>1
<1> QED
  BY <1>2, ServerInvariant, PTL DEF Spec, OldConnectionsCloseForAReason

==============================================================================
