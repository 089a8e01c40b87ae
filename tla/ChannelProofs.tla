---------------------------- MODULE ChannelProofs ----------------------------
(***************************************************************************)
(* The channel, for every capacity and every set of values: the condition  *)
(* variable, where m_size alone guards the waits; the two lists that share *)
(* the nodes; and that what is pushed comes out in its order.              *)
(*                                                                         *)
(* The lists are sequences of nodes that the links run through (Linked).   *)
(* A push moves the first free node behind the last used one, a pop moves  *)
(* the first used one in front of the free ones; and the walk of NodesFrom *)
(* along the links of a list finds its nodes, by induction over its turns. *)
(***************************************************************************)
EXTENDS Channel, DataLemmas, TLAPS

USE ChannelAssumption

\* What the waits rest on: m_size is in its bounds, and whoever sleeps is
\* inside a call, the producers because the channel is full, the consumers
\* because it is empty.
Waiting(p, c) ==
  /\ size \in 0 .. Capacity
  /\ sleeping \subseteq {p, c}
  /\ c \in sleeping => c \in popping
  /\ p \in sleeping => size = Capacity
  /\ c \in sleeping => size = 0

\* A signal reaches the only thread that can be asleep.
LEMMA OneSleeperWakes ==
  ASSUME NEW t, sleeping \subseteq {t}, WakeOne
  PROVE  sleeping' = {}
  BY DEF WakeOne

LEMMA ProducerWaits ==
  ASSUME NEW p, NEW c, Producers = {p}, Consumers = {c}, Waiting(p, c), ProducerStep(p)
  PROVE  Waiting(p, c)'
  <1>1. PICK v \in Values : Push(p, v) \/ PushWaits(p, v)
    BY DEF ProducerStep
  <1>2. CASE Push(p, v)
    <2>1. sleeping \subseteq {c}
      BY <1>2 DEF Push, TestsRoom, Waiting
    <2>2. sleeping' = {}
      BY <1>2, <2>1, OneSleeperWakes DEF Push
    <2>3. size' \in 0 .. Capacity
      BY <1>2 DEF Push, Waiting
    <2> QED
      BY <2>2, <2>3 DEF Waiting
  <1>3. CASE PushWaits(p, v)
    <2>1. size = Capacity /\ size' = size /\ sleeping' = sleeping \cup {p}
          /\ popping' = popping
      BY <1>3 DEF PushWaits, Waiting, list
    <2>2. c # p /\ c \notin sleeping
      BY <2>1 DEF Waiting
    <2> QED
      BY <2>1, <2>2 DEF Waiting
  <1> QED
    BY <1>1, <1>2, <1>3

LEMMA ConsumerWaits ==
  ASSUME NEW p, NEW c, Producers = {p}, Consumers = {c}, Waiting(p, c), ConsumerStep(c)
  PROVE  Waiting(p, c)'
  <1>1. CASE PopWaits(c)
    <2>1. size = 0 /\ size' = size /\ sleeping' = sleeping \cup {c} /\ c \in popping'
      BY <1>1 DEF PopWaits, list
    <2>2. p # c /\ p \notin sleeping
      BY <2>1 DEF Waiting
    <2> QED
      BY <2>1, <2>2 DEF Waiting
  <1>2. CASE Pop(c) \/ PopNowait(c)
    <2>1. c \notin sleeping /\ TakeFirst
      BY <1>2 DEF Pop, PopNowait, Waiting
    <2>2. sleeping' = {}
      BY <2>1, OneSleeperWakes DEF TakeFirst, Waiting
    <2>3. size' \in 0 .. Capacity
      BY <2>1 DEF TakeFirst, Waiting
    <2> QED
      BY <2>2, <2>3 DEF Waiting
  <1> QED
    BY <1>1, <1>2 DEF ConsumerStep

\* With one thread on each side no signal is lost: the producer sleeps only
\* while the channel is full, the consumer only while it is empty.
THEOREM NoSignalLost == Spec => []SleepsForAReason
  <1>1. ASSUME NEW p, NEW c, Producers = {p}, Consumers = {c}
        PROVE  Spec => []Waiting(p, c)
    <2>1. Init => Waiting(p, c)
      BY DEF Init, Waiting
    <2>2. Waiting(p, c) /\ [Next]_vars => Waiting(p, c)'
      <3> SUFFICES ASSUME Waiting(p, c), [Next]_vars
                   PROVE  Waiting(p, c)'
        OBVIOUS
      <3>1. CASE ProducerStep(p)
        BY <1>1, <3>1, ProducerWaits
      <3>2. CASE ConsumerStep(c)
        BY <1>1, <3>2, ConsumerWaits
      <3>3. CASE SpuriousWakeup \/ Destroy \/ UNCHANGED vars
        <4>1. size' = size /\ popping' = popping /\ sleeping' \subseteq sleeping
          BY <3>3 DEF SpuriousWakeup, Destroy, vars, list
        <4> QED
          BY <4>1 DEF Waiting
      <3> QED
        BY <1>1, <3>1, <3>2, <3>3 DEF Next
    <2> QED
      BY <2>1, <2>2, PTL DEF Spec
  <1>2. CASE OneToOne
    <2>1. PICK p, c : Producers = {p} /\ Consumers = {c}
      BY <1>2 DEF OneToOne
    <2>2. Waiting(p, c) => SleepsForAReason
      BY <2>1 DEF Waiting, SleepsForAReason
    <2> QED
      BY <1>1, <2>1, <2>2, PTL
  <1>3. CASE ~OneToOne
    <2>1. SleepsForAReason
      BY <1>3 DEF SleepsForAReason
    <2> QED
      BY <2>1, PTL
  <1> QED
    BY <1>2, <1>3

------------------------------------------------------------------------------
(* The walk along the links.                                               *)

\* The nodes from start on are those of s, and the last one ends the list.
Linked(s, start) ==
  /\ s \in Seq(Nodes)
  /\ start = IF s = <<>> THEN Null ELSE s[1]
  /\ s # <<>> => next[s[Len(s)]] = Null
  /\ \A i \in 1 .. Len(s) - 1 : next[s[i]] = s[i + 1]

\* A turn of NodesFrom.
NextNode(before, start) == IF before = <<>> THEN start ELSE next[before[Len(before)]]

Turn(walk, k, start) ==
  IF k = 0 THEN <<>>
  ELSE IF NextNode(walk[k - 1], start) = Null \/ Len(walk[k - 1]) < k - 1 THEN walk[k - 1]
  ELSE Append(walk[k - 1], NextNode(walk[k - 1], start))

\* NodesFrom is a walk, if there is one.
LEMMA WalkTurns ==
  ASSUME NEW start, NEW w, w = [k \in 0 .. Capacity |-> Turn(w, k, start)]
  PROVE  \E walk : /\ walk = [k \in 0 .. Capacity |-> Turn(walk, k, start)]
                   /\ NodesFrom(start) = walk[Capacity]
<1> DEFINE Made(walk) == walk = [k \in 0 .. Capacity |-> Turn(walk, k, start)]
<1>1. Made(CHOOSE walk : Made(walk))
  BY Zenon
<1>2. NodesFrom(start) = (CHOOSE walk : Made(walk))[Capacity]
  BY Zenon DEF NodesFrom, Turn, NextNode
<1> QED
  BY <1>1, <1>2, Zenon

\* The first k nodes of a list.
Begin(s, k) == IF k <= Len(s) THEN SubSeq(s, 1, k) ELSE s

LEMMA BeginFacts ==
  ASSUME NEW s \in Seq(Nodes), NEW k \in Nat
  PROVE  /\ Begin(s, k) \in Seq(Nodes)
         /\ Len(Begin(s, k)) = IF k <= Len(s) THEN k ELSE Len(s)
         /\ \A i \in 1 .. Len(Begin(s, k)) : Begin(s, k)[i] = s[i]
         /\ Begin(s, 0) = <<>>
  BY DEF Begin

LEMMA BeginNext ==
  ASSUME NEW s \in Seq(Nodes), NEW k \in Nat, k < Len(s)
  PROVE  Begin(s, k + 1) = Append(Begin(s, k), s[k + 1])
<1>1. s[k + 1] \in Nodes
  OBVIOUS
<1>2. /\ Begin(s, k) \in Seq(Nodes) /\ Len(Begin(s, k)) = k
      /\ Begin(s, k + 1) \in Seq(Nodes) /\ Len(Begin(s, k + 1)) = k + 1
      /\ \A i \in 1 .. k : Begin(s, k)[i] = s[i]
      /\ \A i \in 1 .. k + 1 : Begin(s, k + 1)[i] = s[i]
  <2>1. k \in Nat /\ k + 1 \in Nat /\ Len(s) \in Nat /\ k <= Len(s) /\ k + 1 <= Len(s)
    OBVIOUS
  <2> QED
    BY <2>1, BeginFacts
<1>3. /\ Append(Begin(s, k), s[k + 1]) \in Seq(Nodes)
      /\ Len(Append(Begin(s, k), s[k + 1])) = k + 1
      /\ \A i \in 1 .. k : Append(Begin(s, k), s[k + 1])[i] = s[i]
      /\ Append(Begin(s, k), s[k + 1])[k + 1] = s[k + 1]
  BY <1>1, <1>2, Ended
<1>4. \A i \in 1 .. k + 1 : Begin(s, k + 1)[i] = Append(Begin(s, k), s[k + 1])[i]
  <2>1. \A i \in 1 .. k + 1 : i \in 1 .. k \/ i = k + 1
    OBVIOUS
  <2>2. k + 1 \in 1 .. k + 1
    OBVIOUS
  <2> QED
    BY <1>2, <1>3, <2>1, <2>2
<1> QED
  BY <1>2, <1>3, <1>4, SequencesEqual

\* A walk that has come to a beginning of the list goes on to the next one.
LEMMA TurnOfBegin ==
  ASSUME NEW start, NEW s, Linked(s, start), NEW k \in Nat, NEW walk,
         walk[k] = Begin(s, k)
  PROVE  Turn(walk, k + 1, start) = Begin(s, k + 1)
<1>1. s \in Seq(Nodes) /\ Len(s) \in Nat
  BY DEF Linked
<1>2. /\ Begin(s, k) \in Seq(Nodes)
      /\ Len(Begin(s, k)) = IF k <= Len(s) THEN k ELSE Len(s)
      /\ \A i \in 1 .. Len(Begin(s, k)) : Begin(s, k)[i] = s[i]
  BY <1>1, BeginFacts
<1>3. k + 1 # 0 /\ (k + 1) - 1 = k
  OBVIOUS
<1>4. CASE k < Len(s)
  <2>1. NextNode(Begin(s, k), start) = s[k + 1]
    <3>1. CASE k = 0
      BY <1>1, <1>4, <3>1, BeginFacts DEF NextNode, Linked
    <3>2. CASE k # 0
      <4>1. Len(Begin(s, k)) = k /\ Begin(s, k) # <<>> /\ Begin(s, k)[k] = s[k]
        BY <1>2, <1>4, <3>2
      <4>2. next[s[k]] = s[k + 1]
        BY <1>4, <3>2 DEF Linked
      <4> QED
        BY <4>1, <4>2 DEF NextNode
    <3> QED
      BY <3>1, <3>2
  <2>2. s[k + 1] # Null
    BY <1>1, <1>4 DEF Nodes
  <2>3. ~(Len(Begin(s, k)) < k)
    BY <1>2, <1>4
  <2>4. walk[(k + 1) - 1] = Begin(s, k) /\ ~(Len(Begin(s, k)) < (k + 1) - 1)
    BY <1>3, <2>3
  <2>5. Turn(walk, k + 1, start) = Append(Begin(s, k), s[k + 1])
    BY <1>3, <2>1, <2>2, <2>4 DEF Turn
  <2> QED
    BY <1>1, <1>4, <2>5, BeginNext
<1>5. CASE k >= Len(s)
  <2>1. Begin(s, k + 1) = s
    BY <1>1, <1>5 DEF Begin
  <2>2. Begin(s, k) = s
    BY <1>1, <1>2, <1>5, SequencesEqual
  <2>3. NextNode(s, start) = Null
    BY <1>1 DEF NextNode, Linked
  <2> QED
    BY <1>3, <2>1, <2>2, <2>3 DEF Turn
<1> QED
  BY <1>1, <1>4, <1>5

\* NodesFrom walks along the whole of a list.
LEMMA WalkOfList ==
  ASSUME NEW start, NEW s, Linked(s, start), Len(s) <= Capacity
  PROVE  NodesFrom(start) = s
<1>1. s \in Seq(Nodes) /\ Len(s) \in Nat
  BY DEF Linked
<1> DEFINE w == [k \in 0 .. Capacity |-> Begin(s, k)]
<1>2. ASSUME NEW k \in 0 .. Capacity PROVE Begin(s, k) = Turn(w, k, start)
  <2>1. CASE k = 0
    BY <1>1, <2>1, BeginFacts DEF Turn
  <2>2. CASE k # 0
    <3>1. k - 1 \in Nat /\ w[k - 1] = Begin(s, k - 1) /\ (k - 1) + 1 = k
      BY <2>2
    <3> HIDE DEF w
    <3> QED
      BY <3>1, TurnOfBegin
  <2> QED
    BY <2>1, <2>2
<1>3. w = [k \in 0 .. Capacity |-> Turn(w, k, start)]
  BY <1>2
<1> HIDE DEF w
<1>4. PICK walk : /\ walk = [k \in 0 .. Capacity |-> Turn(walk, k, start)]
                  /\ NodesFrom(start) = walk[Capacity]
  BY <1>3, WalkTurns
<1>5. \A k \in 0 .. Capacity : walk[k] = Turn(walk, k, start)
  BY <1>4
<1> DEFINE Reached == {k \in 0 .. Capacity : walk[k] = Begin(s, k)}
<1>6. 0 \in Reached
  BY <1>1, <1>5, BeginFacts DEF Turn
<1>7. ASSUME NEW k \in 0 .. Capacity, k < Capacity, k \in Reached PROVE k + 1 \in Reached
  <2>1. Turn(walk, k + 1, start) = Begin(s, k + 1)
    BY <1>7, TurnOfBegin
  <2> QED
    BY <1>5, <1>7, <2>1
<1>8. 0 .. Capacity \subseteq Reached
  <2> HIDE DEF Reached
  <2> QED
    BY <1>6, <1>7, UpTo
<1>9. walk[Capacity] = Begin(s, Capacity)
  BY <1>8
<1>10. Begin(s, Capacity) = s
  BY <1>1, BeginFacts, SequencesEqual
<1> QED
  BY <1>4, <1>9, <1>10

------------------------------------------------------------------------------
(* The two lists.                                                          *)

Distinct(s) == \A i, k \in 1 .. Len(s) : s[i] = s[k] => i = k

\* The nodes that hold values, in their order, and the free ones.
Lists(used, free) ==
  /\ Linked(used, head) /\ Distinct(used)
  /\ Linked(free, freeList) /\ Distinct(free)
  /\ Len(used) = size /\ Len(free) = Capacity - size
  /\ \A i \in 1 .. Len(used) : \A k \in 1 .. Len(free) : used[i] # free[k]
  /\ \A n \in Nodes : (\E i \in 1 .. Len(used) : used[i] = n)
                      \/ \E k \in 1 .. Len(free) : free[k] = n
  /\ tail = IF size = 0 THEN Null ELSE used[size]

ListInv == TypeOK /\ \E used, free \in Seq(Nodes) : Lists(used, free)

LEMMA ListsInit == ASSUME Init PROVE ListInv
<1>1. TypeOK
  <2>1. next \in [Nodes -> Nodes \cup {Null}]
    BY DEF Init, FreeChain, Nodes
  <2>2. 0 \in Nodes /\ size \in 0 .. Capacity
    BY DEF Init, Nodes
  <2> QED
    BY <2>1, <2>2 DEF Init, TypeOK
<1> DEFINE free == [k \in 1 .. Capacity |-> k - 1]
<1>2. <<>> \in Seq(Nodes) /\ Len(<<>>) = 0
  OBVIOUS
<1>3. free \in Seq(Nodes) /\ Len(free) = Capacity /\ \A k \in 1 .. Capacity : free[k] = k - 1
  BY DEF Nodes
<1> HIDE DEF free
<1>4. Linked(<<>>, head) /\ Distinct(<<>>)
  BY <1>2 DEF Init, Linked, Distinct
<1>5. free # <<>> /\ free[1] = 0 /\ free[Len(free)] = Capacity - 1
  BY <1>2, <1>3
<1>6. Linked(free, freeList) /\ Distinct(free)
  <2>1. next[Capacity - 1] = Null
    BY DEF Init, FreeChain, Nodes
  <2>2. ASSUME NEW k \in 1 .. Capacity - 1 PROVE next[free[k]] = free[k + 1]
    <3>1. free[k] = k - 1 /\ free[k + 1] = k
      BY <1>3
    <3>2. k - 1 \in Nodes /\ k - 1 # Capacity - 1
      BY DEF Nodes
    <3>3. next[k - 1] = k
      BY <3>2 DEF Init, FreeChain
    <3> QED
      BY <3>1, <3>3
  <2>3. Distinct(free)
    BY <1>3 DEF Distinct
  <2>4. freeList = 0
    BY DEF Init
  <2> QED
    BY <1>3, <1>5, <2>1, <2>2, <2>3, <2>4 DEF Linked
<1>7. \A n \in Nodes : \E k \in 1 .. Len(free) : free[k] = n
  <2>1. ASSUME NEW n \in Nodes PROVE n + 1 \in 1 .. Len(free) /\ free[n + 1] = n
    BY <1>3 DEF Nodes
  <2> QED
    BY <2>1
<1>8. Lists(<<>>, free)
  BY <1>2, <1>3, <1>4, <1>6, <1>7 DEF Init, Lists
<1> QED
  BY <1>1, <1>2, <1>3, <1>8 DEF ListInv

\* A push takes the first free node and ends the list with it.
LEMMA PushLists ==
  ASSUME TypeOK, NEW used \in Seq(Nodes), NEW free \in Seq(Nodes), Lists(used, free),
         NEW p, NEW v, Push(p, v)
  PROVE  /\ free # <<>>
         /\ Append(used, free[1]) \in Seq(Nodes) /\ Tail(free) \in Seq(Nodes)
         /\ Lists(Append(used, free[1]), Tail(free))'
<1>1. size \in Nat /\ size < Capacity /\ Len(free) = Capacity - size /\ Len(used) = size
  BY DEF TypeOK, Push, Lists
<1>2. free # <<>> /\ free[1] \in Nodes /\ Len(free) \in Nat \ {0}
  BY <1>1, Shortened
<1>3. PICK n \in Nodes : n = free[1] /\ n = freeList
  BY <1>2 DEF Lists, Linked
<1>4. /\ 1 \in 1 .. Len(free)
       /\ \A k \in 2 .. Len(free) : k \in 1 .. Len(free) /\ k # 1
  BY <1>2
<1>5. \A k \in 2 .. Len(free) : free[k] # n
  BY <1>3, <1>4 DEF Lists, Distinct
<1> DEFINE u == Append(used, n)
           f == Tail(free)
<1>6. /\ u \in Seq(Nodes) /\ Len(u) = size + 1
      /\ \A i \in 1 .. size : u[i] = used[i]
      /\ u[size + 1] = n
  BY <1>1, <1>3, Ended
<1>7. /\ f \in Seq(Nodes) /\ Len(f) = Len(free) - 1
      /\ \A k \in 1 .. Len(free) - 1 : f[k] = free[k + 1]
  BY <1>2, Shortened
<1> HIDE DEF u, f
<1>8. /\ \A m \in Nodes : next'[m] = IF m = n THEN Null ELSE IF m = tail THEN n ELSE next[m]
      /\ head' = IF tail = Null THEN n ELSE head
      /\ tail' = n /\ size' = size + 1 /\ freeList' = next[n]
  BY <1>3 DEF Push, NextAfterPush
<1>9. \A i \in 1 .. size : used[i] # n /\ used[i] \in Nodes
  <2>1. ASSUME NEW i \in 1 .. size PROVE used[i] # n /\ used[i] \in Nodes
    <3>1. i \in 1 .. Len(used)
      BY <1>1
    <3>2. used[i] # free[1]
      BY <1>4, <3>1 DEF Lists
    <3> QED
      BY <1>3, <3>1, <3>2
  <2> QED
    BY <2>1
<1>10. tail = IF size = 0 THEN Null ELSE used[size]
  BY DEF Lists
<1>11. Linked(u, head)'
  <2>1. u # <<>> /\ next'[u[Len(u)]] = Null
    BY <1>1, <1>6, <1>8
  <2>2. head' = u[1]
    <3>1. CASE size = 0
      BY <1>6, <1>8, <1>10, <3>1
    <3>2. CASE size # 0
      <4>1. used[size] \in Nodes /\ Null \notin Nodes
        BY <1>1, <1>9, <3>2 DEF Nodes
      <4>2. head = used[1] /\ u[1] = used[1]
        BY <1>1, <1>6, <3>2 DEF Lists, Linked
      <4> QED
        BY <1>8, <1>10, <3>2, <4>1, <4>2
    <3> QED
      BY <3>1, <3>2
  <2>3. ASSUME NEW i \in 1 .. Len(u) - 1 PROVE next'[u[i]] = u[i + 1]
    <3>1. i \in 1 .. size /\ u[i] = used[i] /\ used[i] \in Nodes /\ used[i] # n
      BY <1>1, <1>6, <1>9, <2>3
    <3>2. CASE i = size
      BY <1>6, <1>8, <1>10, <3>1, <3>2
    <3>3. CASE i # size
      <4>1. i \in 1 .. Len(used) - 1 /\ i + 1 \in 1 .. size /\ size \in 1 .. size
        BY <1>1, <3>1, <3>3
      <4>2. used[i] # used[size]
        BY <1>1, <3>1, <3>3, <4>1 DEF Lists, Distinct
      <4>3. next[used[i]] = used[i + 1]
        BY <4>1 DEF Lists, Linked
      <4> QED
        BY <1>6, <1>8, <1>10, <3>1, <4>1, <4>2, <4>3
    <3> QED
      BY <3>2, <3>3
  <2> QED
    BY <1>6, <2>1, <2>2, <2>3 DEF Linked
<1>12. Linked(f, freeList)'
  <2>1. \A k \in 1 .. Len(free) : free[k] \in Nodes
    OBVIOUS
  <2>2. \A k \in 2 .. Len(free) : free[k] # n /\ free[k] # tail
    <3>1. ASSUME NEW k \in 2 .. Len(free) PROVE free[k] # n /\ free[k] # tail
      <4>1. free[k] # n
        BY <1>5, <3>1
      <4>2. CASE size = 0
        BY <1>10, <2>1, <3>1, <4>2, <4>1 DEF Nodes
      <4>3. CASE size # 0
        BY <1>1, <1>10, <3>1, <4>1, <4>3 DEF Lists
      <4> QED
        BY <4>1, <4>2, <4>3
    <3> QED
      BY <3>1
  <2>3. freeList' = IF f = <<>> THEN Null ELSE f[1]
    <3>1. CASE Len(free) = 1
      <4>1. f = <<>> /\ next[n] = Null
        BY <1>2, <1>3, <1>7, <3>1 DEF Lists, Linked
      <4> QED
        BY <1>8, <4>1
    <3>2. CASE Len(free) # 1
      <4>1. f # <<>> /\ f[1] = free[2] /\ next[n] = free[2]
        BY <1>2, <1>3, <1>7, <3>2 DEF Lists, Linked
      <4> QED
        BY <1>8, <4>1
    <3> QED
      BY <3>1, <3>2
  <2>4. \A k \in 2 .. Len(free) : next'[free[k]] = next[free[k]]
    BY <1>2, <1>8, <2>1, <2>2
  <2>5. ASSUME f # <<>> PROVE next'[f[Len(f)]] = Null
    <3>1. Len(free) \in 2 .. Len(free) /\ f[Len(f)] = free[Len(free)]
      BY <1>2, <1>7, <2>5
    <3>2. next[free[Len(free)]] = Null
      BY <1>2 DEF Lists, Linked
    <3> QED
      BY <2>4, <3>1, <3>2
  <2>6. ASSUME NEW k \in 1 .. Len(f) - 1 PROVE next'[f[k]] = f[k + 1]
    <3>1. /\ k + 1 \in 2 .. Len(free) /\ k + 1 \in 1 .. Len(free) - 1
          /\ f[k] = free[k + 1] /\ f[k + 1] = free[(k + 1) + 1]
      BY <1>2, <1>7, <2>6
    <3>2. next[free[k + 1]] = free[(k + 1) + 1]
      BY <3>1 DEF Lists, Linked
    <3> QED
      BY <2>4, <3>1, <3>2
  <2> QED
    BY <1>7, <2>3, <2>5, <2>6 DEF Linked
<1>13. Distinct(u) /\ Distinct(f)
  <2>1. Distinct(u)
    <3>1. \A i \in 1 .. Len(u) : i \in 1 .. size \/ i = size + 1
      BY <1>1, <1>6
    <3>2. \A i, k \in 1 .. size : used[i] = used[k] => i = k
      BY <1>1 DEF Lists, Distinct
    <3> QED
      BY <1>6, <1>9, <3>1, <3>2 DEF Distinct
  <2>2. Distinct(f)
    <3>1. \A k \in 1 .. Len(f) : k + 1 \in 1 .. Len(free) /\ f[k] = free[k + 1]
      BY <1>2, <1>7
    <3>2. \A i, k \in 1 .. Len(free) : free[i] = free[k] => i = k
      BY DEF Lists, Distinct
    <3>3. \A i, k \in 1 .. Len(f) : i + 1 = k + 1 => i = k
      OBVIOUS
    <3> QED
      BY <3>1, <3>2, <3>3 DEF Distinct
  <2> QED
    BY <2>1, <2>2
<1>14. \A i \in 1 .. Len(u) : \A k \in 1 .. Len(f) : u[i] # f[k]
  <2>1. \A k \in 1 .. Len(f) : k + 1 \in 2 .. Len(free) /\ f[k] = free[k + 1]
    BY <1>2, <1>7
  <2>2. \A k \in 2 .. Len(free) : free[k] # n /\ k \in 1 .. Len(free)
    BY <1>4, <1>5
  <2>3. \A i \in 1 .. Len(u) : i \in 1 .. size \/ i = size + 1
    BY <1>1, <1>6
  <2>4. \A i \in 1 .. size : \A k \in 1 .. Len(free) : used[i] # free[k]
    BY <1>1 DEF Lists
  <2> QED
    BY <1>6, <2>1, <2>2, <2>3, <2>4
<1>15. ASSUME NEW m \in Nodes
       PROVE  (\E i \in 1 .. Len(u) : u[i] = m) \/ \E k \in 1 .. Len(f) : f[k] = m
  <2>1. CASE \E i \in 1 .. Len(used) : used[i] = m
    <3>1. PICK i \in 1 .. Len(used) : used[i] = m
      BY <2>1
    <3>2. i \in 1 .. Len(u) /\ u[i] = m
      BY <1>1, <1>6, <3>1
    <3> QED
      BY <3>2
  <2>2. CASE \E k \in 1 .. Len(free) : free[k] = m
    <3>1. PICK k \in 1 .. Len(free) : free[k] = m
      BY <2>2
    <3>2. CASE k = 1
      <4>1. m = n
        BY <1>3, <3>1, <3>2
      <4>2. size + 1 \in 1 .. Len(u) /\ u[size + 1] = m
        BY <1>1, <1>6, <4>1
      <4> QED
        BY <4>2
    <3>3. CASE k # 1
      <4>1. k - 1 \in 1 .. Len(f) /\ f[k - 1] = m
        BY <1>2, <1>7, <3>1, <3>3
      <4> QED
        BY <4>1
    <3> QED
      BY <3>2, <3>3
  <2> QED
    BY <2>1, <2>2 DEF Lists
<1>16. Lists(u, f)'
  <2>1. Len(u) = size' /\ Len(f) = Capacity - size'
    BY <1>1, <1>2, <1>6, <1>7, <1>8
  <2>2. tail' = IF size' = 0 THEN Null ELSE u[size']
    BY <1>1, <1>6, <1>8
  <2> QED
    BY <1>11, <1>12, <1>13, <1>14, <1>15, <2>1, <2>2 DEF Lists, Distinct
<1> QED
  BY <1>2, <1>3, <1>6, <1>7, <1>16 DEF u, f

\* A pop takes the first node of the list and makes it the first free one.
LEMMA TakeLists ==
  ASSUME TypeOK, NEW used \in Seq(Nodes), NEW free \in Seq(Nodes), Lists(used, free),
         TakeFirst
  PROVE  /\ used # <<>> /\ used[1] = head /\ head \in Nodes
         /\ Tail(used) \in Seq(Nodes) /\ <<used[1]>> \o free \in Seq(Nodes)
         /\ Lists(Tail(used), <<used[1]>> \o free)'
<1>1. size \in Nat \ {0} /\ Len(free) = Capacity - size /\ Len(used) = size
      /\ Len(free) \in Nat
  BY DEF TypeOK, TakeFirst, Lists
<1>2. used # <<>> /\ used[1] \in Nodes
  BY <1>1, Shortened
<1>3. PICK n \in Nodes : n = used[1] /\ n = head
  BY <1>2 DEF Lists, Linked
<1>4. /\ 1 \in 1 .. size
      /\ \A i \in 2 .. size : i \in 1 .. size /\ i # 1
  BY <1>1
<1>5. \A i \in 1 .. size : used[i] \in Nodes
  BY <1>1
<1>6. \A i \in 2 .. size : used[i] # n
  BY <1>1, <1>3, <1>4 DEF Lists, Distinct
<1>7. \A k \in 1 .. Len(free) : free[k] \in Nodes /\ free[k] # n
  <2>1. 1 \in 1 .. Len(used)
    BY <1>1
  <2>2. \A k \in 1 .. Len(free) : used[1] # free[k]
    BY <2>1 DEF Lists
  <2>3. \A k \in 1 .. Len(free) : free[k] \in Nodes
    OBVIOUS
  <2> QED
    BY <1>3, <2>2, <2>3
<1> DEFINE u == Tail(used)
           f == <<n>> \o free
<1>8. /\ u \in Seq(Nodes) /\ Len(u) = size - 1
      /\ \A i \in 1 .. size - 1 : u[i] = used[i + 1]
  BY <1>1, <1>2, Shortened
<1>9. /\ f \in Seq(Nodes) /\ Len(f) = Len(free) + 1 /\ f[1] = n
      /\ \A k \in 1 .. Len(free) : f[k + 1] = free[k]
  BY <1>3, Headed
<1> HIDE DEF u, f
<1>10. /\ \A m \in Nodes : next'[m] = IF m = n THEN freeList ELSE next[m]
       /\ head' = next[n] /\ freeList' = n /\ size' = size - 1
       /\ tail' = IF next[n] = Null THEN Null ELSE tail
  BY <1>3 DEF TakeFirst, TailAfterPop, TypeOK
<1>11. tail = used[size]
  BY <1>1 DEF Lists
<1>12. /\ next[n] = IF size = 1 THEN Null ELSE used[2]
       /\ size # 1 => used[2] # Null
  <2>1. CASE size = 1
    BY <1>1, <1>2, <1>3, <2>1 DEF Lists, Linked
  <2>2. CASE size # 1
    <3>1. 1 \in 1 .. Len(used) - 1 /\ 2 \in 1 .. size /\ 1 + 1 = 2
      BY <1>1, <2>2
    <3>2. next[used[1]] = used[1 + 1]
      BY <3>1 DEF Lists, Linked
    <3>3. used[2] # Null
      BY <1>5, <3>1 DEF Nodes
    <3> QED
      BY <1>3, <2>2, <3>1, <3>2, <3>3
  <2> QED
    BY <2>1, <2>2
<1>13. size # 1 => u # <<>> /\ u[1] = used[2] /\ u[Len(u)] = used[size]
  <2> SUFFICES ASSUME size # 1 PROVE u # <<>> /\ u[1] = used[2] /\ u[Len(u)] = used[size]
    OBVIOUS
  <2>1. 1 \in 1 .. size - 1 /\ size - 1 \in 1 .. size - 1 /\ 1 + 1 = 2 /\ (size - 1) + 1 = size
    BY <1>1
  <2>2. u[1] = used[2] /\ u[size - 1] = used[size]
    BY <1>8, <2>1
  <2> QED
    BY <1>1, <1>8, <2>2
<1>14. Linked(u, head)'
  <2>1. head' = IF u = <<>> THEN Null ELSE u[1]
    <3>1. CASE size = 1
      BY <1>8, <1>10, <1>12, <3>1
    <3>2. CASE size # 1
      BY <1>10, <1>12, <1>13, <3>2
    <3> QED
      BY <3>1, <3>2
  <2>2. ASSUME u # <<>> PROVE next'[u[Len(u)]] = Null
    <3>1. size # 1 /\ size \in 2 .. size
      BY <1>1, <1>8, <2>2
    <3>2. next[used[size]] = Null
      BY <1>1, <1>2 DEF Lists, Linked
    <3> QED
      BY <1>4, <1>5, <1>6, <1>10, <1>13, <3>1, <3>2
  <2>3. ASSUME NEW i \in 1 .. Len(u) - 1 PROVE next'[u[i]] = u[i + 1]
    <3>1. /\ i + 1 \in 2 .. size /\ i + 1 \in 1 .. Len(used) - 1
          /\ u[i] = used[i + 1] /\ u[i + 1] = used[(i + 1) + 1]
      BY <1>1, <1>8, <2>3
    <3>2. next[used[i + 1]] = used[(i + 1) + 1]
      BY <3>1 DEF Lists, Linked
    <3> QED
      BY <1>4, <1>5, <1>6, <1>10, <3>1, <3>2
  <2> QED
    BY <1>8, <2>1, <2>2, <2>3 DEF Linked
<1>15. Linked(f, freeList)'
  <2>1. freeList = IF free = <<>> THEN Null ELSE free[1]
    BY DEF Lists, Linked
  <2>2. ASSUME NEW k \in 1 .. Len(f) - 1 PROVE next'[f[k]] = f[k + 1]
    <3>1. CASE k = 1
      <4>1. free # <<>> /\ 1 \in 1 .. Len(free) /\ f[1 + 1] = free[1]
        BY <1>1, <1>9, <2>2, <3>1
      <4> QED
        BY <1>9, <1>10, <2>1, <3>1, <4>1
    <3>2. CASE k # 1
      <4>1. /\ k - 1 \in 1 .. Len(free) - 1 /\ k - 1 \in 1 .. Len(free) /\ k \in 1 .. Len(free)
            /\ (k - 1) + 1 = k
        BY <1>1, <1>9, <2>2, <3>2
      <4>2. f[k] = free[k - 1] /\ f[k + 1] = free[k]
        BY <1>9, <4>1
      <4>3. next[free[k - 1]] = free[k]
        BY <4>1 DEF Lists, Linked
      <4> QED
        BY <1>7, <1>10, <4>1, <4>2, <4>3
    <3> QED
      BY <3>1, <3>2
  <2>3. f # <<>> /\ next'[f[Len(f)]] = Null
    <3>1. CASE free = <<>>
      <4>1. Len(f) = 1
        BY <1>9, <3>1
      <4> QED
        BY <1>9, <1>10, <2>1, <3>1, <4>1
    <3>2. CASE free # <<>>
      <4>1. Len(free) \in 1 .. Len(free)
        BY <1>1, <3>2
      <4>2. f[Len(f)] = free[Len(free)] /\ f # <<>>
        BY <1>1, <1>9, <4>1
      <4>3. next[free[Len(free)]] = Null
        BY <3>2 DEF Lists, Linked
      <4> QED
        BY <1>7, <1>10, <4>1, <4>2, <4>3
    <3> QED
      BY <3>1, <3>2
  <2> QED
    BY <1>9, <1>10, <2>2, <2>3 DEF Linked
<1>16. Distinct(u) /\ Distinct(f)
  <2>1. Distinct(u)
    <3>1. \A i \in 1 .. Len(u) : i + 1 \in 1 .. Len(used) /\ u[i] = used[i + 1]
      BY <1>1, <1>8
    <3>2. \A i, k \in 1 .. Len(used) : used[i] = used[k] => i = k
      BY DEF Lists, Distinct
    <3>3. \A i, k \in 1 .. Len(u) : i + 1 = k + 1 => i = k
      OBVIOUS
    <3> QED
      BY <3>1, <3>2, <3>3 DEF Distinct
  <2>2. Distinct(f)
    <3>1. \A k \in 1 .. Len(f) : k = 1 \/ (k - 1 \in 1 .. Len(free) /\ f[k] = free[k - 1])
      <4>1. ASSUME NEW k \in 1 .. Len(f), k # 1
            PROVE  k - 1 \in 1 .. Len(free) /\ f[k] = free[k - 1]
        <5>1. k - 1 \in 1 .. Len(free) /\ (k - 1) + 1 = k
          BY <1>1, <1>9, <4>1
        <5> QED
          BY <1>9, <5>1
      <4> QED
        BY <4>1
    <3>2. \A i, k \in 1 .. Len(free) : free[i] = free[k] => i = k
      BY DEF Lists, Distinct
    <3>3. ASSUME NEW i \in 1 .. Len(f), NEW k \in 1 .. Len(f), f[i] = f[k] PROVE i = k
      <4>1. CASE i = 1 \/ k = 1
        BY <1>7, <1>9, <3>1, <3>3, <4>1
      <4>2. CASE i # 1 /\ k # 1
        <5>1. i - 1 = k - 1
          BY <3>1, <3>2, <3>3, <4>2
        <5> QED
          BY <5>1
      <4> QED
        BY <4>1, <4>2
    <3> QED
      BY <3>3 DEF Distinct
  <2> QED
    BY <2>1, <2>2
<1>17. \A i \in 1 .. Len(u) : \A k \in 1 .. Len(f) : u[i] # f[k]
  <2>1. \A i \in 1 .. Len(u) : i + 1 \in 2 .. size /\ u[i] = used[i + 1]
    BY <1>1, <1>8
  <2>2. ASSUME NEW i \in 1 .. Len(u), NEW k \in 1 .. Len(f), k # 1 PROVE u[i] # f[k]
    <3>1. k - 1 \in 1 .. Len(free) /\ (k - 1) + 1 = k
      BY <1>1, <1>9, <2>2
    <3>2. f[k] = free[k - 1]
      BY <1>9, <3>1
    <3>3. used[i + 1] # free[k - 1]
      BY <1>1, <1>4, <2>1, <3>1 DEF Lists
    <3> QED
      BY <2>1, <3>2, <3>3
  <2> QED
    BY <1>6, <1>9, <2>1, <2>2
<1>18. ASSUME NEW m \in Nodes
       PROVE  (\E i \in 1 .. Len(u) : u[i] = m) \/ \E k \in 1 .. Len(f) : f[k] = m
  <2>1. CASE \E i \in 1 .. Len(used) : used[i] = m
    <3>1. PICK i \in 1 .. Len(used) : used[i] = m
      BY <2>1
    <3>2. CASE i = 1
      <4>1. 1 \in 1 .. Len(f)
        BY <1>1, <1>9
      <4>2. f[1] = m
        BY <1>3, <1>9, <3>1, <3>2
      <4> QED
        BY <4>1, <4>2
    <3>3. CASE i # 1
      <4>1. i - 1 \in 1 .. Len(u) /\ (i - 1) + 1 = i
        BY <1>1, <1>8, <3>1, <3>3
      <4>2. u[i - 1] = m
        BY <1>8, <3>1, <4>1
      <4> QED
        BY <4>1, <4>2
    <3> QED
      BY <3>2, <3>3
  <2>2. CASE \E k \in 1 .. Len(free) : free[k] = m
    <3>1. PICK k \in 1 .. Len(free) : free[k] = m
      BY <2>2
    <3>2. k + 1 \in 1 .. Len(f) /\ f[k + 1] = m
      BY <1>1, <1>9, <3>1
    <3> QED
      BY <3>2
  <2> QED
    BY <2>1, <2>2 DEF Lists
<1>19. Lists(u, f)'
  <2>1. Len(u) = size' /\ Len(f) = Capacity - size'
    BY <1>1, <1>8, <1>9, <1>10
  <2>2. tail' = IF size' = 0 THEN Null ELSE u[size']
    <3>1. CASE size = 1
      BY <1>10, <1>12, <3>1
    <3>2. CASE size # 1
      <4>1. tail' = used[size] /\ size' = size - 1 /\ size' # 0 /\ Len(u) = size'
        BY <1>1, <1>8, <1>10, <1>11, <1>12, <3>2
      <4> QED
        BY <1>13, <3>2, <4>1
    <3> QED
      BY <3>1, <3>2
  <2> QED
    BY <1>14, <1>15, <1>16, <1>17, <1>18, <2>1, <2>2 DEF Lists, Distinct
<1> QED
  BY <1>2, <1>3, <1>8, <1>9, <1>19 DEF u, f

\* What the calls leave as it is, and the types.
LEMMA TypeKept == ASSUME ListInv, [Next]_vars PROVE TypeOK'
<1>1. PICK used, free \in Seq(Nodes) : Lists(used, free)
  BY DEF ListInv
<1>2. TypeOK
  BY DEF ListInv
<1>3. ASSUME NEW p \in Producers, NEW v \in Values, Push(p, v) PROVE TypeOK'
  <2>1. free # <<>> /\ Append(used, free[1]) \in Seq(Nodes) /\ Tail(free) \in Seq(Nodes)
        /\ Lists(Append(used, free[1]), Tail(free))'
    BY <1>1, <1>2, <1>3, PushLists
  <2>2. free[1] \in Nodes /\ free[1] = freeList
    BY <1>1, <2>1 DEF Lists, Linked
  <2>3. /\ data' \in [Nodes -> Values] /\ next' \in [Nodes -> Nodes \cup {Null}]
        /\ head' \in Nodes \cup {Null} /\ tail' \in Nodes \cup {Null}
        /\ freeList' \in Nodes \cup {Null}
    BY <1>2, <1>3, <2>2 DEF Push, TypeOK, NextAfterPush
  <2>4. size' \in 0 .. Capacity
    BY <1>2, <1>3 DEF Push, TypeOK
  <2>5. /\ pushing' \in [Producers -> Values \cup {NoValue}] /\ popping' \subseteq Consumers
        /\ got' \in Values /\ alive' \in BOOLEAN
    BY <1>2, <1>3 DEF Push, TypeOK
  <2>6. sleeping' \subseteq {q \in Producers : pushing'[q] # NoValue} \cup popping'
    <3>1. sleeping' \subseteq sleeping
      BY <1>3 DEF Push, WakeOne
    <3>2. p \notin sleeping /\ popping' = popping
          /\ \A q \in Producers : q # p => pushing'[q] = pushing[q]
      BY <1>2, <1>3 DEF Push, TestsRoom, TypeOK
    <3> QED
      BY <1>2, <3>1, <3>2 DEF TypeOK
  <2> QED
    BY <2>3, <2>4, <2>5, <2>6 DEF TypeOK
<1>4. ASSUME NEW p \in Producers, NEW v \in Values, PushWaits(p, v) PROVE TypeOK'
  <2>1. UNCHANGED <<data, next, head, tail, freeList, size, popping, got, alive>>
    BY <1>4 DEF PushWaits, list
  <2>2. /\ pushing' = [pushing EXCEPT ![p] = v] /\ sleeping' = sleeping \cup {p}
        /\ v # NoValue
    BY <1>4 DEF PushWaits
  <2>3. sleeping' \subseteq {q \in Producers : pushing'[q] # NoValue} \cup popping'
    BY <1>2, <2>1, <2>2 DEF TypeOK
  <2> QED
    BY <1>2, <2>1, <2>2, <2>3 DEF TypeOK
<1>5. ASSUME NEW c \in Consumers, Pop(c) \/ PopNowait(c) PROVE TypeOK'
  <2>1. TakeFirst /\ UNCHANGED <<pushing, alive>> /\ c \notin sleeping \cap popping
        /\ popping' \subseteq popping /\ popping \subseteq popping' \cup {c}
        /\ (c \in popping => popping' = popping \ {c} /\ c \notin sleeping)
    BY <1>5 DEF Pop, PopNowait
  <2>2. used # <<>> /\ used[1] = head /\ head \in Nodes
    BY <1>1, <1>2, <2>1, TakeLists
  <2>3. /\ data' = data /\ next' \in [Nodes -> Nodes \cup {Null}]
        /\ head' \in Nodes \cup {Null} /\ tail' \in Nodes \cup {Null}
        /\ freeList' \in Nodes \cup {Null} /\ got' \in Values
    BY <1>2, <2>1, <2>2 DEF TakeFirst, TypeOK, TailAfterPop, OldestValue
  <2>4. size' \in 0 .. Capacity
    BY <1>2, <2>1 DEF TakeFirst, TypeOK
  <2>5. sleeping' \subseteq sleeping
    BY <2>1 DEF TakeFirst, WakeOne
  <2>6. sleeping' \subseteq {q \in Producers : pushing'[q] # NoValue} \cup popping'
    BY <1>2, <2>1, <2>5 DEF TypeOK
  <2> QED
    BY <1>2, <2>1, <2>3, <2>4, <2>6 DEF TypeOK
<1>6. ASSUME NEW c \in Consumers, PopWaits(c) PROVE TypeOK'
  BY <1>2, <1>6 DEF PopWaits, TypeOK, list
<1>7. CASE SpuriousWakeup \/ Destroy \/ UNCHANGED vars
  <2>1. /\ UNCHANGED <<data, next, head, tail, freeList, size, pushing, popping, got>>
        /\ sleeping' \subseteq sleeping /\ alive' \in BOOLEAN
    BY <1>2, <1>7 DEF SpuriousWakeup, Destroy, vars, list, TypeOK
  <2> QED
    BY <1>2, <2>1 DEF TypeOK
<1> QED
  BY <1>3, <1>4, <1>5, <1>6, <1>7 DEF Next, ProducerStep, ConsumerStep

LEMMA ListStep == ASSUME ListInv, [Next]_vars PROVE ListInv'
<1>1. TypeOK'
  BY TypeKept
<1>2. PICK used, free \in Seq(Nodes) : Lists(used, free)
  BY DEF ListInv
<1>3. TypeOK
  BY DEF ListInv
<1>4. ASSUME NEW p \in Producers, NEW v \in Values, Push(p, v)
      PROVE  \E u, f \in Seq(Nodes) : Lists(u, f)'
  <2>1. /\ Append(used, free[1]) \in Seq(Nodes) /\ Tail(free) \in Seq(Nodes)
        /\ Lists(Append(used, free[1]), Tail(free))'
    BY <1>2, <1>3, <1>4, PushLists
  <2> QED
    BY <2>1
<1>5. ASSUME NEW c \in Consumers, Pop(c) \/ PopNowait(c)
      PROVE  \E u, f \in Seq(Nodes) : Lists(u, f)'
  <2>1. TakeFirst
    BY <1>5 DEF Pop, PopNowait
  <2>2. /\ Tail(used) \in Seq(Nodes) /\ <<used[1]>> \o free \in Seq(Nodes)
        /\ Lists(Tail(used), <<used[1]>> \o free)'
    BY <1>2, <1>3, <2>1, TakeLists
  <2> QED
    BY <2>2
<1>6. ASSUME UNCHANGED list PROVE \E u, f \in Seq(Nodes) : Lists(u, f)'
  <2>1. Lists(used, free)'
    BY <1>2, <1>6 DEF Lists, Linked, Distinct, list
  <2> QED
    BY <2>1
<1>7. \/ \E p \in Producers, v \in Values : Push(p, v)
      \/ \E c \in Consumers : Pop(c) \/ PopNowait(c)
      \/ UNCHANGED list
  BY DEF Next, ProducerStep, ConsumerStep, PushWaits, PopWaits, SpuriousWakeup, Destroy, vars
<1> QED
  BY <1>1, <1>4, <1>5, <1>6, <1>7 DEF ListInv

\* What the two walks find.
LEMMA WalksFind ==
  ASSUME TypeOK, NEW used \in Seq(Nodes), NEW free \in Seq(Nodes), Lists(used, free)
  PROVE  NodesFrom(head) = used /\ NodesFrom(freeList) = free
<1>1. size \in 0 .. Capacity /\ Len(used) = size /\ Len(free) = Capacity - size
  BY DEF TypeOK, Lists
<1>2. Linked(used, head) /\ Linked(free, freeList)
  BY DEF Lists
<1>3. Len(used) <= Capacity /\ Len(free) <= Capacity
  BY <1>1
<1>4. NodesFrom(head) = used
  BY <1>2, <1>3, WalkOfList
<1>5. NodesFrom(freeList) = free
  BY <1>2, <1>3, WalkOfList
<1> QED
  BY <1>4, <1>5

LEMMA ListsAreSound == ASSUME ListInv PROVE ListSound
<1>1. PICK used, free \in Seq(Nodes) : Lists(used, free)
  BY DEF ListInv
<1>2. TypeOK
  BY DEF ListInv
<1>3. NodesFrom(head) = used /\ NodesFrom(freeList) = free
  BY <1>1, <1>2, WalksFind
<1>4. NodesIn(used) = {used[i] : i \in 1 .. Len(used)}
      /\ NodesIn(free) = {free[k] : k \in 1 .. Len(free)}
  BY DEF NodesIn
<1>5. NodesIn(used) \cap NodesIn(free) = {}
  BY <1>1, <1>4 DEF Lists
<1>6. NodesIn(used) \cup NodesIn(free) = Nodes
  <2>1. NodesIn(used) \subseteq Nodes /\ NodesIn(free) \subseteq Nodes
    BY <1>4
  <2>2. Nodes \subseteq NodesIn(used) \cup NodesIn(free)
    BY <1>1, <1>4 DEF Lists
  <2> QED
    BY <2>1, <2>2
<1>7. /\ Len(used) = size /\ Len(free) = Capacity - size
      /\ tail = IF size = 0 THEN Null ELSE used[size]
      /\ used = <<>> \/ next[used[Len(used)]] = Null
      /\ free = <<>> \/ next[free[Len(free)]] = Null
  BY <1>1 DEF Lists, Linked
<1>8. \A s \in {used, free} : s = <<>> \/ next[s[Len(s)]] = Null
  BY <1>7
<1> QED
  BY <1>2, <1>3, <1>5, <1>6, <1>7, <1>8 DEF ListSound

\* The list and the free list share the nodes among them, whatever the
\* capacity and however many threads push and pop.
THEOREM ListsShareTheNodes == Spec => []ListSound
<1>1. Init => ListInv
  BY ListsInit
<1>2. ListInv /\ [Next]_vars => ListInv'
  BY ListStep
<1>3. ListInv => ListSound
  BY ListsAreSound
<1> QED
  BY <1>1, <1>2, <1>3, PTL DEF Spec

------------------------------------------------------------------------------
(* The channel is a bounded FIFO.                                          *)

Stored(used) == [i \in 1 .. Len(used) |-> data[used[i]]]

\* The queue is read off the list, whichever nodes it runs through.
QueueIsRead ==
  \A used, free \in Seq(Nodes) : Lists(used, free) => Queue = Stored(used)

LEMMA QueueOfList == ASSUME ListInv PROVE QueueIsRead
<1> SUFFICES ASSUME NEW used \in Seq(Nodes), NEW free \in Seq(Nodes), Lists(used, free)
             PROVE  Queue = Stored(used)
  BY DEF QueueIsRead
<1>1. NodesFrom(head) = used
  BY WalksFind DEF ListInv
<1>2. DOMAIN used = 1 .. Len(used)
  OBVIOUS
<1> QED
  BY <1>1, <1>2 DEF Queue, Stored

LEMMA StoredType ==
  ASSUME TypeOK, NEW used \in Seq(Nodes)
  PROVE  /\ Stored(used) \in Seq(Values) /\ Len(Stored(used)) = Len(used)
         /\ Len(used) \in Nat
         /\ \A i \in 1 .. Len(used) : Stored(used)[i] = data[used[i]]
<1>1. \A i \in 1 .. Len(used) : data[used[i]] \in Values
  BY DEF TypeOK
<1>2. Len(used) \in Nat
  OBVIOUS
<1> QED
  BY <1>1, <1>2 DEF Stored

LEMMA PushPuts ==
  ASSUME ListInv, TypeOK', QueueIsRead, QueueIsRead',
         NEW p \in Producers, NEW v \in Values, Push(p, v)
  PROVE  Fifo!Put(v)
<1>1. PICK used, free \in Seq(Nodes) : Lists(used, free)
  BY DEF ListInv
<1>2. TypeOK /\ size \in Nat
  BY DEF ListInv, TypeOK
<1> DEFINE n == free[1]
           u == Append(used, n)
<1>3. /\ free # <<>> /\ u \in Seq(Nodes) /\ Tail(free) \in Seq(Nodes)
      /\ Lists(u, Tail(free))'
  BY <1>1, <1>2, PushLists
<1>4. Queue = Stored(used) /\ Queue' = Stored(u)'
  BY <1>1, <1>3 DEF QueueIsRead
<1>5. /\ Len(used) = size /\ size < Capacity /\ n = freeList /\ n \in Nodes
      /\ 1 \in 1 .. Len(free)
  BY <1>1, <1>3, Shortened DEF Lists, Linked, Push
<1>6. /\ Len(u) = size + 1 /\ u[size + 1] = n
      /\ \A i \in 1 .. size : u[i] = used[i]
  BY <1>5, Ended
<1>7. \A m \in Nodes : data'[m] = IF m = n THEN v ELSE data[m]
  BY <1>2, <1>5 DEF Push, TypeOK
<1>8. \A i \in 1 .. size : used[i] # n /\ used[i] \in Nodes
  BY <1>1, <1>5 DEF Lists
<1>9. /\ Stored(used) \in Seq(Values) /\ Len(Stored(used)) = size
      /\ \A i \in 1 .. size : Stored(used)[i] = data[used[i]]
  BY <1>2, <1>5, StoredType
<1> HIDE DEF u
<1>10. /\ Stored(u)' \in Seq(Values) /\ Len(Stored(u)') = size + 1
       /\ \A i \in 1 .. size + 1 : Stored(u)'[i] = data'[u[i]]
  <2>1. \A i \in 1 .. size + 1 : data'[u[i]] \in Values
    BY <1>3, <1>6 DEF TypeOK
  <2>2. Stored(u)' = [i \in 1 .. size + 1 |-> data'[u[i]]]
    BY <1>6 DEF Stored
  <2> QED
    BY <1>2, <2>1, <2>2
<1>11. Stored(u)' = Append(Stored(used), v)
  <2>1. /\ Append(Stored(used), v) \in Seq(Values) /\ Len(Append(Stored(used), v)) = size + 1
        /\ \A i \in 1 .. size : Append(Stored(used), v)[i] = Stored(used)[i]
        /\ Append(Stored(used), v)[size + 1] = v
    BY <1>9, Ended
  <2>2. \A i \in 1 .. size : i \in 1 .. size + 1
    BY <1>2
  <2>3. \A i \in 1 .. size : Stored(u)'[i] = Append(Stored(used), v)[i]
    BY <1>6, <1>7, <1>8, <1>9, <1>10, <2>1, <2>2
  <2>4. Stored(u)'[size + 1] = v
    BY <1>2, <1>5, <1>6, <1>7, <1>10
  <2>5. \A i \in 1 .. size + 1 : i \in 1 .. size \/ i = size + 1
    BY <1>2
  <2>6. \A i \in 1 .. size + 1 : Stored(u)'[i] = Append(Stored(used), v)[i]
    BY <2>1, <2>3, <2>4, <2>5
  <2> QED
    BY <1>10, <2>1, <2>6, SequencesEqual
<1>12. Queue' = Append(Queue, v) /\ Len(Queue) = size /\ got' = got
  BY <1>4, <1>9, <1>11 DEF Push
<1> QED
  BY <1>5, <1>12 DEF Fifo!Put

LEMMA TakeTakes ==
  ASSUME ListInv, TypeOK', QueueIsRead, QueueIsRead', TakeFirst
  PROVE  Fifo!Take
<1>1. PICK used, free \in Seq(Nodes) : Lists(used, free)
  BY DEF ListInv
<1>2. TypeOK /\ size \in Nat
  BY DEF ListInv, TypeOK
<1> DEFINE u == Tail(used)
<1>3. /\ used # <<>> /\ used[1] = head /\ u \in Seq(Nodes)
      /\ <<used[1]>> \o free \in Seq(Nodes)
      /\ Lists(u, <<used[1]>> \o free)'
  BY <1>1, <1>2, TakeLists
<1>4. Queue = Stored(used) /\ Queue' = Stored(u)'
  BY <1>1, <1>3 DEF QueueIsRead
<1>5. /\ Len(used) = size /\ size > 0 /\ Len(u) = size - 1
      /\ \A i \in 1 .. size - 1 : u[i] = used[i + 1] /\ i + 1 \in 1 .. size
  BY <1>1, <1>2, <1>3, Shortened DEF Lists, TakeFirst
<1>6. data' = data /\ got' = data[head]
  BY DEF TakeFirst, OldestValue
<1>7. /\ Stored(used) \in Seq(Values) /\ Len(Stored(used)) = size
      /\ \A i \in 1 .. size : Stored(used)[i] = data[used[i]]
  BY <1>2, <1>5, StoredType
<1>8. /\ Stored(u) \in Seq(Values) /\ Len(Stored(u)) = size - 1
      /\ \A i \in 1 .. size - 1 : Stored(u)[i] = data[u[i]]
  BY <1>2, <1>3, <1>5, StoredType
<1>9. Stored(u)' = Stored(u)
  BY <1>6 DEF Stored
<1> HIDE DEF u
<1>10. Stored(used) # <<>>
  BY <1>5, <1>7
<1>11. /\ Tail(Stored(used)) \in Seq(Values) /\ Len(Tail(Stored(used))) = size - 1
       /\ \A i \in 1 .. size - 1 : Tail(Stored(used))[i] = Stored(used)[i + 1]
  BY <1>7, <1>10, Shortened
<1>12. \A i \in 1 .. size - 1 : Stored(u)[i] = Tail(Stored(used))[i]
  BY <1>5, <1>7, <1>8, <1>11
<1>13. Stored(u) = Tail(Stored(used))
  BY <1>8, <1>11, <1>12, SequencesEqual
<1>14. Head(Stored(used)) = data[head]
  BY <1>2, <1>3, <1>5, <1>7
<1> QED
  BY <1>4, <1>6, <1>9, <1>10, <1>13, <1>14 DEF Fifo!Take

\* However the nodes have been shuffled between the two lists, the channel is
\* a bounded FIFO of the values, for every capacity and any set of threads:
\* channel_push puts at the end, both pops take the oldest value.
THEOREM ChannelImplementsFifo == Spec => ImplementsFifo
<1>1. Init => ListInv
  BY ListsInit
<1>2. ListInv /\ [Next]_vars => ListInv'
  BY ListStep
<1>3. ListInv => QueueIsRead
  BY QueueOfList
<1>4. Init => Fifo!Init
  <2> SUFFICES ASSUME Init PROVE Fifo!Init
    OBVIOUS
  <2>1. ListInv /\ QueueIsRead
    BY <1>1, <1>3
  <2>2. PICK used, free \in Seq(Nodes) : Lists(used, free)
    BY <2>1 DEF ListInv
  <2>3. Queue = Stored(used) /\ Len(used) = 0
    BY <2>1, <2>2 DEF QueueIsRead, Lists, Init
  <2>4. Queue \in Seq(Values) /\ Len(Queue) = 0
    BY <2>1, <2>3, StoredType DEF ListInv
  <2>5. Queue = <<>>
    BY <2>4
  <2> QED
    BY <2>5 DEF Init, Fifo!Init
<1>5. ListInv /\ ListInv' /\ QueueIsRead /\ QueueIsRead' /\ [Next]_vars
      => [Fifo!Next]_Fifo!vars
  <2> SUFFICES ASSUME ListInv, ListInv', QueueIsRead, QueueIsRead', [Next]_vars
               PROVE  [Fifo!Next]_Fifo!vars
    OBVIOUS
  <2>1. TypeOK'
    BY DEF ListInv
  <2>2. CASE \E p \in Producers, v \in Values : Push(p, v)
    <3>1. \E v \in Values : Fifo!Put(v)
      BY <2>1, <2>2, PushPuts
    <3> QED
      BY <3>1 DEF Fifo!Next
  <2>3. CASE \E c \in Consumers : Pop(c) \/ PopNowait(c)
    <3>1. TakeFirst
      BY <2>3 DEF Pop, PopNowait
    <3> QED
      BY <2>1, <3>1, TakeTakes DEF Fifo!Next
  <2>4. CASE UNCHANGED list /\ UNCHANGED got
    <3>1. PICK used, free \in Seq(Nodes) : Lists(used, free)
      BY DEF ListInv
    <3>2. Lists(used, free)' /\ Stored(used)' = Stored(used)
      BY <2>4, <3>1 DEF Lists, Linked, Distinct, Stored, list
    <3>3. Queue' = Queue
      BY <3>1, <3>2 DEF QueueIsRead
    <3> QED
      BY <2>4, <3>3 DEF Fifo!vars
  <2>5. \/ \E p \in Producers, v \in Values : Push(p, v)
        \/ \E c \in Consumers : Pop(c) \/ PopNowait(c)
        \/ UNCHANGED list /\ UNCHANGED got
    BY DEF Next, ProducerStep, ConsumerStep, PushWaits, PopWaits, SpuriousWakeup, Destroy, vars
  <2> QED
    BY <2>2, <2>3, <2>4, <2>5
<1> QED
  BY <1>1, <1>2, <1>3, <1>4, <1>5, PTL DEF Spec, Fifo!Spec, ImplementsFifo

==============================================================================
