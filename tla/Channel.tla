------------------------------- MODULE Channel -------------------------------
(***************************************************************************)
(* channel_t of channel.cpp: a bounded queue of pointers between threads,  *)
(* kept as a linked list in an array of nodes, the unused ones on a free   *)
(* list, with one mutex and ONE condition variable for those who wait for  *)
(* room and those who wait for a value.                                    *)
(*                                                                         *)
(* A step is one critical section: from getting the mutex, after the call  *)
(* or after a wake-up, to the unlock or to uv_cond_wait.                   *)
(***************************************************************************)
EXTENDS Naturals, Sequences

CONSTANTS Producers,   \* the threads that call channel_push
          Consumers,   \* the threads that call channel_pop, channel_pop_nowait
          Values,      \* the pointers that are pushed
          Capacity,    \* m_capacity
          NoValue,     \* no pointer
          Null         \* no node

ASSUME ChannelAssumption ==
  /\ Capacity \in Nat \ {0}
  /\ Producers \cap Consumers = {}
  /\ NoValue \notin Values
  /\ Null \notin Nat

Nodes == 0 .. Capacity - 1

VARIABLES
  data, next,        \* m_data and m_next of each node
  head, tail,        \* m_head, m_tail
  freeList,          \* m_free_list
  size,              \* m_size
  sleeping,          \* the threads asleep in m_cond
  pushing,           \* what a producer inside channel_push carries
  popping,           \* the consumers inside channel_pop
  got,               \* what the last pop returned
  alive              \* not yet destroyed

list == <<data, next, head, tail, freeList, size>>
vars == <<list, sleeping, pushing, popping, got, alive>>

TypeOK ==
  /\ data \in [Nodes -> Values]
  /\ next \in [Nodes -> Nodes \cup {Null}]
  /\ head \in Nodes \cup {Null} /\ tail \in Nodes \cup {Null}
  /\ freeList \in Nodes \cup {Null}
  /\ size \in 0 .. Capacity
  /\ pushing \in [Producers -> Values \cup {NoValue}]
  /\ popping \subseteq Consumers
  /\ sleeping \subseteq {p \in Producers : pushing[p] # NoValue} \cup popping
  /\ got \in Values
  /\ alive \in BOOLEAN

\* Mutant: a free list that runs out of the array.
ChainUnended == [n \in Nodes |-> n + 1]

\* The free list runs through the array.
FreeChain == [n \in Nodes |-> IF n = Capacity - 1 THEN Null ELSE n + 1]

\* channel_init leaves m_data as the allocator returned it.
Init ==
  /\ data \in [Nodes -> Values]
  /\ next = FreeChain
  /\ head = Null /\ tail = Null
  /\ freeList = 0
  /\ size = 0
  /\ sleeping = {}
  /\ pushing = [p \in Producers |-> NoValue]
  /\ popping = {}
  /\ got \in Values
  /\ alive = TRUE

------------------------------------------------------------------------------

\* Mutant: a change of the queue without its signal.
WakeNobody == UNCHANGED sleeping

\* uv_cond_signal wakes one sleeper, whatever it waits for.
WakeOne ==
  IF sleeping = {} THEN UNCHANGED sleeping
  ELSE \E t \in sleeping : sleeping' = sleeping \ {t}

\* p calls channel_push(v), or was woken inside it.
TestsRoom(p, v) ==
  /\ alive
  /\ p \notin sleeping
  /\ pushing[p] \in {v, NoValue}

PushWaits(p, v) ==
  /\ TestsRoom(p, v)
  /\ size >= Capacity
  /\ pushing' = [pushing EXCEPT ![p] = v]
  /\ sleeping' = sleeping \cup {p}
  /\ UNCHANGED <<list, popping, got, alive>>

\* The new node ends the list, and the former last one points to it.
NextAfterPush(n) ==
  [m \in Nodes |-> IF m = n THEN Null ELSE IF m = tail THEN n ELSE next[m]]

Push(p, v) ==
  /\ TestsRoom(p, v)
  /\ size < Capacity
  /\ LET n == freeList IN
     /\ freeList' = next[n]
     /\ data' = [data EXCEPT ![n] = v]
     /\ next' = NextAfterPush(n)
     /\ head' = IF tail = Null THEN n ELSE head
     /\ tail' = n
  /\ size' = size + 1
  /\ pushing' = [pushing EXCEPT ![p] = NoValue]
  /\ WakeOne
  /\ UNCHANGED <<popping, got, alive>>

\* Mutant: the last node stays the tail of an emptied list.
TailKept == tail

TailAfterPop == IF next[head] = Null THEN Null ELSE tail

\* Mutant: the newest value first.
NewestValue == data[tail]

OldestValue == data[head]

\* What both pops do when there is a value.
TakeFirst ==
  /\ size # 0
  /\ head' = next[head]
  /\ tail' = TailAfterPop
  /\ size' = size - 1
  /\ got' = OldestValue
  /\ next' = [next EXCEPT ![head] = freeList]
  /\ freeList' = head
  /\ WakeOne
  /\ UNCHANGED data

\* c calls channel_pop, or was woken inside it.
PopWaits(c) ==
  /\ alive
  /\ c \notin sleeping
  /\ size = 0
  /\ popping' = popping \cup {c}
  /\ sleeping' = sleeping \cup {c}
  /\ UNCHANGED <<list, pushing, got, alive>>

Pop(c) ==
  /\ alive
  /\ c \notin sleeping
  /\ TakeFirst
  /\ popping' = popping \ {c}
  /\ UNCHANGED <<pushing, alive>>

\* channel_pop_nowait returns NULL when there is nothing.
PopNowait(c) ==
  /\ alive
  /\ c \notin popping
  /\ TakeFirst
  /\ UNCHANGED <<pushing, popping, alive>>

\* uv_cond_wait may return without a signal.
SpuriousWakeup ==
  /\ \E t \in sleeping : sleeping' = sleeping \ {t}
  /\ UNCHANGED <<list, pushing, popping, got, alive>>

\* channel_destroy, when no thread is inside.
Destroy ==
  /\ alive
  /\ popping = {}
  /\ \A p \in Producers : pushing[p] = NoValue
  /\ alive' = FALSE
  /\ UNCHANGED <<list, sleeping, pushing, popping, got>>

ProducerStep(p) == \E v \in Values : Push(p, v) \/ PushWaits(p, v)

ConsumerStep(c) == Pop(c) \/ PopWaits(c) \/ PopNowait(c)

Next ==
  \/ \E p \in Producers : ProducerStep(p)
  \/ \E c \in Consumers : ConsumerStep(c)
  \/ SpuriousWakeup
  \/ Destroy

Spec == Init /\ [][Next]_vars

\* A thread inside a call that was woken gets the mutex, and the consumer, a
\* thread that loops over channel_pop and channel_pop_nowait, comes back.
Fairness ==
  /\ \A p \in Producers : WF_vars(pushing[p] # NoValue /\ ProducerStep(p))
  /\ \A c \in Consumers : WF_vars(Pop(c) \/ PopNowait(c))

FairSpec == Spec /\ Fairness

------------------------------------------------------------------------------
(* The linked list.                                                        *)

\* The nodes from a node on, at most Capacity of them.
NodesFrom(start) ==
  LET step[k \in 0 .. Capacity] ==
        IF k = 0 THEN <<>>
        ELSE LET before == step[k - 1]
                 n == IF before = <<>> THEN start ELSE next[before[Len(before)]]
             IN IF n = Null \/ Len(before) < k - 1 THEN before ELSE Append(before, n)
  IN step[Capacity]

NodesIn(s) == {s[i] : i \in DOMAIN s}

\* The list and the free list share the nodes among them: each ends, the list
\* with m_tail after m_size nodes, no node is on both and none is on neither.
ListSound ==
  LET used == NodesFrom(head)
      free == NodesFrom(freeList)
  IN /\ TypeOK
     /\ Len(used) = size
     /\ Len(free) = Capacity - size
     /\ NodesIn(used) \cap NodesIn(free) = {}
     /\ NodesIn(used) \cup NodesIn(free) = Nodes
     /\ tail = IF size = 0 THEN Null ELSE used[size]
     /\ \A s \in {used, free} : s = <<>> \/ next[s[Len(s)]] = Null

Queue ==
  LET used == NodesFrom(head) IN [i \in DOMAIN used |-> data[used[i]]]

Fifo == INSTANCE BoundedFifo WITH queue <- Queue, last <- got

\* However the nodes have been shuffled between the two lists, the channel is
\* a bounded FIFO: every value comes out once and in the order of the pushes.
ImplementsFifo == Fifo!Spec

------------------------------------------------------------------------------
(* The condition variable.                                                 *)

\* One thread on each side: the event loop and the stream thread.
OneToOne ==
  /\ \E p \in Producers : Producers = {p}
  /\ \E c \in Consumers : Consumers = {c}

\* With one thread on each side no signal is lost, although both sides wait
\* in the same condition variable and uv_cond_signal wakes only one thread: a
\* producer sleeps only while the channel is full, a consumer only while it
\* is empty, and never both.
SleepsForAReason ==
  OneToOne =>
    /\ \A p \in Producers : p \in sleeping => size = Capacity
    /\ \A c \in Consumers : c \in sleeping => size = 0

PushReturns == \A p \in Producers : pushing[p] # NoValue ~> pushing[p] = NoValue

PopReturns == \A c \in Consumers : c \in popping /\ size # 0 ~> c \notin popping

\* A push that waits for room returns, and so does a pop for which there is a
\* value, although one signal must find the one thread it is meant for.
CallsReturn == PushReturns /\ PopReturns

==============================================================================
