------------------------------ MODULE HandlePool ------------------------------
(***************************************************************************)
(* The pools of libuv handles: uv_tcp_pool.cpp, uv_tcp_write_pool.cpp and  *)
(* uv_udp_send_pool.cpp.  All three are an array of handles and a stack of *)
(* the 16 bit indices of those that are free.  They are used by the one    *)
(* thread that runs the event loop.                                        *)
(***************************************************************************)
EXTENDS Integers, Sequences, FiniteSets

CONSTANTS PoolSize,    \* m_capacity
          IndexRange   \* how many values an index has: 2^16

VARIABLES
  freeList,    \* m_free_list
  freeCount,   \* m_free_count
  held         \* the handles that callers hold

poolVars == <<freeList, freeCount, held>>

Handles == 0 .. PoolSize - 1

TypeOK ==
  /\ freeList \in [Handles -> Handles]
  /\ freeCount \in 0 .. PoolSize
  /\ held \subseteq Handles

\* Mutant: the indices count from one.
IndexFromOne(i) == i + 1

\* The conversion to u16.
Index(i) == i % IndexRange

Init ==
  /\ freeList = [i \in Handles |-> Index(i)]
  /\ freeCount = PoolSize
  /\ held = {}

\* Acquire returns null when nothing is free.
Acquire ==
  /\ freeCount # 0
  /\ freeCount' = freeCount - 1
  /\ held' = held \cup {freeList[freeCount - 1]}
  /\ UNCHANGED freeList

\* Mutant: the count is left behind.
PushBack(h) == freeList' = [freeList EXCEPT ![freeCount - 1] = h]

Push(h) == freeList' = [freeList EXCEPT ![freeCount] = h]

\* Release of a handle that was acquired; a pointer outside the array is
\* ignored.
Release(h) ==
  /\ h \in held
  /\ Push(Index(h))
  /\ freeCount' = freeCount + 1
  /\ held' = held \ {h}

Next == Acquire \/ \E h \in Handles : Release(h)

Spec == Init /\ [][Next]_poolVars

------------------------------------------------------------------------------

FreeHandles == {freeList[i] : i \in 0 .. freeCount - 1}

\* The pool is as large as its indices can tell apart.
SizeFits == PoolSize \in Nat /\ IndexRange \in Nat /\ PoolSize <= IndexRange

\* Every handle is free once or held, never both: no handle is given to two
\* callers and none is lost, in whatever order they come back.
FreeOrHeld ==
  SizeFits =>
    /\ \A i, k \in 0 .. freeCount - 1 : freeList[i] = freeList[k] => i = k
    /\ FreeHandles \cap held = {}
    /\ FreeHandles \cup held = Handles

==============================================================================
