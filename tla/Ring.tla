--------------------------------- MODULE Ring ---------------------------------
(***************************************************************************)
(* ring_t of job_manager.cpp: the fixed-size circular buffer that holds    *)
(* the pending jobs and, one per channel, the completed ones.  It has no   *)
(* lock of its own: the job manager calls it with its mutex held, so every *)
(* call is one step.                                                       *)
(*                                                                         *)
(* A slot holds a job (channel, function and m_job_data0, which always     *)
(* travel together) and the job's second user pointer, m_job_data1.        *)
(***************************************************************************)
EXTENDS Integers, Sequences

CONSTANTS Jobs,       \* what m_channel, m_job_fn and m_job_data0 carry
          Data1,      \* the values of m_job_data1
          Capacity    \* m_capacity

\* The job manager replaces a capacity <= 0 by 1 before it calls init.
ASSUME CapacityAssumption == Capacity \in Nat \ {0}

Slots == 0 .. Capacity - 1

Entries == [job : Jobs, data1 : Data1]

VARIABLES buf,        \* m_buf
          head,       \* m_head: index of the next pop
          tail,       \* m_tail: index of the next push
          count,      \* m_count
          out         \* the caller's variables that pop takes by reference

vars == <<buf, head, tail, count, out>>

TypeOK ==
  /\ buf \in [Slots -> Entries]
  /\ head \in Slots
  /\ tail \in Slots
  /\ count \in 0 .. Capacity
  /\ out \in Entries

\* init allocates the slots and leaves them as the allocator returns them.
Init ==
  /\ buf \in [Slots -> Entries]
  /\ head = 0
  /\ tail = 0
  /\ count = 0
  /\ out \in Entries

------------------------------------------------------------------------------

\* Mutant: an index that runs off the end of the buffer.
AfterUnwrapped(i) == i + 1

\* The index after i.
After(i) == (i + 1) % Capacity

\* push returns -1 and changes nothing when the ring is full.
Push(e) ==
  /\ count # Capacity
  /\ buf' = [buf EXCEPT ![tail] = e]
  /\ tail' = After(tail)
  /\ count' = count + 1
  /\ UNCHANGED <<head, out>>

\* pop returns -1 and changes nothing when the ring is empty.  It copies the
\* channel, the function and m_job_data0 of the slot and leaves the caller's
\* job_data1 as it was: the second pointer of a job is lost.
Pop ==
  /\ count # 0
  /\ out' = [out EXCEPT !.job = buf[head].job]
  /\ head' = After(head)
  /\ count' = count - 1
  /\ UNCHANGED <<buf, tail>>

\* Mutant: a reset that forgets where the next push goes.
ResetKeepsTail ==
  /\ head' = 0
  /\ count' = 0
  /\ UNCHANGED <<buf, tail, out>>

\* stop(0) of the job manager empties the pending ring.
Reset ==
  /\ head' = 0
  /\ tail' = 0
  /\ count' = 0
  /\ UNCHANGED <<buf, out>>

Next == (\E e \in Entries : Push(e)) \/ Pop \/ Reset

Spec == Init /\ [][Next]_vars

------------------------------------------------------------------------------

\* The slot of the i-th stored entry, oldest first.
SlotOf(i) == (head + i - 1) % Capacity

StoredJobs == [i \in 1 .. count |-> buf[SlotOf(i)].job]

\* The jobs of the ring are a bounded FIFO: each leaves once, in the order of
\* the pushes, however often the indices have wrapped and wherever the ring
\* was when it was reset.
JobFifo == INSTANCE BoundedFifo WITH Values <- Jobs, queue <- StoredJobs,
                                     last <- out.job

ImplementsFifo == JobFifo!Spec

==============================================================================
