----------------------------- MODULE PartsProofs -----------------------------
(***************************************************************************)
(* The small parts, for every value of the constants.  A behaviour of      *)
(* Parts is one of the part it begins with, while the others rest; so the  *)
(* inductive invariant of a part, which its own steps and rest preserve,   *)
(* is an invariant of Parts.  Each section proves that of one part:        *)
(*   the ring       the slot of the next push follows the stored entries   *)
(*   the requests   the buffer is counted where it is, and the seconds of  *)
(*                  the file, the examination and now are in order         *)
(*   the plugins    the numbers of the libraries are new when they open    *)
(*   the registry   the invariant is inductive together with its types;    *)
(*                  the first hit and the place of a new entry are least   *)
(*                  elements                                               *)
(*   the pools      free and held handles add up to the size of the pool   *)
(*   the search     the place of a key stays between left and right unless *)
(*                  the first turn looks behind the table                  *)
(* The decoder has a module of its own, DecoderProofs.  The types of all   *)
(* parts are at the end: the folds over the mappings stay in their sets,   *)
(* the counts within their sizes.                                          *)
(***************************************************************************)
EXTENDS DecoderProofs, TLAPS

\* What a part takes from the library is what this module takes from it.
LEMMA SameCardinality == \A S : Requests!Cardinality(S) = Cardinality(S)
  BY Zenon DEF Requests!Cardinality, Cardinality

LEMMA SameInsertAt == \A s, i, e : Registry!InsertAt(s, i, e) = InsertAt(s, i, e)
  BY Zenon DEF Registry!InsertAt, InsertAt

LEMMA LargestOfRequests == \A S : Requests!Max(S) = Max(S)
  BY Zenon DEF Requests!Max, Max

------------------------------------------------------------------------------
(* The ring of the job manager.                                              *)

USE CapacityAssumption

\* The remainder of a number below twice the capacity.
LEMMA Wrap ==
  ASSUME NEW x \in 0 .. 2 * Capacity - 1
  PROVE  /\ x < Capacity => x % Capacity = x
         /\ x >= Capacity => x % Capacity = x - Capacity
  <1>1. x \in Nat /\ Capacity \in Nat /\ Capacity > 0
    OBVIOUS
  <1>2. CASE x < Capacity
    BY <1>1, <1>2
  <1>3. CASE x >= Capacity
    BY <1>1, <1>3
  <1> QED
    BY <1>1, <1>2, <1>3

\* m_tail is where the entry after the stored ones goes.
TailFollows == tail = (head + count) % Capacity

RingInv == TypeOK /\ TailFollows

\* The indices stay inside the buffer and m_tail stays m_count slots after
\* m_head.
LEMMA RingInvariant == Spec => []RingInv
  <1>1. Init => RingInv
    BY Wrap DEF Init, RingInv, TypeOK, TailFollows, Slots
  <1>2. RingInv /\ [Next]_vars => RingInv'
    <2> SUFFICES ASSUME RingInv, [Next]_vars
                 PROVE  RingInv'
      OBVIOUS
    <2> USE DEF RingInv
    <2>0. /\ head \in 0 .. Capacity - 1
          /\ tail \in 0 .. Capacity - 1
          /\ count \in 0 .. Capacity
          /\ tail = IF head + count < Capacity THEN head + count
                                             ELSE head + count - Capacity
      <3>1. head + count \in 0 .. 2 * Capacity - 1
        BY DEF TypeOK, Slots
      <3> QED
        BY <3>1, Wrap DEF TypeOK, TailFollows, Slots
    <2>1. ASSUME NEW e \in Entries, Push(e)
          PROVE  RingInv'
      <3>1. /\ tail + 1 \in 0 .. 2 * Capacity - 1
            /\ head + (count + 1) \in 0 .. 2 * Capacity - 1
        BY <2>0, <2>1 DEF Push
      <3>2. /\ tail' = (tail + 1) % Capacity
            /\ count' = count + 1
            /\ head' = head
            /\ count # Capacity
        BY <2>1 DEF Push, After
      <3>3. /\ tail' \in 0 .. Capacity - 1
            /\ count' \in 0 .. Capacity
            /\ tail' = (head' + count') % Capacity
        BY <2>0, <3>1, <3>2, Wrap
      <3>4. buf' \in [Slots -> Entries] /\ out' = out
        BY <2>1 DEF Push, TypeOK
      <3> QED
        BY <3>2, <3>3, <3>4 DEF TypeOK, TailFollows, Slots
    <2>2. CASE Pop
      <3>1. /\ head' = (head + 1) % Capacity
            /\ count' = count - 1
            /\ tail' = tail
            /\ count # 0
        BY <2>2 DEF Pop, After
      <3>2. head + 1 \in 0 .. 2 * Capacity - 1
        BY <2>0
      <3>3. /\ head' = IF head + 1 < Capacity THEN head + 1 ELSE head + 1 - Capacity
            /\ head' \in 0 .. Capacity - 1
            /\ count' \in 0 .. Capacity
        BY <2>0, <3>1, <3>2, Wrap
      <3>4. head' + count' \in 0 .. 2 * Capacity - 1
        BY <3>3
      <3>5. tail' = (head' + count') % Capacity
        BY <2>0, <3>1, <3>3, <3>4, Wrap
      <3>6. buf' = buf /\ out' \in Entries
        BY <2>0, <2>2 DEF Pop, TypeOK, Entries, Slots
      <3> QED
        BY <2>0, <3>1, <3>3, <3>5, <3>6 DEF TypeOK, TailFollows, Slots
    <2>3. CASE Reset
      BY <2>3, Wrap DEF Reset, TypeOK, TailFollows, Slots
    <2>4. CASE UNCHANGED vars
      BY <2>4 DEF vars, TypeOK, TailFollows
    <2> QED
      BY <2>1, <2>2, <2>3, <2>4 DEF Next
  <1> QED
    BY <1>1, <1>2, PTL DEF Spec

\* Type correctness: no index ever leaves the buffer and the count never
\* leaves 0 .. m_capacity.
THEOREM TypeCorrect == Spec => []TypeOK
  BY RingInvariant, PTL DEF RingInv

\* The slots of the stored entries: inside the buffer, and the first one is
\* m_head.
LEMMA SlotOfStored ==
  ASSUME TypeOK
  PROVE  /\ \A i \in 1 .. count + 1 : SlotOf(i) \in Slots
         /\ \A i \in 1 .. count + 1 :
              SlotOf(i) = IF head + i - 1 < Capacity THEN head + i - 1
                                                   ELSE head + i - 1 - Capacity
         /\ SlotOf(1) = head
  <1>1. \A i \in 1 .. count + 1 : head + i - 1 \in 0 .. 2 * Capacity - 1
    BY DEF TypeOK, Slots
  <1>2. 1 \in 1 .. count + 1
    BY DEF TypeOK
  <1> QED
    BY <1>1, <1>2, Wrap DEF TypeOK, Slots, SlotOf

\* The stored jobs are a sequence of jobs as long as m_count says.
LEMMA StoredJobsType ==
  ASSUME TypeOK
  PROVE  /\ StoredJobs \in Seq(Jobs)
         /\ Len(StoredJobs) = count
         /\ \A i \in 1 .. count : StoredJobs[i] = buf[SlotOf(i)].job
  <1>1. \A i \in 1 .. count : SlotOf(i) \in Slots
    BY SlotOfStored DEF TypeOK
  <1>2. \A i \in 1 .. count : buf[SlotOf(i)].job \in Jobs
    BY <1>1 DEF TypeOK, Entries
  <1> QED
    BY <1>2 DEF StoredJobs, TypeOK

\* A push appends its job to the stored jobs.
LEMMA PushAppends ==
  ASSUME RingInv, NEW e \in Entries, Push(e), TypeOK'
  PROVE  StoredJobs' = Append(StoredJobs, e.job)
  <1> USE DEF RingInv
  <1>1. count \in Nat /\ count' = count + 1 /\ count + 1 <= Capacity
    BY DEF Push, TypeOK
  <1>2. \A i \in 1 .. count' : SlotOf(i)' = SlotOf(i)
    BY DEF SlotOf, Push
  <1>3. SlotOf(count + 1) = tail
    BY <1>1 DEF SlotOf, TailFollows, TypeOK, Slots
  <1>4. \A i \in 1 .. count : SlotOf(i) # tail
    <2> SUFFICES ASSUME NEW i \in 1 .. count, SlotOf(i) = SlotOf(count + 1)
                 PROVE  FALSE
      BY <1>3
    <2>1. i \in 1 .. count + 1 /\ count + 1 \in 1 .. count + 1
      BY <1>1
    <2>2. /\ head \in 0 .. Capacity - 1
          /\ i \in Nat /\ 1 <= i /\ i <= count /\ count < Capacity
      BY <1>1 DEF TypeOK, Slots
    <2>3. (IF head + i - 1 < Capacity THEN head + i - 1 ELSE head + i - 1 - Capacity)
          = (IF head + (count + 1) - 1 < Capacity THEN head + (count + 1) - 1
                                                  ELSE head + (count + 1) - 1 - Capacity)
      BY <2>1, SlotOfStored
    <2> QED
      BY <1>1, <2>2, <2>3
  <1>5. \A i \in 1 .. count : StoredJobs'[i] = StoredJobs[i]
    <2> SUFFICES ASSUME NEW i \in 1 .. count
                 PROVE  StoredJobs'[i] = StoredJobs[i]
      OBVIOUS
    <2>1. i \in 1 .. count' /\ i \in 1 .. count + 1
      BY <1>1
    <2>2. SlotOf(i) \in Slots /\ SlotOf(i) # tail /\ SlotOf(i)' = SlotOf(i)
      BY <2>1, <1>2, <1>4, SlotOfStored
    <2>3. buf'[SlotOf(i)] = buf[SlotOf(i)]
      BY <2>2 DEF Push, TypeOK
    <2> QED
      BY <2>1, <2>2, <2>3, StoredJobsType DEF StoredJobs
  <1>6. StoredJobs'[count + 1] = e.job
    <2>1. buf'[tail] = e
      BY DEF Push, TypeOK
    <2>2. count + 1 \in 1 .. count'
      BY <1>1
    <2>3. StoredJobs' = [i \in 1 .. count' |-> buf'[SlotOf(i)'].job]
      BY DEF StoredJobs
    <2>4. StoredJobs' = [i \in 1 .. count' |-> buf'[SlotOf(i)].job]
      BY <1>2, <2>3
    <2> QED
      BY <1>3, <2>1, <2>2, <2>4
  <1>7. StoredJobs' \in Seq(Jobs) /\ Len(StoredJobs') = count + 1
    <2>1. \A i \in 1 .. count + 1 : StoredJobs'[i] \in Jobs
      BY <1>1, <1>5, <1>6, StoredJobsType DEF Entries
    <2>2. StoredJobs' = [i \in 1 .. count + 1 |-> StoredJobs'[i]]
      BY <1>1 DEF StoredJobs
    <2> QED
      BY <1>1, <2>1, <2>2
  <1> QED
    BY <1>1, <1>5, <1>6, <1>7, StoredJobsType DEF Entries

\* A pop hands out the oldest stored job and removes it from the front.
LEMMA PopTakesFirst ==
  ASSUME RingInv, Pop, TypeOK'
  PROVE  /\ StoredJobs # <<>>
         /\ out'.job = Head(StoredJobs)
         /\ StoredJobs' = Tail(StoredJobs)
  <1>1. /\ count \in Nat /\ count > 0 /\ count' = count - 1
        /\ head \in 0 .. Capacity - 1 /\ count <= Capacity
        /\ buf' = buf
    BY DEF Pop, RingInv, TypeOK, Slots
  <1>2. StoredJobs # <<>> /\ Head(StoredJobs) = buf[head].job
    <2>1. 1 \in 1 .. count
      BY <1>1
    <2>2. StoredJobs[1] = buf[head].job
      BY <2>1, StoredJobsType, SlotOfStored DEF RingInv
    <2> QED
      BY <1>1, <2>2, StoredJobsType DEF RingInv
  <1>3. out'.job = buf[head].job
    BY DEF Pop, RingInv, TypeOK, Entries
  <1>4. \A i \in 1 .. count' : SlotOf(i)' = SlotOf(i + 1)
    <2> SUFFICES ASSUME NEW i \in 1 .. count'
                 PROVE  SlotOf(i)' = SlotOf(i + 1)
      OBVIOUS
    <2>1. head + 1 \in 0 .. 2 * Capacity - 1
      BY <1>1
    <2>2. head' = IF head + 1 < Capacity THEN head + 1 ELSE head + 1 - Capacity
      BY <1>1, <2>1, Wrap DEF Pop, After
    <2>3. i \in Nat /\ 1 <= i /\ i <= count - 1
      BY <1>1
    <2>4. /\ head' + i - 1 \in 0 .. 2 * Capacity - 1
          /\ head + (i + 1) - 1 \in 0 .. 2 * Capacity - 1
      BY <1>1, <2>2, <2>3
    <2>5. (head' + i - 1) % Capacity = (head + (i + 1) - 1) % Capacity
      BY <1>1, <2>2, <2>3, <2>4, Wrap
    <2> QED
      BY <2>5 DEF SlotOf
  <1>5. \A i \in 1 .. count' : StoredJobs'[i] = StoredJobs[i + 1]
    <2> SUFFICES ASSUME NEW i \in 1 .. count'
                 PROVE  StoredJobs'[i] = StoredJobs[i + 1]
      OBVIOUS
    <2>1. i + 1 \in 1 .. count
      BY <1>1
    <2>2. StoredJobs' = [k \in 1 .. count' |-> buf[SlotOf(k + 1)].job]
      <3>1. StoredJobs' = [k \in 1 .. count' |-> buf'[SlotOf(k)'].job]
        BY DEF StoredJobs
      <3> QED
        BY <1>1, <1>4, <3>1
    <2> QED
      BY <2>1, <2>2, StoredJobsType DEF RingInv
  <1>6. /\ StoredJobs \in Seq(Jobs) /\ Len(StoredJobs) = count
        /\ StoredJobs' \in Seq(Jobs) /\ Len(StoredJobs') = count - 1
    <2>1. \A i \in 1 .. count' : StoredJobs'[i] \in Jobs
      BY <1>1, <1>5, StoredJobsType DEF RingInv
    <2>2. StoredJobs' = [i \in 1 .. count' |-> StoredJobs'[i]]
      BY DEF StoredJobs
    <2> QED
      BY <1>1, <2>1, <2>2, StoredJobsType DEF RingInv
  <1>7. StoredJobs' = Tail(StoredJobs)
    BY <1>1, <1>5, <1>6
  <1> QED
    BY <1>2, <1>3, <1>7

\* ring_t implements a bounded FIFO of jobs, for every capacity.
THEOREM RingImplementsFifo == Spec => ImplementsFifo
  <1>1. Init => JobFifo!Init
    <2> SUFFICES ASSUME Init
                 PROVE  JobFifo!Init
      OBVIOUS
    <2>1. StoredJobs = <<>>
      BY DEF Init, StoredJobs
    <2>2. out.job \in Jobs
      BY DEF Init, Entries
    <2> QED
      BY <2>1, <2>2 DEF JobFifo!Init
  <1>2. RingInv /\ RingInv' /\ [Next]_vars => [JobFifo!Next]_JobFifo!vars
    <2> SUFFICES ASSUME RingInv, RingInv', [Next]_vars
                 PROVE  [JobFifo!Next]_JobFifo!vars
      OBVIOUS
    <2>1. ASSUME NEW e \in Entries, Push(e)
          PROVE  JobFifo!Put(e.job) /\ e.job \in Jobs
      <3>1. StoredJobs' = Append(StoredJobs, e.job)
        BY <2>1, PushAppends DEF RingInv
      <3>2. Len(StoredJobs) < Capacity
        BY <2>1, StoredJobsType DEF RingInv, TypeOK, Push
      <3> QED
        BY <2>1, <3>1, <3>2 DEF JobFifo!Put, Push, Entries
    <2>2. CASE Pop
      BY <2>2, PopTakesFirst DEF JobFifo!Take, JobFifo!Next, RingInv
    <2>3. CASE Reset
      <3>1. StoredJobs' = <<>>
        BY <2>3 DEF Reset, StoredJobs
      <3> QED
        BY <2>3, <3>1 DEF Reset, JobFifo!Clear, JobFifo!Next
    <2>4. CASE UNCHANGED vars
      <3>1. StoredJobs' = StoredJobs
        BY <2>4 DEF vars, StoredJobs, SlotOf
      <3> QED
        BY <2>4, <3>1 DEF vars, JobFifo!vars
    <2> QED
      BY <2>1, <2>2, <2>3, <2>4 DEF Next, JobFifo!Next
  <1> QED
    BY <1>1, <1>2, RingInvariant, PTL DEF Spec, JobFifo!Spec, ImplementsFifo

LEMMA PartsRunTheRing == PartsSpec => Spec
<1>1. PartsInit => Init
  BY DEF PartsInit
<1>2. [PartsNext]_partVars => [Next]_vars
  BY DEF PartsNext, partVars
<1> QED
  BY <1>1, <1>2, PTL DEF PartsSpec, Spec

\* The ring among the other parts.
THEOREM RingOfPartsImplementsFifo == PartsSpec => ImplementsFifo
  BY PartsRunTheRing, RingImplementsFifo

HIDE CapacityAssumption

------------------------------------------------------------------------------
(* The stream requests.                                                      *)

USE RequestsAssumption

\* What the counting of the holders needs of the types.
HoldersCounted ==
  /\ loaded \in BOOLEAN /\ queued \in Nat /\ finished \in Nat
  /\ worker \in [JobWorkers -> {"idle", "examine", "load"}]

\* The seconds in their order: a time that is remembered was found before the
\* change was examined, and nothing is later than now.
TimesInOrder ==
  /\ remembered \in Nat /\ now \in Nat /\ examined \in Nat /\ file.mtime \in Nat
  /\ found \in [JobWorkers -> Nat]
  /\ remembered <= examined /\ examined <= now /\ file.mtime <= now
  /\ \A w \in JobWorkers : found[w] <= examined

\* Stronger than OverlookedInItsSecond: it holds while a worker has the buffer, too.
OverlookedWhenExamined == Requests!Overlooked => examined = file.mtime

RequestInv == HoldersCounted /\ Requests!BufferHasOneUser /\ TimesInOrder /\ OverlookedWhenExamined

LEMMA RunningCounts ==
  ASSUME HoldersCounted
  PROVE  Requests!Cardinality(Requests!Running) \in Nat /\ Requests!Running \subseteq JobWorkers /\ IsFiniteSet(Requests!Running)
<1>1. Requests!Running \subseteq JobWorkers
  BY DEF Requests!Running
<1>2. IsFiniteSet(Requests!Running)
  BY <1>1, FS_Subset
<1> QED
  BY <1>1, <1>2, FS_CardinalityType, SameCardinality

\* A worker that takes up the buffer, one that goes on with it and one that
\* gives it back.
LEMMA RunningChanges ==
  ASSUME HoldersCounted, NEW w \in JobWorkers, NEW at \in {"idle", "examine", "load"},
         worker' = [worker EXCEPT ![w] = at]
  PROVE  /\ worker' \in [JobWorkers -> {"idle", "examine", "load"}]
         /\ worker[w] = "idle" /\ at # "idle"
              => Requests!Cardinality(Requests!Running') = Requests!Cardinality(Requests!Running) + 1
         /\ worker[w] # "idle" /\ at # "idle" => Requests!Cardinality(Requests!Running') = Requests!Cardinality(Requests!Running)
         /\ worker[w] # "idle" /\ at = "idle"
              => Requests!Cardinality(Requests!Running) >= 1 /\ Requests!Cardinality(Requests!Running') = Requests!Cardinality(Requests!Running) - 1
<1>1. worker' \in [JobWorkers -> {"idle", "examine", "load"}]
  BY DEF HoldersCounted
<1>2. \A v \in JobWorkers : worker'[v] = IF v = w THEN at ELSE worker[v]
  BY DEF HoldersCounted
<1>3. CASE worker[w] = "idle" /\ at # "idle"
  <2>1. Requests!Running' = Requests!Running \cup {w} /\ w \notin Requests!Running
    BY <1>2, <1>3 DEF Requests!Running
  <2>2. Requests!Cardinality(Requests!Running') = Requests!Cardinality(Requests!Running) + 1
    BY <2>1, RunningCounts, FS_AddElement, SameCardinality
  <2> QED
    BY <1>1, <1>3, <2>2
<1>4. CASE worker[w] # "idle" /\ at # "idle"
  <2>1. Requests!Running' = Requests!Running
    BY <1>2, <1>4 DEF Requests!Running
  <2> QED
    BY <1>1, <1>4, <2>1
<1>5. CASE worker[w] # "idle" /\ at = "idle"
  <2>1. Requests!Running' = Requests!Running \ {w} /\ w \in Requests!Running
    BY <1>2, <1>5 DEF Requests!Running
  <2>2. Requests!Cardinality(Requests!Running') = Requests!Cardinality(Requests!Running) - 1
    BY <2>1, RunningCounts, FS_RemoveElement, SameCardinality
  <2>3. Requests!Cardinality(Requests!Running) >= 1
    BY <2>1, RunningCounts, FS_EmptySet, SameCardinality
  <2> QED
    BY <1>1, <1>5, <2>2, <2>3
<1>6. CASE worker[w] = "idle" /\ at = "idle"
  BY <1>1, <1>6
<1> QED
  BY <1>3, <1>4, <1>5, <1>6

\* A push adds a holder, or none.
LEMMA PushCounts ==
  ASSUME HoldersCounted, Requests!PushJob
  PROVE  queued' \in Nat /\ queued <= queued' /\ queued' <= queued + 1
  BY DEF HoldersCounted, Requests!PushJob

\* Nobody gets the buffer who does not take it from another.
LEMMA HoldersStep ==
  ASSUME HoldersCounted, Requests!BufferHasOneUser, Requests!Next \/ UNCHANGED Requests!requestVars
  PROVE  HoldersCounted' /\ Requests!BufferHasOneUser'
<1> DEFINE r == Requests!Cardinality(Requests!Running)
           h == IF loaded THEN 1 ELSE 0
<1>1. r \in Nat /\ h \in {0, 1} /\ (h = 1 <=> loaded) /\ Requests!Holders = queued + r + finished + h
  BY RunningCounts DEF Requests!Holders, HoldersCounted
<1>2. /\ loaded \in BOOLEAN /\ queued \in Nat /\ finished \in Nat
      /\ queued + r + finished + h <= 1
      /\ fate = "destroyed" => loaded /\ queued = 0 /\ r = 0 /\ finished = 0
  BY <1>1 DEF HoldersCounted, Requests!BufferHasOneUser
<1>3. ASSUME HoldersCounted', Requests!Cardinality(Requests!Running') = r, fate' = fate, loaded' = loaded,
             finished' = finished, queued' <= queued
      PROVE  HoldersCounted' /\ Requests!BufferHasOneUser'
  <2>1. queued' \in Nat /\ Requests!Holders' = queued' + r + finished + h
    BY <1>1, <1>3 DEF Requests!Holders, HoldersCounted
  <2> QED
    BY <1>1, <1>2, <1>3, <2>1 DEF Requests!BufferHasOneUser
<1>4. ASSUME UNCHANGED <<fate, loaded, finished, worker>>, queued' \in Nat, queued' <= queued
      PROVE  HoldersCounted' /\ Requests!BufferHasOneUser'
  <2>1. HoldersCounted'
    BY <1>4 DEF HoldersCounted
  <2>2. Requests!Running' = Requests!Running
    BY <1>4 DEF Requests!Running
  <2> QED
    BY <1>3, <1>4, <2>1, <2>2
<1>5. ASSUME Requests!CheckMappings PROVE HoldersCounted' /\ Requests!BufferHasOneUser'
  <2>1. fate = "up" /\ fate' = fate /\ finished' = finished /\ worker' = worker
    BY <1>5 DEF Requests!CheckMappings, Requests!threads
  <2>2. CASE loaded /\ due
    <3>1. loaded' = FALSE /\ queued' \in Nat /\ queued' <= queued + 1
      BY <1>5, <2>2, PushCounts DEF Requests!CheckMappings, Requests!GiveAway
    <3>2. HoldersCounted' /\ Requests!Running' = Requests!Running
      BY <2>1, <3>1 DEF HoldersCounted, Requests!Running
    <3>3. Requests!Holders' = queued' + r + finished
      BY <1>1, <1>2, <2>1, <3>1, <3>2 DEF Requests!Holders
    <3> QED
      BY <1>1, <1>2, <2>1, <2>2, <3>1, <3>2, <3>3 DEF Requests!BufferHasOneUser
  <2>3. CASE ~(loaded /\ due)
    BY <1>2, <1>4, <1>5, <2>1, <2>3 DEF Requests!CheckMappings
  <2> QED
    BY <2>2, <2>3
<1>6. ASSUME Requests!CollectMappings PROVE HoldersCounted' /\ Requests!BufferHasOneUser'
  <2>1. fate = "up" /\ queued' = queued /\ worker' = worker
    BY <1>6 DEF Requests!CollectMappings, Requests!threads
  <2>2. CASE Requests!JobIsBack
    <3>1. finished > 0 /\ finished' = finished - 1 /\ Requests!TakeBuffer
      BY <1>6, <2>2 DEF Requests!CollectMappings, Requests!JobIsBack
    <3>2. finished = 1 /\ finished' = 0 /\ h = 0 /\ r = 0 /\ queued = 0 /\ loaded = FALSE
      BY <1>1, <1>2, <3>1
    <3>3. loaded' \in BOOLEAN /\ fate' # "destroyed"
      <4>1. CASE loaded' = TRUE /\ \E ids \in Requests!Merged :
                   IF Len(ids) <= MappingsCapacity THEN mappings' = ids /\ UNCHANGED fate
                   ELSE fate' = "astray" /\ UNCHANGED mappings
        BY <2>1, <4>1
      <4>2. CASE fate' = "astray" /\ UNCHANGED <<loaded, mappings>>
        BY <1>2, <4>2
      <4> QED
        BY <3>1, <4>1, <4>2 DEF Requests!TakeBuffer
    <3>4. HoldersCounted' /\ Requests!Running' = Requests!Running
      BY <2>1, <3>2, <3>3 DEF HoldersCounted, Requests!Running
    <3>5. Requests!Holders' = IF loaded' THEN 1 ELSE 0
      BY <2>1, <3>2, <3>3, <3>4 DEF Requests!Holders
    <3> QED
      BY <3>3, <3>4, <3>5 DEF Requests!BufferHasOneUser
  <2>3. CASE ~Requests!JobIsBack
    BY <1>2, <1>4, <1>6, <2>1, <2>3 DEF Requests!CollectMappings
  <2> QED
    BY <2>2, <2>3
<1>7. ASSUME Requests!Destroy PROVE HoldersCounted' /\ Requests!BufferHasOneUser'
  <2>1. /\ UNCHANGED <<loaded, queued, finished, worker>>
        /\ fate' = IF loaded THEN "destroyed" ELSE "astray"
    BY <1>7 DEF Requests!Destroy, Requests!jobs, Requests!threads, Requests!FreeBoth
  <2>2. HoldersCounted' /\ Requests!Holders' = Requests!Holders
    BY <2>1 DEF HoldersCounted, Requests!Holders, Requests!Running
  <2> QED
    BY <1>1, <1>2, <2>1, <2>2 DEF Requests!BufferHasOneUser
<1>8. ASSUME NEW w \in JobWorkers, Requests!TakeJob(w) PROVE HoldersCounted' /\ Requests!BufferHasOneUser'
  <2>1. /\ worker[w] = "idle" /\ queued > 0 /\ queued' = queued - 1
        /\ worker' = [worker EXCEPT ![w] = "examine"]
        /\ UNCHANGED <<loaded, fate, finished>>
    BY <1>8 DEF Requests!TakeJob, Requests!manager
  <2>2. /\ worker' \in [JobWorkers -> {"idle", "examine", "load"}]
        /\ Requests!Cardinality(Requests!Running') = r + 1
    BY <2>1, RunningChanges
  <2>3. queued' \in Nat
    BY <1>2, <2>1
  <2>4. HoldersCounted'
    BY <1>2, <2>1, <2>2, <2>3 DEF HoldersCounted
  <2>5. Requests!Holders' = queued' + (r + 1) + finished + h
    BY <2>1, <2>2 DEF Requests!Holders
  <2> QED
    BY <1>1, <1>2, <2>1, <2>4, <2>5 DEF Requests!BufferHasOneUser
<1>9. ASSUME NEW w \in JobWorkers, worker[w] # "idle", Requests!JobDone(w), loaded' = loaded,
             queued' = queued, fate' \in {fate, "astray"}
      PROVE  HoldersCounted' /\ Requests!BufferHasOneUser'
  <2>1. worker' = [worker EXCEPT ![w] = "idle"] /\ finished' = finished + 1
    BY <1>9 DEF Requests!JobDone
  <2>2. /\ worker' \in [JobWorkers -> {"idle", "examine", "load"}]
        /\ r >= 1 /\ Requests!Cardinality(Requests!Running') = r - 1
    BY <1>9, <2>1, RunningChanges
  <2>3. HoldersCounted'
    BY <1>2, <1>9, <2>1, <2>2 DEF HoldersCounted
  <2>4. Requests!Holders' = queued + (r - 1) + (finished + 1) + h
    BY <1>9, <2>1, <2>2 DEF Requests!Holders
  <2> QED
    BY <1>1, <1>2, <1>9, <2>2, <2>3, <2>4 DEF Requests!BufferHasOneUser
<1>10. ASSUME NEW w \in JobWorkers, Requests!Examine(w) PROVE HoldersCounted' /\ Requests!BufferHasOneUser'
  <2>1. worker[w] = "examine" /\ UNCHANGED <<loaded, fate, queued>>
    BY <1>10 DEF Requests!Examine, Requests!manager
  <2>2. CASE Requests!JobDone(w)
    BY <1>9, <2>1, <2>2
  <2>3. CASE worker' = [worker EXCEPT ![w] = "load"] /\ UNCHANGED finished
    <3>1. /\ worker' \in [JobWorkers -> {"idle", "examine", "load"}]
          /\ Requests!Cardinality(Requests!Running') = r
      BY <2>1, <2>3, RunningChanges
    <3>2. HoldersCounted'
      BY <1>2, <2>1, <2>3, <3>1 DEF HoldersCounted
    <3> QED
      BY <1>2, <1>3, <2>1, <2>3, <3>1, <3>2
  <2> QED
    BY <1>10, <2>2, <2>3 DEF Requests!Examine
<1>11. ASSUME NEW w \in JobWorkers, Requests!Load(w) PROVE HoldersCounted' /\ Requests!BufferHasOneUser'
  <2>1. worker[w] # "idle" /\ Requests!JobDone(w) /\ loaded' = loaded /\ queued' = queued
    BY <1>11 DEF Requests!Load
  <2>2. fate' \in {fate, "astray"}
    BY <1>11 DEF Requests!Load
  <2> QED
    BY <1>9, <2>1, <2>2
<1>12. ASSUME Requests!OtherJobs \/ Requests!EditFile \/ Requests!SecondPasses \/ Requests!TenSecondsPass \/ UNCHANGED Requests!requestVars
       PROVE  HoldersCounted' /\ Requests!BufferHasOneUser'
  <2>1. UNCHANGED <<fate, loaded, finished, worker, queued>>
    BY <1>12 DEF Requests!OtherJobs, Requests!EditFile, Requests!SecondPasses, Requests!TenSecondsPass, Requests!requestVars, Requests!manager, Requests!jobs,
                 Requests!threads
  <2> QED
    BY <1>2, <1>4, <2>1
<1>13. ASSUME Requests!StopJobs PROVE HoldersCounted' /\ Requests!BufferHasOneUser'
  <2>1. UNCHANGED <<fate, loaded, finished, worker>> /\ queued' \in {0, queued}
    BY <1>13 DEF Requests!StopJobs, Requests!manager, Requests!threads
  <2> QED
    BY <1>2, <1>4, <2>1
<1> QED
  BY <1>5, <1>6, <1>7, <1>8, <1>10, <1>11, <1>12, <1>13 DEF Requests!Next, Requests!EventLoop, Requests!Work

\* A file gets the time of the second in which it is written, and that is not
\* before the last examination.
LEMMA TimesStep ==
  ASSUME TimesInOrder, OverlookedWhenExamined, Requests!Next \/ UNCHANGED Requests!requestVars
  PROVE  TimesInOrder' /\ OverlookedWhenExamined'
<1>1. ASSUME UNCHANGED <<remembered, examined, found, file, buffer>>, now' \in Nat, now <= now'
      PROVE  TimesInOrder' /\ OverlookedWhenExamined'
  <2>1. TimesInOrder'
    BY <1>1 DEF TimesInOrder
  <2> QED
    BY <1>1, <2>1 DEF OverlookedWhenExamined, Requests!Overlooked
<1>2. now \in Nat
  BY DEF TimesInOrder
<1>3. ASSUME Requests!CheckMappings \/ Requests!CollectMappings \/ Requests!Destroy \/ Requests!OtherJobs \/ Requests!StopJobs
             \/ UNCHANGED Requests!requestVars \/ \E w \in JobWorkers : Requests!TakeJob(w)
      PROVE  TimesInOrder' /\ OverlookedWhenExamined'
  <2>1. UNCHANGED <<remembered, examined, found, file, buffer, now>>
    BY <1>3 DEF Requests!CheckMappings, Requests!CollectMappings, Requests!Destroy, Requests!OtherJobs, Requests!StopJobs, Requests!TakeJob, Requests!requestVars,
                Requests!manager, Requests!threads, Requests!world, Requests!jobs
  <2> QED
    BY <1>1, <1>2, <2>1
<1>4. ASSUME Requests!SecondPasses \/ Requests!TenSecondsPass PROVE TimesInOrder' /\ OverlookedWhenExamined'
  <2>1. UNCHANGED <<remembered, examined, found, file, buffer>> /\ now' \in {now, now + 1}
    BY <1>4 DEF Requests!SecondPasses, Requests!TenSecondsPass, Requests!manager, Requests!threads
  <2> QED
    BY <1>1, <1>2, <2>1
<1>5. ASSUME Requests!EditFile PROVE TimesInOrder' /\ OverlookedWhenExamined'
  <2>1. file'.mtime = now /\ UNCHANGED <<remembered, examined, found, buffer, now>>
    BY <1>5 DEF Requests!EditFile, Requests!manager, Requests!threads
  <2>2. TimesInOrder'
    BY <2>1 DEF TimesInOrder
  <2>3. remembered = now => examined = now
    BY DEF TimesInOrder
  <2> QED
    BY <2>1, <2>2, <2>3 DEF OverlookedWhenExamined, Requests!Overlooked
<1>6. ASSUME NEW w \in JobWorkers, Requests!Examine(w) PROVE TimesInOrder' /\ OverlookedWhenExamined'
  <2>1. UNCHANGED <<remembered, file, buffer, now>>
    BY <1>6 DEF Requests!Examine, Requests!manager, Requests!world
  <2>2. CASE Requests!JobDone(w) /\ UNCHANGED examined
    <3>1. found' = [found EXCEPT ![w] = 0]
      BY <2>2 DEF Requests!JobDone
    <3>2. TimesInOrder'
      BY <2>1, <2>2, <3>1 DEF TimesInOrder
    <3> QED
      BY <2>1, <2>2, <3>2 DEF OverlookedWhenExamined, Requests!Overlooked
  <2>3. CASE file.mtime # remembered /\ found' = [found EXCEPT ![w] = file.mtime] /\ examined' = now
    <3>1. TimesInOrder'
      BY <2>1, <2>3 DEF TimesInOrder
    <3> QED
      BY <2>1, <2>3, <3>1 DEF OverlookedWhenExamined, Requests!Overlooked
  <2> QED
    BY <1>6, <2>2, <2>3 DEF Requests!Examine
<1>7. ASSUME NEW w \in JobWorkers, Requests!Load(w) PROVE TimesInOrder' /\ OverlookedWhenExamined'
  <2>1. UNCHANGED <<file, now, examined>> /\ found' = [found EXCEPT ![w] = 0]
    BY <1>7 DEF Requests!Load, Requests!JobDone, Requests!world
  <2>2. CASE UNCHANGED <<buffer, remembered>>
    <3>1. TimesInOrder'
      BY <2>1, <2>2 DEF TimesInOrder
    <3> QED
      BY <2>1, <2>2, <3>1 DEF OverlookedWhenExamined, Requests!Overlooked
  <2>3. CASE buffer' = file.content /\ remembered' = found[w]
    <3>1. TimesInOrder'
      BY <2>1, <2>3 DEF TimesInOrder
    <3> QED
      BY <2>1, <2>3, <3>1 DEF OverlookedWhenExamined, Requests!Overlooked
  <2> QED
    BY <1>7, <2>2, <2>3 DEF Requests!Load, Requests!Remember
<1> QED
  BY <1>3, <1>4, <1>5, <1>6, <1>7 DEF Requests!Next, Requests!EventLoop, Requests!Work

LEMMA RequestsBegin ==
  ASSUME Requests!Init PROVE RequestInv
<1>1. /\ loaded = TRUE /\ remembered = 0 /\ fate = "up" /\ queued = 0 /\ finished = 0
      /\ worker = [w \in JobWorkers |-> "idle"] /\ found = [w \in JobWorkers |-> 0]
      /\ file.mtime = 1 /\ now = 1 /\ examined = 0
  BY DEF Requests!Init
<1>2. Requests!Running = {} /\ Requests!Cardinality({}) = 0
  BY <1>1, FS_EmptySet, SameCardinality DEF Requests!Running
<1>3. Requests!Holders = 1
  BY <1>1, <1>2 DEF Requests!Holders
<1>4. HoldersCounted /\ Requests!BufferHasOneUser
  BY <1>1, <1>3 DEF HoldersCounted, Requests!BufferHasOneUser
<1>5. TimesInOrder /\ OverlookedWhenExamined
  BY <1>1 DEF TimesInOrder, OverlookedWhenExamined, Requests!Overlooked
<1> QED
  BY <1>4, <1>5 DEF RequestInv

LEMMA RequestsInvariant == PartsSpec => []RequestInv
<1>1. PartsInit => RequestInv
  BY RequestsBegin DEF PartsInit
<1>2. RequestInv /\ [PartsNext]_partVars => RequestInv'
  <2> SUFFICES ASSUME RequestInv, [PartsNext]_partVars PROVE RequestInv'
    OBVIOUS
  <2>1. Requests!Next \/ UNCHANGED Requests!requestVars
    BY DEF PartsNext, partVars, requestVars, Requests!requestVars, Requests!manager, Requests!jobs,
           Requests!threads, Requests!world
  <2> QED
    BY <2>1, HoldersStep, TimesStep DEF RequestInv
<1> QED
  BY <1>1, <1>2, PTL DEF PartsSpec

\* The buffer of the mappings has one user at a time and is not destroyed under a
\* worker, for any number of workers (update_stream_requests,
\* update_mappings_job_fn and destroy_stream_request_manager).
THEOREM OneUserOfTheBuffer == PartsSpec => []BufferHasOneUser
<1>1. RequestInv => BufferHasOneUser
  BY DEF RequestInv, BufferHasOneUser
<1> QED
  BY <1>1, RequestsInvariant, PTL

\* A change of the mappings file is overlooked only in the second in which an
\* earlier one was examined, however long the clock runs (update_mappings_job_fn).
THEOREM OverlookedOnlyInASecond == PartsSpec => []OverlookedInItsSecond
<1>1. RequestInv => OverlookedInItsSecond
  BY DEF RequestInv, OverlookedWhenExamined, OverlookedInItsSecond, Requests!OverlookedInItsSecond
<1> QED
  BY <1>1, RequestsInvariant, PTL

\* A buffer that nobody has comes back to nobody: whoever could hand it on would
\* be its user.
LEMMA NobodyReturnsTheBuffer ==
  ASSUME RequestInv, RequestInv', fate = "up", Requests!Lost,
         Requests!Next \/ UNCHANGED Requests!requestVars
  PROVE  Requests!Lost' /\ UNCHANGED mappings
<1> DEFINE r == Requests!Cardinality(Requests!Running)
<1>1. /\ loaded = FALSE /\ queued = 0 /\ finished = 0 /\ r = 0
      /\ worker \in [JobWorkers -> {"idle", "examine", "load"}]
  <2>1. r \in Nat /\ queued \in Nat /\ finished \in Nat /\ loaded \in BOOLEAN
        /\ worker \in [JobWorkers -> {"idle", "examine", "load"}]
    BY RunningCounts DEF RequestInv, HoldersCounted
  <2>2. queued + r + finished + (IF loaded THEN 1 ELSE 0) = 0
    BY DEF Requests!Lost, Requests!Holders
  <2> HIDE DEF r
  <2>3. CASE loaded
    BY <2>1, <2>2, <2>3
  <2>4. CASE ~loaded
    <3>1. queued + r + finished = 0
      BY <2>1, <2>2, <2>4
    <3> QED
      BY <2>1, <2>4, <3>1
  <2> QED
    BY <2>3, <2>4
<1>2. \A w \in JobWorkers : worker[w] = "idle"
  <2>1. IsFiniteSet(Requests!Running) /\ Cardinality(Requests!Running) = 0
    BY <1>1, RunningCounts, SameCardinality DEF RequestInv
  <2>2. Requests!Running = {}
    BY <2>1, FS_EmptySet
  <2> QED
    BY <1>1, <2>2 DEF Requests!Running
<1>3. ASSUME UNCHANGED <<loaded, queued, finished, worker, mappings>>
      PROVE  Requests!Lost' /\ UNCHANGED mappings
  BY <1>3 DEF Requests!Lost, Requests!Holders, Requests!Running
<1>4. ASSUME Requests!EventLoop PROVE Requests!Lost' /\ UNCHANGED mappings
  <2>1. UNCHANGED <<loaded, queued, finished, worker, mappings>>
    BY <1>1, <1>4 DEF Requests!EventLoop, Requests!CheckMappings, Requests!CollectMappings,
                      Requests!JobIsBack, Requests!threads
  <2> QED
    BY <1>3, <2>1
<1>5. ASSUME Requests!Destroy \/ Requests!OtherJobs \/ Requests!StopJobs \/ Requests!EditFile
             \/ Requests!SecondPasses \/ Requests!TenSecondsPass \/ UNCHANGED Requests!requestVars
      PROVE  Requests!Lost' /\ UNCHANGED mappings
  <2>1. UNCHANGED <<loaded, finished, worker, mappings>> /\ queued' \in {0, queued}
    BY <1>5 DEF Requests!Destroy, Requests!OtherJobs, Requests!StopJobs, Requests!EditFile,
                Requests!SecondPasses, Requests!TenSecondsPass, Requests!requestVars,
                Requests!manager, Requests!jobs, Requests!threads
  <2> QED
    BY <1>1, <1>3, <2>1
<1>6. ASSUME NEW w \in JobWorkers, Requests!Work(w) PROVE FALSE
  BY <1>1, <1>2, <1>6 DEF Requests!Work, Requests!TakeJob, Requests!Examine, Requests!Load
<1> QED
  BY <1>4, <1>5, <1>6 DEF Requests!Next

\* A buffer that was lost, by one refused or dropped push whose result nobody
\* looked at, stays lost, and the mappings stay as they are, as long as the
\* manager is there (stream_request.cpp 246-273).
THEOREM BufferIsLostForGood == PartsSpec => Requests!LostForGood
<1>1. RequestInv /\ RequestInv' /\ [PartsNext]_partVars
        => [fate = "up" /\ Requests!Lost => Requests!Lost' /\ UNCHANGED mappings]_(Requests!requestVars)
  <2> SUFFICES ASSUME RequestInv, RequestInv', [PartsNext]_partVars, fate = "up", Requests!Lost
               PROVE  Requests!Lost' /\ UNCHANGED mappings
    BY DEF Requests!requestVars
  <2>1. Requests!Next \/ UNCHANGED Requests!requestVars
    BY DEF PartsNext, partVars, requestVars, Requests!requestVars, Requests!manager, Requests!jobs,
           Requests!threads, Requests!world
  <2> QED
    BY <2>1, NobodyReturnsTheBuffer
<1> QED
  BY <1>1, RequestsInvariant, PTL DEF PartsSpec, Requests!LostForGood

HIDE RequestsAssumption

\* What adds the mappings of the buffer that are not the first one.
Added(ids, it) ==
  it = [S \in SUBSET DOMAIN buffer |->
          IF S = {} THEN ids ELSE Requests!AddUnlessFirst(it[S \ {Max(S)}], buffer[Max(S)])]

\* The first of the two folds of Merged keeps the mappings user ids.
LEMMA MappingsAdded ==
  ASSUME NEW ids \in Seq(Ids), buffer \in Seq(Ids)
  PROVE  Requests!FoldLeft(Requests!AddUnlessFirst, ids, buffer) \in Seq(Ids)
<1> DEFINE g == [x \in Seq(Ids) |-> [e \in Ids |-> Requests!AddUnlessFirst(x, e)]]
<1>1. PICK n \in Nat : DOMAIN buffer = 1 .. n /\ \A i \in 1 .. n : buffer[i] \in Ids
  OBVIOUS
<1>2. ASSUME NEW x \in Seq(Ids), NEW e \in Ids PROVE Requests!AddUnlessFirst(x, e) \in Seq(Ids)
  BY Ended DEF Requests!AddUnlessFirst
<1>3. g \in [Seq(Ids) -> [Ids -> Seq(Ids)]]
  BY <1>2
<1>4. \A x \in Seq(Ids), e \in Ids : g[x][e] = Requests!AddUnlessFirst(x, e)
  OBVIOUS
<1>5. ids \in Seq(Ids)
  OBVIOUS
<1> HIDE DEF g
<1>6. PICK h \in [SUBSET (1 .. n) -> Seq(Ids)] : Folded(g, buffer, ids, n, h)
  BY <1>1, <1>3, <1>5, FoldExists
<1>7. Added(ids, h)
  <2>1. ASSUME NEW S \in SUBSET (1 .. n), S # {}
        PROVE  h[S] = Requests!AddUnlessFirst(h[S \ {Max(S)}], buffer[Max(S)])
    <3>1. Max(S) \in 1 .. n
      BY <2>1, LargestIsIn
    <3>2. h[S \ {Max(S)}] \in Seq(Ids) /\ buffer[Max(S)] \in Ids
      BY <1>1, <3>1
    <3>3. h[S] = g[h[S \ {Max(S)}]][buffer[Max(S)]]
      BY <1>6, <2>1 DEF Folded
    <3> QED
      BY <1>4, <3>2, <3>3
  <2>2. h[{}] = ids
    BY <1>6 DEF Folded
  <2>3. h = [S \in SUBSET (1 .. n) |-> h[S]]
    OBVIOUS
  <2> QED
    BY <1>1, <2>1, <2>2, <2>3 DEF Added
<1>8. PICK it : /\ Added(ids, it)
                /\ Requests!FoldLeft(Requests!AddUnlessFirst, ids, buffer) = it[DOMAIN buffer]
  <2>1. Added(ids, CHOOSE it : Added(ids, it))
    BY <1>7, Zenon
  <2>2. Requests!FoldLeft(Requests!AddUnlessFirst, ids, buffer)
          = (CHOOSE it : Added(ids, it))[DOMAIN buffer]
    BY LargestOfRequests DEF Requests!FoldLeft, Requests!MapThenFoldSet, Added
  <2> QED
    BY <2>1, <2>2
<1>9. it[{}] \in Seq(Ids)
  BY <1>5, <1>8 DEF Added
<1>10. ASSUME NEW k \in 1 .. n, it[1 .. k - 1] \in Seq(Ids) PROVE it[1 .. k] \in Seq(Ids)
  <2>1. /\ Max(1 .. k) = k /\ (1 .. k) \ {k} = 1 .. k - 1 /\ 1 .. k # {}
        /\ 1 .. k \in SUBSET (1 .. n)
    BY IntervalFacts
  <2>2. it[1 .. k] = Requests!AddUnlessFirst(it[1 .. k - 1], buffer[k])
    BY <1>1, <1>8, <2>1 DEF Added
  <2>3. buffer[k] \in Ids
    BY <1>1
  <2> QED
    BY <1>2, <1>10, <2>2, <2>3
<1>11. it[1 .. n] \in Seq(Ids)
  BY <1>9, <1>10, FoldStays
<1> QED
  BY <1>1, <1>8, <1>11

\* What adds those that were not found by luck.
AddedByLuck(ids, lucky, it) ==
  it = [S \in SUBSET DOMAIN buffer |->
          IF S = {} THEN ids
          ELSE (IF buffer[Max(S)] \in lucky THEN it[S \ {Max(S)}]
                ELSE Append(it[S \ {Max(S)}], buffer[Max(S)]))]

\* The other fold, when the index array holds garbage.
LEMMA MappingsAddedByLuck ==
  ASSUME NEW ids \in Seq(Ids), NEW lucky, buffer \in Seq(Ids)
  PROVE  Requests!FoldLeft(LAMBDA known, id : IF id \in lucky THEN known ELSE Append(known, id),
                           ids, buffer) \in Seq(Ids)
<1> DEFINE g == [x \in Seq(Ids) |-> [e \in Ids |-> (IF e \in lucky THEN x ELSE Append(x, e))]]
<1>1. PICK n \in Nat : DOMAIN buffer = 1 .. n /\ \A i \in 1 .. n : buffer[i] \in Ids
  OBVIOUS
<1>2. ASSUME NEW x \in Seq(Ids), NEW e \in Ids PROVE (IF e \in lucky THEN x ELSE Append(x, e)) \in Seq(Ids)
  BY Ended
<1>3. g \in [Seq(Ids) -> [Ids -> Seq(Ids)]]
  BY <1>2
<1>4. \A x \in Seq(Ids), e \in Ids : g[x][e] = (IF e \in lucky THEN x ELSE Append(x, e))
  OBVIOUS
<1>5. ids \in Seq(Ids)
  OBVIOUS
<1> HIDE DEF g
<1>6. PICK h \in [SUBSET (1 .. n) -> Seq(Ids)] : Folded(g, buffer, ids, n, h)
  BY <1>1, <1>3, <1>5, FoldExists
<1>7. AddedByLuck(ids, lucky, h)
  <2>1. ASSUME NEW S \in SUBSET (1 .. n), S # {}
        PROVE  h[S] = (IF buffer[Max(S)] \in lucky THEN h[S \ {Max(S)}]
                       ELSE Append(h[S \ {Max(S)}], buffer[Max(S)]))
    <3>1. Max(S) \in 1 .. n
      BY <2>1, LargestIsIn
    <3>2. h[S \ {Max(S)}] \in Seq(Ids) /\ buffer[Max(S)] \in Ids
      BY <1>1, <3>1
    <3>3. h[S] = g[h[S \ {Max(S)}]][buffer[Max(S)]]
      BY <1>6, <2>1 DEF Folded
    <3> QED
      BY <1>4, <3>2, <3>3
  <2>2. h[{}] = ids
    BY <1>6 DEF Folded
  <2>3. h = [S \in SUBSET (1 .. n) |-> h[S]]
    OBVIOUS
  <2> QED
    BY <1>1, <2>1, <2>2, <2>3 DEF AddedByLuck
<1>8. PICK it : /\ AddedByLuck(ids, lucky, it)
                /\ Requests!FoldLeft(LAMBDA known, id : IF id \in lucky THEN known ELSE Append(known, id),
                                     ids, buffer) = it[DOMAIN buffer]
  <2>1. AddedByLuck(ids, lucky, CHOOSE it : AddedByLuck(ids, lucky, it))
    BY <1>7, Zenon
  <2>2. Requests!FoldLeft(LAMBDA known, id : IF id \in lucky THEN known ELSE Append(known, id),
                          ids, buffer) = (CHOOSE it : AddedByLuck(ids, lucky, it))[DOMAIN buffer]
    BY LargestOfRequests DEF Requests!FoldLeft, Requests!MapThenFoldSet, AddedByLuck
  <2> QED
    BY <2>1, <2>2
<1>9. it[{}] \in Seq(Ids)
  BY <1>5, <1>8 DEF AddedByLuck
<1>10. ASSUME NEW k \in 1 .. n, it[1 .. k - 1] \in Seq(Ids) PROVE it[1 .. k] \in Seq(Ids)
  <2>1. /\ Max(1 .. k) = k /\ (1 .. k) \ {k} = 1 .. k - 1 /\ 1 .. k # {}
        /\ 1 .. k \in SUBSET (1 .. n)
    BY IntervalFacts
  <2>2. it[1 .. k] = (IF buffer[k] \in lucky THEN it[1 .. k - 1]
                      ELSE Append(it[1 .. k - 1], buffer[k]))
    BY <1>1, <1>8, <2>1 DEF AddedByLuck
  <2>3. buffer[k] \in Ids
    BY <1>1
  <2> QED
    BY <1>2, <1>10, <2>2, <2>3
<1>11. it[1 .. n] \in Seq(Ids)
  BY <1>9, <1>10, FoldStays
<1> QED
  BY <1>1, <1>8, <1>11

\* A worker that loads has found a file, and a file that was there stays.
RequestTypes ==
  /\ Requests!TypeOK
  /\ \A w \in JobWorkers : worker[w] = "load" => file.content # Missing

\* Whatever a new file makes of the mappings, they are user ids.
LEMMA MergedType ==
  ASSUME RequestTypes, NEW ids \in Requests!Merged
  PROVE  ids \in Seq(Ids)
<1>1. mappings \in Seq(Ids) /\ buffer \in Seq(Ids)
  <2>1. <<>> \in Seq(Ids)
    OBVIOUS
  <2> QED
    BY <2>1, RequestsAssumption DEF RequestTypes, Requests!TypeOK
<1>2. Requests!FoldLeft(Requests!AddUnlessFirst, mappings, buffer) \in Seq(Ids)
  BY <1>1, MappingsAdded
<1>3. ASSUME NEW lucky
      PROVE  Requests!FoldLeft(LAMBDA known, id : IF id \in lucky THEN known ELSE Append(known, id),
                               mappings, buffer) \in Seq(Ids)
  BY <1>1, MappingsAddedByLuck DEF Requests!FoldLeft, Requests!MapThenFoldSet
<1>4. CASE indices = "zeros" \/ mappings = <<>>
  BY <1>2, <1>4 DEF Requests!Merged
<1>5. CASE ~(indices = "zeros" \/ mappings = <<>>)
  <2>1. PICK lucky \in SUBSET Requests!ToSet(mappings) :
          ids = Requests!FoldLeft(LAMBDA known, id : IF id \in lucky THEN known ELSE Append(known, id),
                                  mappings, buffer)
    BY <1>5 DEF Requests!Merged, Requests!FoldLeft, Requests!MapThenFoldSet
  <2> QED
    BY <1>3, <2>1 DEF Requests!FoldLeft, Requests!MapThenFoldSet
<1> QED
  BY <1>4, <1>5

LEMMA RequestTypesBegin == ASSUME Requests!Init PROVE RequestTypes
<1>1. Requests!TypeOK
  <2>1. /\ mappings = <<>> /\ <<>> \in Seq(Ids) /\ Len(<<>>) <= MappingsCapacity
        /\ queued = 0 /\ others = 0 /\ finished = 0 /\ queued + others <= PendingCapacity
    BY RequestsAssumption DEF Requests!Init
  <2>2. file \in [content : Contents \cup {TooLarge, Missing}, mtime : 1 .. MaxTime]
    BY RequestsAssumption DEF Requests!Init
  <2>3. found \in [JobWorkers -> 0 .. MaxTime] /\ worker \in [JobWorkers -> {"idle", "examine", "load"}]
    BY RequestsAssumption DEF Requests!Init
  <2>4. remembered \in 0 .. MaxTime /\ now \in 1 .. MaxTime /\ examined \in 0 .. MaxTime
    BY RequestsAssumption DEF Requests!Init
  <2>5. /\ loaded \in BOOLEAN /\ due \in BOOLEAN /\ stopped \in BOOLEAN
        /\ buffer \in Contents \cup {<<>>}
        /\ indices \in {"zeros", "garbage"} /\ loop \in {"idle", "collect"}
        /\ fate \in {"up", "destroyed", "astray"}
    BY Zenon DEF Requests!Init
  <2>6. /\ mappings \in Seq(Ids) /\ Len(mappings) <= MappingsCapacity
        /\ queued \in Nat /\ others \in Nat /\ finished \in Nat
    BY <2>1
  <2> QED
    BY <2>1, <2>2, <2>3, <2>4, <2>5, <2>6, Zenon DEF Requests!TypeOK
<1>2. \A w \in JobWorkers : worker[w] # "load"
  BY DEF Requests!Init
<1> QED
  BY <1>1, <1>2 DEF RequestTypes

LEMMA EventLoopKeepsTypes == ASSUME RequestTypes, Requests!EventLoop PROVE RequestTypes'
<1>1. CASE Requests!CheckMappings
  <2>1. /\ UNCHANGED <<buffer, remembered, mappings, indices, fate, others, finished, stopped,
                       worker, found, examined, file, now>>
        /\ loop' = "collect" /\ due' \in BOOLEAN /\ loaded' \in BOOLEAN
        /\ queued' = queued \/ (queued' = queued + 1 /\ queued + others < PendingCapacity)
    BY <1>1 DEF Requests!CheckMappings, Requests!GiveAway, Requests!PushJob, Requests!threads, Requests!world,
                RequestTypes, Requests!TypeOK
  <2>2. queued' \in Nat /\ queued' + others <= PendingCapacity
    BY <2>1, RequestsAssumption DEF RequestTypes, Requests!TypeOK
  <2> QED
    BY <2>1, <2>2 DEF RequestTypes, Requests!TypeOK
<1>2. CASE Requests!CollectMappings
  <2>1. /\ UNCHANGED <<buffer, remembered, indices, due, queued, others, stopped, worker, found,
                       examined, file, now>>
        /\ loop' = "idle"
    BY <1>2 DEF Requests!CollectMappings, Requests!threads, Requests!world
  <2>2. finished' \in Nat /\ loaded' \in BOOLEAN /\ fate' \in {"up", "destroyed", "astray"}
    <3>1. finished \in Nat /\ loaded \in BOOLEAN /\ fate \in {"up", "destroyed", "astray"}
      BY DEF RequestTypes, Requests!TypeOK
    <3>2. /\ finished' = finished \/ (finished > 0 /\ finished' = finished - 1)
          /\ loaded' \in {loaded, TRUE} /\ fate' \in {fate, "astray"}
      BY <1>2, Zenon DEF Requests!CollectMappings, Requests!JobIsBack, Requests!TakeBuffer
    <3>3. finished' \in Nat
      BY <3>1, <3>2
    <3> QED
      BY <3>1, <3>2, <3>3, Zenon
  <2>3. mappings' \in Seq(Ids) /\ Len(mappings') <= MappingsCapacity
    <3>1. CASE UNCHANGED mappings
      BY <3>1 DEF RequestTypes, Requests!TypeOK
    <3>2. CASE \E ids \in Requests!Merged : Len(ids) <= MappingsCapacity /\ mappings' = ids
      BY <3>2, MergedType
    <3> QED
      BY <1>2, <3>1, <3>2 DEF Requests!CollectMappings, Requests!TakeBuffer
  <2> QED
    BY <2>1, <2>2, <2>3 DEF RequestTypes, Requests!TypeOK
<1> QED
  BY <1>1, <1>2 DEF Requests!EventLoop

LEMMA WorkerKeepsTypes ==
  ASSUME RequestTypes, NEW w \in JobWorkers, Requests!Work(w)
  PROVE  RequestTypes'
<1>1. CASE Requests!TakeJob(w)
  <2>1. /\ UNCHANGED <<loaded, buffer, remembered, mappings, indices, due, loop, fate, others, finished,
                       stopped, found, examined, file, now>>
        /\ queued > 0 /\ queued' = queued - 1
        /\ worker' = [worker EXCEPT ![w] = "examine"]
    BY <1>1 DEF Requests!TakeJob, Requests!manager, Requests!world
  <2>2. queued' \in Nat /\ queued' + others <= PendingCapacity
    BY <2>1, RequestsAssumption DEF RequestTypes, Requests!TypeOK
  <2> QED
    BY <2>1, <2>2 DEF RequestTypes, Requests!TypeOK
<1>2. CASE Requests!Examine(w)
  <2>1. UNCHANGED <<loaded, buffer, remembered, mappings, indices, due, loop, fate, queued, others,
                    stopped, file, now>>
    BY <1>2 DEF Requests!Examine, Requests!manager, Requests!world
  <2>2. /\ worker' \in [JobWorkers -> {"idle", "examine", "load"}]
        /\ found' \in [JobWorkers -> 0 .. MaxTime] /\ examined' \in 0 .. MaxTime /\ finished' \in Nat
        /\ \A v \in JobWorkers : worker'[v] = "load" => worker[v] = "load" \/ file.content # Missing
    <3>1. /\ worker \in [JobWorkers -> {"idle", "examine", "load"}] /\ found \in [JobWorkers -> 0 .. MaxTime]
          /\ examined \in 0 .. MaxTime /\ now \in 0 .. MaxTime /\ finished \in Nat
          /\ file.mtime \in 0 .. MaxTime /\ 0 \in 0 .. MaxTime
      BY RequestsAssumption DEF RequestTypes, Requests!TypeOK
    <3>2. CASE Requests!JobDone(w) /\ UNCHANGED examined
      BY <3>1, <3>2 DEF Requests!JobDone
    <3>3. CASE /\ file.content # Missing
               /\ worker' = [worker EXCEPT ![w] = "load"]
               /\ found' = [found EXCEPT ![w] = file.mtime]
               /\ examined' = now
               /\ UNCHANGED finished
      BY <3>1, <3>3
    <3> QED
      BY <1>2, <3>2, <3>3 DEF Requests!Examine
  <2> QED
    BY <2>1, <2>2 DEF RequestTypes, Requests!TypeOK
<1>3. CASE Requests!Load(w)
  <2>1. UNCHANGED <<loaded, mappings, indices, due, loop, queued, others, stopped, examined, file, now>>
    BY <1>3 DEF Requests!Load, Requests!world
  <2>2. /\ worker' = [worker EXCEPT ![w] = "idle"] /\ found' = [found EXCEPT ![w] = 0]
        /\ finished' = finished + 1
    BY <1>3 DEF Requests!Load, Requests!JobDone
  <2>3. file.content \in Contents \/ file.content = TooLarge
    BY <1>3 DEF Requests!Load, RequestTypes, Requests!TypeOK
  <2>4. /\ buffer' \in Contents \cup {<<>>} /\ remembered' \in 0 .. MaxTime
        /\ fate' \in {"up", "destroyed", "astray"}
    BY <1>3, <2>3 DEF Requests!Load, Requests!Remember, RequestTypes, Requests!TypeOK
  <2>5. /\ worker' \in [JobWorkers -> {"idle", "examine", "load"}]
        /\ found' \in [JobWorkers -> 0 .. MaxTime] /\ finished' \in Nat
        /\ \A v \in JobWorkers : worker'[v] = "load" => worker[v] = "load"
    BY <2>2, RequestsAssumption DEF RequestTypes, Requests!TypeOK
  <2> QED
    BY <2>1, <2>4, <2>5 DEF RequestTypes, Requests!TypeOK
<1> QED
  BY <1>1, <1>2, <1>3 DEF Requests!Work

LEMMA OthersKeepTypes ==
  ASSUME RequestTypes,
         \/ Requests!Destroy \/ Requests!OtherJobs \/ Requests!StopJobs \/ Requests!EditFile
         \/ Requests!SecondPasses \/ Requests!TenSecondsPass \/ UNCHANGED Requests!requestVars
  PROVE  RequestTypes'
<1>1. UNCHANGED <<buffer, remembered, mappings, indices, loop, loaded, finished, worker, found, examined>>
  BY DEF Requests!Destroy, Requests!OtherJobs, Requests!StopJobs, Requests!EditFile, Requests!SecondPasses,
         Requests!TenSecondsPass, Requests!requestVars, Requests!manager, Requests!jobs, Requests!threads
<1>2. fate' \in {"up", "destroyed", "astray"} /\ due' \in BOOLEAN /\ stopped' \in BOOLEAN
  BY DEF Requests!Destroy, Requests!FreeBoth, Requests!OtherJobs, Requests!StopJobs, Requests!EditFile,
         Requests!SecondPasses, Requests!TenSecondsPass, Requests!requestVars, Requests!manager,
         Requests!jobs, RequestTypes, Requests!TypeOK
<1>3. queued' \in Nat /\ others' \in Nat /\ queued' + others' <= PendingCapacity
  <2>1. \/ UNCHANGED <<queued, others>>
        \/ queued' = queued /\ others' = others + 1 /\ queued + others < PendingCapacity
        \/ queued' = queued /\ others' = others - 1 /\ others > 0
        \/ queued' \in {0, queued} /\ others' = others
    BY DEF Requests!Destroy, Requests!OtherJobs, Requests!StopJobs, Requests!EditFile, Requests!SecondPasses,
           Requests!TenSecondsPass, Requests!requestVars, Requests!jobs
  <2> QED
    BY <2>1, RequestsAssumption DEF RequestTypes, Requests!TypeOK
<1>4. now' \in 1 .. MaxTime
  <2>1. now' = now \/ (now' = now + 1 /\ now < MaxTime)
    BY DEF Requests!Destroy, Requests!OtherJobs, Requests!StopJobs, Requests!EditFile, Requests!SecondPasses,
           Requests!TenSecondsPass, Requests!requestVars, Requests!world
  <2> QED
    BY <2>1, RequestsAssumption DEF RequestTypes, Requests!TypeOK
<1>5. /\ file' \in [content : Contents \cup {TooLarge, Missing}, mtime : 1 .. MaxTime]
      /\ file' = file \/ file'.content # Missing
  <2>1. file' = file \/ \E c \in Contents \cup {TooLarge} : file' = [content |-> c, mtime |-> now]
    BY DEF Requests!Destroy, Requests!OtherJobs, Requests!StopJobs, Requests!EditFile, Requests!SecondPasses,
           Requests!TenSecondsPass, Requests!requestVars, Requests!world
  <2> QED
    BY <2>1, RequestsAssumption DEF RequestTypes, Requests!TypeOK
<1> QED
  BY <1>1, <1>2, <1>3, <1>4, <1>5 DEF RequestTypes, Requests!TypeOK

LEMMA RequestTypesStep ==
  ASSUME RequestTypes, Requests!Next \/ UNCHANGED Requests!requestVars
  PROVE  RequestTypes'
  BY EventLoopKeepsTypes, WorkerKeepsTypes, OthersKeepTypes DEF Requests!Next

------------------------------------------------------------------------------
(* The table of plugins.                                                     *)

USE PluginsAssumption

\* Numbers that dlopen will give are new.
NumbersOpened == \A i \in DOMAIN plugins : plugins[i].library <= opened

TableInv == Plugins!TypeOK /\ NumbersOpened /\ Plugins!LibrariesAccountedFor

LEMMA TableParts ==
  ASSUME TableInv
  PROVE  /\ plugins \in Seq(Plugins!Entry) /\ Len(plugins) \in Nat /\ DOMAIN plugins = 1 .. Len(plugins)
         /\ \A i \in 1 .. Len(plugins) : /\ plugins[i] \in Plugins!Entry
                                         /\ plugins[i].name \in PluginNames
                                         /\ plugins[i].library \in 1 .. MaxOpened
                                         /\ plugins[i].library <= opened
         /\ opened \in Nat
<1>1. /\ plugins \in Seq(Plugins!Entry) /\ opened \in Nat
      /\ \A i \in DOMAIN plugins : plugins[i].library <= opened
  BY DEF TableInv, Plugins!TypeOK, NumbersOpened
<1>2. /\ Len(plugins) \in Nat /\ DOMAIN plugins = 1 .. Len(plugins)
      /\ \A i \in 1 .. Len(plugins) : plugins[i] \in Plugins!Entry
  BY <1>1
<1>3. \A e \in Plugins!Entry : e.name \in PluginNames /\ e.library \in 1 .. MaxOpened
  BY DEF Plugins!Entry
<1> QED
  BY <1>1, <1>2, <1>3

\* A reload closes the library of the entry and of no other.
LEMMA OthersKept ==
  ASSUME TableInv, NEW n, NEW i \in DOMAIN plugins, plugins[i].name # n
  PROVE  plugins[i].library \notin Plugins!LibrariesOf(Plugins!SlotOf(n))
  BY DEF TableInv, Plugins!LibrariesAccountedFor, Plugins!EntriesDistinct, Plugins!LibrariesOf, Plugins!SlotOf

LEMMA ReloadFails ==
  ASSUME TableInv, NEW n \in PluginNames, open' = Plugins!CloseOld(n),
         failed' = IF Plugins!SlotOf(n) = {} THEN failed ELSE failed \cup {n},
         UNCHANGED <<plugins, opened>>
  PROVE  /\ open' \subseteq open /\ failed' \subseteq PluginNames
         /\ (NumbersOpened /\ Plugins!NoLibraryLeaked /\ Plugins!EntriesDistinct /\ Plugins!ClosedOnlyAfterFailure)'
<1>1. open' \subseteq open
  BY DEF Plugins!CloseOld
<1>2. failed' \subseteq PluginNames
  BY DEF TableInv, Plugins!TypeOK
<1>3. NumbersOpened' /\ Plugins!EntriesDistinct'
  BY DEF TableInv, NumbersOpened, Plugins!LibrariesAccountedFor, Plugins!EntriesDistinct
<1>4. Plugins!NoLibraryLeaked'
  <2>1. Plugins!NoLibraryLeaked
    BY DEF TableInv, Plugins!LibrariesAccountedFor
  <2> QED
    BY <1>1, <2>1 DEF Plugins!NoLibraryLeaked, Plugins!LibrariesOf
<1>5. ASSUME NEW i \in DOMAIN plugins, plugins[i].library \notin open'
      PROVE  plugins[i].name \in failed'
  <2>1. CASE plugins[i].name = n
    <3>1. Plugins!SlotOf(n) # {}
      BY <2>1 DEF Plugins!SlotOf
    <3> QED
      BY <2>1, <3>1
  <2>2. CASE plugins[i].name # n
    <3>1. plugins[i].library \notin open
      BY <1>5, <2>2, OthersKept DEF Plugins!CloseOld
    <3>2. plugins[i].name \in failed
      BY <3>1 DEF TableInv, Plugins!LibrariesAccountedFor, Plugins!ClosedOnlyAfterFailure
    <3> QED
      BY <3>2
  <2> QED
    BY <2>1, <2>2
<1>6. Plugins!ClosedOnlyAfterFailure'
  BY <1>5 DEF Plugins!ClosedOnlyAfterFailure
<1> QED
  BY <1>1, <1>2, <1>3, <1>4, <1>6

\* What Store makes of the table: an entry for n with the new library, and
\* the other entries as they were.
LEMMA StoredTable ==
  ASSUME TableInv, NEW n \in PluginNames, ~Plugins!Full, opened < MaxOpened
  PROVE  /\ Plugins!Store(n) \in Seq(Plugins!Entry) /\ Len(Plugins!Store(n)) \in Nat
         /\ DOMAIN Plugins!Store(n) = 1 .. Len(Plugins!Store(n))
         /\ Len(Plugins!Store(n)) <= MaxPlugins /\ Len(plugins) <= Len(Plugins!Store(n))
         /\ \A i \in DOMAIN Plugins!Store(n) :
              \/ Plugins!Store(n)[i].name = n /\ Plugins!Store(n)[i].library = opened + 1
              \/ i \in DOMAIN plugins /\ Plugins!Store(n)[i] = plugins[i] /\ plugins[i].name # n
         /\ \A i \in DOMAIN plugins : Plugins!Store(n)[i].name = plugins[i].name
         /\ \E i \in DOMAIN Plugins!Store(n) : Plugins!Store(n)[i].library = opened + 1
<1> DEFINE entry == [name |-> n, library |-> opened + 1]
<1>1. entry \in Plugins!Entry /\ entry.name = n /\ entry.library = opened + 1
  BY TableParts DEF Plugins!Entry
<1>2. PICK e \in Plugins!Entry : e = entry
  BY <1>1
<1>3. /\ plugins \in Seq(Plugins!Entry) /\ Len(plugins) \in Nat /\ DOMAIN plugins = 1 .. Len(plugins)
      /\ Len(plugins) < MaxPlugins
  BY TableParts DEF Plugins!Full
<1>4. e.name = n /\ e.library = opened + 1
  BY <1>1, <1>2
<1> HIDE DEF entry
<1>5. CASE Plugins!SlotOf(n) = {}
  <2>1. Plugins!Store(n) = Append(plugins, e)
    BY <1>2, <1>5 DEF Plugins!Store, entry
  <2>2. /\ Append(plugins, e) \in Seq(Plugins!Entry) /\ Len(Append(plugins, e)) = Len(plugins) + 1
        /\ \A i \in 1 .. Len(plugins) : Append(plugins, e)[i] = plugins[i]
        /\ Append(plugins, e)[Len(plugins) + 1] = e
    BY <1>3, Ended
  <2>3. DOMAIN Append(plugins, e) = 1 .. Len(plugins) + 1
    BY <1>3, <2>2
  <2>4. \A i \in 1 .. Len(plugins) : plugins[i].name # n
    BY <1>3, <1>5 DEF Plugins!SlotOf
  <2>5. \A i \in 1 .. Len(plugins) + 1 : i \in 1 .. Len(plugins) \/ i = Len(plugins) + 1
    BY <1>3
  <2>6. Len(plugins) + 1 \in 1 .. Len(plugins) + 1
    BY <1>3
  <2>7. PICK t : t = Plugins!Store(n)
    OBVIOUS
  <2>8. /\ t \in Seq(Plugins!Entry) /\ Len(t) = Len(plugins) + 1 /\ DOMAIN t = 1 .. Len(plugins) + 1
        /\ \A i \in 1 .. Len(plugins) : t[i] = plugins[i]
        /\ t[Len(plugins) + 1] = e
    BY <2>1, <2>2, <2>3, <2>7
  <2>9. Len(t) \in Nat /\ Len(t) <= MaxPlugins /\ Len(plugins) <= Len(t)
    BY <1>3, <2>8
  <2>10. \A i \in DOMAIN t : \/ t[i].name = n /\ t[i].library = opened + 1
                             \/ i \in DOMAIN plugins /\ t[i] = plugins[i] /\ plugins[i].name # n
    BY <1>3, <1>4, <2>4, <2>5, <2>8
  <2>11. /\ \A i \in DOMAIN plugins : t[i].name = plugins[i].name
         /\ \E i \in DOMAIN t : t[i].library = opened + 1
    BY <1>3, <1>4, <2>6, <2>8
  <2> QED
    BY <2>7, <2>8, <2>9, <2>10, <2>11
<1>6. CASE Plugins!SlotOf(n) # {}
  <2>1. PICK t : t = Plugins!Store(n)
    OBVIOUS
  <2>2. t = [i \in DOMAIN plugins |-> IF i \in Plugins!SlotOf(n) THEN e ELSE plugins[i]]
    BY <1>2, <1>6, <2>1 DEF Plugins!Store, entry
  <2>3. \A i \in DOMAIN plugins : plugins[i] \in Plugins!Entry
    BY <1>3
  <2>4. t \in Seq(Plugins!Entry) /\ Len(t) = Len(plugins) /\ DOMAIN t = 1 .. Len(plugins)
    BY <1>3, <2>2, <2>3
  <2>5. \A i \in DOMAIN plugins : i \in Plugins!SlotOf(n) <=> plugins[i].name = n
    BY DEF Plugins!SlotOf
  <2>6. \A i \in DOMAIN t : \/ t[i].name = n /\ t[i].library = opened + 1
                            \/ i \in DOMAIN plugins /\ t[i] = plugins[i] /\ plugins[i].name # n
    BY <1>3, <1>4, <2>2, <2>4, <2>5
  <2>7. \A i \in DOMAIN plugins : t[i].name = plugins[i].name
    BY <1>4, <2>2, <2>5
  <2>8. \E i \in DOMAIN t : t[i].library = opened + 1
    <3>1. PICK i \in Plugins!SlotOf(n) : i \in DOMAIN plugins
      BY <1>6 DEF Plugins!SlotOf
    <3>2. t[i] = e
      BY <2>2, <3>1
    <3> QED
      BY <1>3, <1>4, <2>4, <3>1, <3>2
  <2> QED
    BY <1>3, <2>1, <2>4, <2>6, <2>7, <2>8
<1> QED
  BY <1>5, <1>6

LEMMA ReloadSucceeds ==
  ASSUME TableInv, NEW n \in PluginNames, ~Plugins!Full, opened < MaxOpened,
         opened' = opened + 1, open' = Plugins!CloseOld(n) \cup {opened + 1}, plugins' = Plugins!Store(n),
         failed' = failed \ {n}
  PROVE  /\ plugins' \in Seq(Plugins!Entry) /\ Len(plugins') <= MaxPlugins
         /\ open' \subseteq 1 .. opened' /\ opened' \in 0 .. MaxOpened
         /\ (NumbersOpened /\ Plugins!NoLibraryLeaked /\ Plugins!EntriesDistinct /\ Plugins!ClosedOnlyAfterFailure)'
         /\ \A i \in DOMAIN plugins : i \in DOMAIN plugins' /\ plugins'[i].name = plugins[i].name
<1>1. PICK t : t = Plugins!Store(n) /\ t = plugins'
  OBVIOUS
<1>2. /\ t \in Seq(Plugins!Entry) /\ Len(t) \in Nat /\ DOMAIN t = 1 .. Len(t) /\ Len(t) <= MaxPlugins
      /\ Len(plugins) <= Len(t)
      /\ \A i \in DOMAIN t : \/ t[i].name = n /\ t[i].library = opened + 1
                             \/ i \in DOMAIN plugins /\ t[i] = plugins[i] /\ plugins[i].name # n
      /\ \A i \in DOMAIN plugins : t[i].name = plugins[i].name
      /\ \E i \in DOMAIN t : t[i].library = opened + 1
  BY <1>1, StoredTable
<1>3. /\ opened \in 0 .. MaxOpened /\ open \subseteq 1 .. opened
      /\ DOMAIN plugins = 1 .. Len(plugins) /\ Len(plugins) \in Nat
      /\ \A i \in DOMAIN plugins : plugins[i].library \in Nat /\ plugins[i].library <= opened
  BY TableParts DEF TableInv, Plugins!TypeOK
<1>4. opened + 1 \in 1 .. opened + 1 /\ 1 .. opened \subseteq 1 .. opened + 1
  BY <1>3
<1>5. open' \subseteq 1 .. opened' /\ opened' \in 0 .. MaxOpened
  <2>1. opened' = opened + 1 /\ opened + 1 \in 0 .. MaxOpened
    BY <1>3
  <2>2. open' \subseteq open \cup {opened + 1}
    BY DEF Plugins!CloseOld
  <2> QED
    BY <1>3, <1>4, <2>1, <2>2
<1>6. NumbersOpened'
  BY <1>1, <1>2, <1>3 DEF NumbersOpened
<1>7. Plugins!NoLibraryLeaked'
  <2>1. ASSUME NEW l \in open' PROVE \E i \in DOMAIN t : t[i].library = l
    <3>1. CASE l = opened + 1
      BY <1>2, <3>1
    <3>2. CASE l \in Plugins!CloseOld(n)
      <4>1. l \in open /\ l \notin Plugins!LibrariesOf(Plugins!SlotOf(n))
        BY <3>2 DEF Plugins!CloseOld
      <4>2. PICK i \in DOMAIN plugins : plugins[i].library = l
        BY <4>1 DEF TableInv, Plugins!LibrariesAccountedFor, Plugins!NoLibraryLeaked, Plugins!LibrariesOf
      <4>3. plugins[i].name # n
        BY <4>1, <4>2 DEF Plugins!LibrariesOf, Plugins!SlotOf
      <4>4. i \in DOMAIN t
        BY <1>2, <1>3, <4>2
      <4>5. t[i].name # n
        BY <1>2, <4>2, <4>3
      <4>6. t[i] = plugins[i]
        BY <1>2, <4>4, <4>5
      <4> QED
        BY <4>2, <4>4, <4>6
    <3> QED
      BY <2>1, <3>1, <3>2
  <2> QED
    BY <1>1, <2>1 DEF Plugins!NoLibraryLeaked, Plugins!LibrariesOf
<1>8. Plugins!EntriesDistinct'
  <2>1. \A i, k \in DOMAIN plugins :
          plugins[i].name = plugins[k].name \/ plugins[i].library = plugins[k].library => i = k
    BY DEF TableInv, Plugins!LibrariesAccountedFor, Plugins!EntriesDistinct
  <2>2. \A i \in DOMAIN plugins : plugins[i].library # opened + 1
    BY <1>3
  <2>3. ASSUME NEW i \in DOMAIN t, NEW k \in DOMAIN t,
               t[i].name = t[k].name \/ t[i].library = t[k].library
        PROVE  i = k
    <3>1. CASE i \in DOMAIN plugins /\ k \in DOMAIN plugins
      <4>1. CASE t[i].name = n /\ t[k].name = n
        BY <1>2, <2>1, <3>1, <4>1
      <4>2. CASE t[i].name # n /\ t[k].name # n
        BY <1>2, <2>1, <2>3, <3>1, <4>2
      <4>3. CASE (t[i].name = n) # (t[k].name = n)
        <5>1. t[i].name # t[k].name
          BY <4>3
        <5>2. t[i].library # t[k].library
          BY <1>2, <2>2, <3>1, <4>3
        <5> QED
          BY <2>3, <5>1, <5>2
      <4> QED
        BY <4>1, <4>2, <4>3
    <3>2. CASE i \notin DOMAIN plugins \/ k \notin DOMAIN plugins
      <4>1. /\ \A j \in DOMAIN t : j \notin DOMAIN plugins =>
                   t[j].name = n /\ t[j].library = opened + 1 /\ j > Len(plugins)
        BY <1>2, <1>3
      <4>2. \A j \in DOMAIN t : j \notin DOMAIN plugins => Plugins!SlotOf(n) = {}
        <5>1. ASSUME NEW j \in DOMAIN t, j \notin DOMAIN plugins, Plugins!SlotOf(n) # {} PROVE FALSE
          <6>1. DOMAIN t = DOMAIN plugins
            BY <1>1, <5>1, Zenon DEF Plugins!Store
          <6> QED
            BY <5>1, <6>1
        <5> QED
          BY <5>1
      <4>3. Plugins!SlotOf(n) = {}
        BY <3>2, <4>2
      <4>4. \A j \in DOMAIN plugins : plugins[j].name # n
        BY <4>3 DEF Plugins!SlotOf
      <4>5. Len(t) = Len(plugins) + 1
        <5>1. t = Append(plugins, [name |-> n, library |-> opened + 1])
          BY <1>1, <4>3 DEF Plugins!Store
        <5>2. plugins \in Seq(Plugins!Entry)
          BY TableParts
        <5> QED
          BY <5>1, <5>2
      <4>6. \A j \in DOMAIN t : j \notin DOMAIN plugins => j = Len(plugins) + 1
        BY <1>2, <1>3, <4>5
      <4>7. \A j \in DOMAIN plugins : t[j].name # n /\ t[j].library # opened + 1
        <5>1. \A j \in DOMAIN plugins : j \in DOMAIN t /\ t[j].name # n
          BY <1>2, <1>3, <4>4
        <5> QED
          BY <1>2, <2>2, <5>1
      <4> QED
        BY <2>3, <3>2, <4>1, <4>6, <4>7
    <3> QED
      BY <3>1, <3>2
  <2> QED
    BY <1>1, <2>3 DEF Plugins!EntriesDistinct
<1>9. Plugins!ClosedOnlyAfterFailure'
  <2>1. ASSUME NEW i \in DOMAIN t, t[i].library \notin open' PROVE t[i].name \in failed'
    <3>1. t[i].library # opened + 1
      BY <2>1
    <3>2. i \in DOMAIN plugins /\ t[i] = plugins[i] /\ plugins[i].name # n
      BY <1>2, <3>1
    <3>3. plugins[i].library \notin open
      BY <2>1, <3>2, OthersKept DEF Plugins!CloseOld
    <3>4. plugins[i].name \in failed
      BY <3>2, <3>3 DEF TableInv, Plugins!LibrariesAccountedFor, Plugins!ClosedOnlyAfterFailure
    <3> QED
      BY <3>2, <3>4
  <2> QED
    BY <1>1, <2>1 DEF Plugins!ClosedOnlyAfterFailure
<1>10. \A i \in DOMAIN plugins : i \in DOMAIN t /\ t[i].name = plugins[i].name
  BY <1>2, <1>3
<1> QED
  BY <1>1, <1>2, <1>5, <1>6, <1>7, <1>8, <1>9, <1>10

LEMMA LoadPluginKeepsTable ==
  ASSUME TableInv, NEW n \in PluginNames, Plugins!LoadPlugin(n), UNCHANGED <<disk, phase, pointer, unloaded>>,
         unscanned' \subseteq unscanned, changes' \subseteq changes
  PROVE  TableInv'
<1>1. /\ plugins' \in Seq(Plugins!Entry) /\ Len(plugins') <= MaxPlugins
      /\ open' \subseteq 1 .. opened' /\ opened' \in 0 .. MaxOpened
      /\ failed' \subseteq PluginNames
      /\ (NumbersOpened /\ Plugins!NoLibraryLeaked /\ Plugins!EntriesDistinct /\ Plugins!ClosedOnlyAfterFailure)'
      /\ \A i \in DOMAIN plugins : i \in DOMAIN plugins' /\ plugins'[i].name = plugins[i].name
  <2>1. CASE UNCHANGED Plugins!table
    BY <2>1 DEF Plugins!table, TableInv, Plugins!TypeOK, Plugins!LibrariesAccountedFor, NumbersOpened, Plugins!NoLibraryLeaked,
                Plugins!EntriesDistinct, Plugins!ClosedOnlyAfterFailure, Plugins!LibrariesOf
  <2>2. CASE /\ open' = Plugins!CloseOld(n)
             /\ failed' = IF Plugins!SlotOf(n) = {} THEN failed ELSE failed \cup {n}
             /\ UNCHANGED <<plugins, opened>>
    BY <2>2, ReloadFails DEF TableInv, Plugins!TypeOK
  <2>3. CASE /\ ~Plugins!Full /\ opened < MaxOpened /\ opened' = opened + 1
             /\ open' = Plugins!CloseOld(n) \cup {opened + 1} /\ plugins' = Plugins!Store(n)
             /\ failed' = failed \ {n}
    <3>1. failed' \subseteq PluginNames
      BY <2>3 DEF TableInv, Plugins!TypeOK
    <3> QED
      BY <2>3, <3>1, ReloadSucceeds
  <2> QED
    BY <2>1, <2>2, <2>3 DEF Plugins!LoadPlugin
<1>2. Plugins!TypeOK'
  BY <1>1 DEF TableInv, Plugins!TypeOK
<1>3. Plugins!PointersLast'
  BY <1>1 DEF TableInv, Plugins!LibrariesAccountedFor, Plugins!PointersLast
<1> QED
  BY <1>1, <1>2, <1>3 DEF TableInv, Plugins!LibrariesAccountedFor

\* unload_plugin closes the library of the entry that it removes, and the other
\* entries stay, one of them in another slot.
LEMMA UnloadPluginKeepsTable ==
  ASSUME TableInv, NEW n \in PluginNames, Plugins!UnloadPlugin(n)
  PROVE  TableInv'
<1>1. PICK i \in DOMAIN plugins : /\ plugins[i].name = n
                                  /\ open' = open \ {plugins[i].library} /\ plugins' = Plugins!Without(i)
  BY DEF Plugins!UnloadPlugin, Plugins!SlotOf
<1>2. PICK m : m = Len(plugins)
  OBVIOUS
<1>3. /\ plugins \in Seq(Plugins!Entry) /\ m \in Nat /\ DOMAIN plugins = 1 .. m /\ i \in 1 .. m
      /\ m <= MaxPlugins
  BY <1>1, <1>2, TableParts DEF TableInv, Plugins!TypeOK
<1>4. PICK t : t = Plugins!Without(i) /\ t = plugins'
  BY <1>1
<1>5. t = [k \in 1 .. m - 1 |-> IF k = i THEN plugins[m] ELSE plugins[k]]
  BY <1>2, <1>4 DEF Plugins!Without
<1>6. PICK from \in [1 .. m - 1 -> 1 .. m] : \A k \in 1 .. m - 1 : from[k] = IF k = i THEN m ELSE k
  <2>1. [k \in 1 .. m - 1 |-> IF k = i THEN m ELSE k] \in [1 .. m - 1 -> 1 .. m]
    BY <1>3
  <2> QED
    BY <2>1
<1>7. /\ DOMAIN t = 1 .. m - 1
      /\ \A k \in DOMAIN t : from[k] \in DOMAIN plugins /\ from[k] # i /\ t[k] = plugins[from[k]]
      /\ \A k, j \in DOMAIN t : from[k] = from[j] => k = j
      /\ \A k \in DOMAIN plugins : k # i => \E j \in DOMAIN t : from[j] = k
  <2>1. DOMAIN t = 1 .. m - 1
    BY <1>5
  <2>2. ASSUME NEW k \in 1 .. m - 1
        PROVE  from[k] \in 1 .. m /\ from[k] # i /\ t[k] = plugins[from[k]]
    BY <1>3, <1>5, <1>6
  <2>3. \A k, j \in 1 .. m - 1 : from[k] = from[j] => k = j
    BY <1>3, <1>6
  <2>4. ASSUME NEW k \in 1 .. m, k # i PROVE \E j \in 1 .. m - 1 : from[j] = k
    <3>1. CASE k = m
      <4>1. i \in 1 .. m - 1
        BY <1>3, <2>4, <3>1
      <4> QED
        BY <1>6, <3>1, <4>1
    <3>2. CASE k # m
      <4>1. k \in 1 .. m - 1
        BY <1>3, <2>4, <3>2
      <4> QED
        BY <1>6, <2>4, <4>1
    <3> QED
      BY <3>1, <3>2
  <2> QED
    BY <1>3, <2>1, <2>2, <2>3, <2>4
<1>8. /\ \A k, j \in DOMAIN plugins :
           plugins[k].name = plugins[j].name \/ plugins[k].library = plugins[j].library => k = j
      /\ \A k \in DOMAIN plugins : plugins[k] \in Plugins!Entry /\ plugins[k].library <= opened
      /\ \A k \in DOMAIN plugins : plugins[k].library \notin open => plugins[k].name \in failed
  BY TableParts, <1>2, <1>3
  DEF TableInv, Plugins!LibrariesAccountedFor, Plugins!EntriesDistinct, Plugins!ClosedOnlyAfterFailure
<1>9. /\ opened' = opened /\ failed' = failed \ {n} /\ pointer' = pointer /\ unloaded' = TRUE
      /\ UNCHANGED <<disk, changes, phase, unscanned>>
  BY DEF Plugins!UnloadPlugin, Plugins!folder
<1>10. t \in Seq(Plugins!Entry) /\ Len(t) <= MaxPlugins
  <2>1. m - 1 \in Nat /\ m - 1 <= MaxPlugins
    BY <1>3
  <2>2. t \in [1 .. m - 1 -> Plugins!Entry]
    BY <1>5, <1>7, <1>8
  <2> QED
    BY <1>7, <2>1, <2>2
<1>11. Plugins!TypeOK'
  BY <1>1, <1>4, <1>9, <1>10 DEF TableInv, Plugins!TypeOK
<1>12. NumbersOpened'
  BY <1>4, <1>7, <1>8, <1>9 DEF NumbersOpened
<1>13. Plugins!NoLibraryLeaked'
  <2>1. ASSUME NEW l \in open' PROVE \E j \in DOMAIN t : t[j].library = l
    <3>1. l \in open /\ l # plugins[i].library
      BY <1>1, <2>1
    <3>2. PICK k \in DOMAIN plugins : plugins[k].library = l
      BY <3>1 DEF TableInv, Plugins!LibrariesAccountedFor, Plugins!NoLibraryLeaked, Plugins!LibrariesOf
    <3>3. PICK j \in DOMAIN t : from[j] = k
      BY <1>7, <3>1, <3>2
    <3> QED
      BY <1>7, <3>2, <3>3
  <2> QED
    BY <1>4, <2>1 DEF Plugins!NoLibraryLeaked, Plugins!LibrariesOf
<1>14. Plugins!EntriesDistinct'
  BY <1>4, <1>7, <1>8 DEF Plugins!EntriesDistinct
<1>15. Plugins!ClosedOnlyAfterFailure'
  <2>1. ASSUME NEW k \in DOMAIN t, t[k].library \notin open' PROVE t[k].name \in failed'
    <3>1. PICK j \in DOMAIN plugins : j = from[k] /\ j # i /\ t[k] = plugins[j]
      BY <1>7
    <3>2. plugins[j].library # plugins[i].library /\ plugins[j].name # n
      BY <1>1, <1>8, <3>1
    <3>3. plugins[j].library \notin open
      BY <1>1, <2>1, <3>1, <3>2
    <3> QED
      BY <1>8, <1>9, <3>1, <3>2, <3>3
  <2> QED
    BY <1>4, <2>1 DEF Plugins!ClosedOnlyAfterFailure
<1>16. Plugins!PointersLast'
  BY <1>9 DEF Plugins!PointersLast
<1> QED
  BY <1>11, <1>12, <1>13, <1>14, <1>15, <1>16 DEF TableInv, Plugins!LibrariesAccountedFor

\* The other actions leave the libraries and the table alone, or empty it.
LEMMA TableStep ==
  ASSUME TableInv, Plugins!Next \/ UNCHANGED Plugins!pluginVars
  PROVE  TableInv'
<1>1. ASSUME NEW n \in PluginNames, Plugins!Scan(n) PROVE TableInv'
  <2>1. /\ Plugins!LoadPlugin(n) /\ UNCHANGED <<disk, phase, pointer, unloaded>>
        /\ unscanned' \subseteq unscanned /\ changes' \subseteq changes
    BY <1>1 DEF Plugins!Scan, Plugins!folder
  <2> QED
    BY <2>1, LoadPluginKeepsTable
<1>2. ASSUME NEW n \in PluginNames, Plugins!OnFsEvent(n) PROVE TableInv'
  <2>1. /\ Plugins!LoadPlugin(n) /\ UNCHANGED <<disk, phase, pointer, unloaded>>
        /\ unscanned' \subseteq unscanned /\ changes' \subseteq changes
    BY <1>2 DEF Plugins!OnFsEvent
  <2> QED
    BY <2>1, LoadPluginKeepsTable
<1>3. ASSUME NEW n \in PluginNames, Plugins!FindPlugin(n) PROVE TableInv'
  <2>1. PICK i \in DOMAIN plugins : plugins[i].name = n /\ pointer' = [slot |-> i, name |-> n]
    BY <1>3 DEF Plugins!FindPlugin, Plugins!SlotOf
  <2>2. i \in 1 .. MaxPlugins
    BY TableParts DEF TableInv, Plugins!TypeOK
  <2>3. UNCHANGED <<plugins, open, opened, failed, disk, changes, phase, unscanned>> /\ unloaded' = FALSE
    BY <1>3 DEF Plugins!FindPlugin, Plugins!table, Plugins!folder
  <2>4. pointer' \in [slot : 1 .. MaxPlugins, name : PluginNames]
    BY <2>1, <2>2
  <2>5. Plugins!TypeOK'
    BY <2>3, <2>4 DEF TableInv, Plugins!TypeOK
  <2>6. Plugins!PointersLast'
    BY <2>1, <2>3 DEF Plugins!PointersLast
  <2> QED
    BY <2>3, <2>5, <2>6
    DEF TableInv, Plugins!LibrariesAccountedFor, NumbersOpened, Plugins!NoLibraryLeaked, Plugins!EntriesDistinct,
        Plugins!ClosedOnlyAfterFailure, Plugins!LibrariesOf
<1>4. ASSUME Plugins!ScanEnds \/ UNCHANGED Plugins!pluginVars \/ \E n \in PluginNames : Plugins!FileChanges(n)
      PROVE  TableInv'
  <2>1. UNCHANGED <<plugins, open, opened, failed, pointer, unloaded>>
    BY <1>4 DEF Plugins!ScanEnds, Plugins!FileChanges, Plugins!pluginVars, Plugins!table, Plugins!folder
  <2>2. /\ phase' \in {phase, "up"} /\ unscanned' = unscanned /\ disk' \subseteq PluginNames
        /\ changes' \subseteq PluginNames
    BY <1>4 DEF Plugins!ScanEnds, Plugins!FileChanges, Plugins!pluginVars, Plugins!table, Plugins!folder, TableInv, Plugins!TypeOK
  <2>3. Plugins!TypeOK'
    BY <2>1, <2>2 DEF TableInv, Plugins!TypeOK
  <2> QED
    BY <2>1, <2>3
    DEF TableInv, Plugins!LibrariesAccountedFor, NumbersOpened, Plugins!NoLibraryLeaked, Plugins!EntriesDistinct,
        Plugins!ClosedOnlyAfterFailure, Plugins!LibrariesOf, Plugins!PointersLast
<1>5. ASSUME Plugins!DestroyRegistry PROVE TableInv'
  <2>1. /\ plugins' = <<>> /\ DOMAIN plugins' = {} /\ phase' = "destroyed" /\ changes' = {}
        /\ failed' = {} /\ pointer' = Plugins!NoPointer /\ UNCHANGED <<opened, disk, unscanned, unloaded>>
        /\ open' = open \ Plugins!LibrariesOf(DOMAIN plugins)
    BY <1>5 DEF Plugins!DestroyRegistry
  <2>2. open' = {}
    BY <2>1 DEF TableInv, Plugins!LibrariesAccountedFor, Plugins!NoLibraryLeaked
  <2>3. plugins' \in Seq(Plugins!Entry) /\ Len(plugins') <= MaxPlugins
    BY <2>1
  <2>4. Plugins!TypeOK'
    BY <2>1, <2>2, <2>3 DEF TableInv, Plugins!TypeOK
  <2> QED
    BY <2>1, <2>2, <2>4
    DEF TableInv, Plugins!LibrariesAccountedFor, NumbersOpened, Plugins!NoLibraryLeaked, Plugins!EntriesDistinct,
        Plugins!ClosedOnlyAfterFailure, Plugins!PointersLast
<1>6. ASSUME NEW n \in PluginNames, Plugins!UnloadPlugin(n) PROVE TableInv'
  BY <1>6, UnloadPluginKeepsTable
<1> QED
  BY <1>1, <1>2, <1>3, <1>4, <1>5, <1>6 DEF Plugins!Next

LEMMA TableBegins ==
  ASSUME Plugins!Init PROVE TableInv
<1>1. /\ plugins = <<>> /\ DOMAIN plugins = {} /\ plugins \in Seq(Plugins!Entry)
      /\ Len(plugins) <= MaxPlugins
  BY DEF Plugins!Init
<1>2. /\ open = {} /\ opened = 0 /\ disk \subseteq PluginNames /\ unscanned \subseteq PluginNames
      /\ phase = "scanning" /\ changes = {} /\ failed = {}
      /\ pointer = Plugins!NoPointer /\ unloaded = FALSE
  BY DEF Plugins!Init
<1>3. Plugins!TypeOK
  <2>1. open \subseteq 1 .. opened /\ opened \in 0 .. MaxOpened
    BY <1>2
  <2>2. pointer \in [slot : 1 .. MaxPlugins, name : PluginNames] \cup {Plugins!NoPointer}
    BY <1>2
  <2>3. changes \subseteq PluginNames /\ failed \subseteq PluginNames /\ unloaded \in BOOLEAN
    BY <1>2
  <2> QED
    BY <1>1, <1>2, <2>1, <2>2, <2>3 DEF Plugins!TypeOK
<1>4. Plugins!NoLibraryLeaked /\ Plugins!PointersLast
  BY <1>2 DEF Plugins!NoLibraryLeaked, Plugins!PointersLast
<1>5. NumbersOpened /\ Plugins!EntriesDistinct /\ Plugins!ClosedOnlyAfterFailure
  BY <1>1 DEF NumbersOpened, Plugins!EntriesDistinct, Plugins!ClosedOnlyAfterFailure
<1> QED
  BY <1>3, <1>4, <1>5 DEF TableInv, Plugins!LibrariesAccountedFor

LEMMA TableInvariant == PartsSpec => []TableInv
<1>1. PartsInit => TableInv
  BY TableBegins DEF PartsInit
<1>2. TableInv /\ [PartsNext]_partVars => TableInv'
  <2> SUFFICES ASSUME TableInv, [PartsNext]_partVars PROVE TableInv'
    OBVIOUS
  <2>1. Plugins!Next \/ UNCHANGED Plugins!pluginVars
    BY DEF PartsNext, partVars, pluginVars, Plugins!pluginVars, Plugins!table, Plugins!folder
  <2> QED
    BY <2>1, TableStep
<1> QED
  BY <1>1, <1>2, PTL DEF PartsSpec

\* Every library that is open is in the table once, a closed one only after a
\* failed reload, and pointers last, for every table and every number of reloads
\* (load_plugin, unload_plugin, find_plugin and destroy_registry).
THEOREM LibrariesAreAccountedFor == PartsSpec => []LibrariesAccountedFor
<1>1. TableInv => LibrariesAccountedFor
  BY DEF TableInv, LibrariesAccountedFor
<1> QED
  BY <1>1, TableInvariant, PTL

HIDE PluginsAssumption

------------------------------------------------------------------------------
(* The registry of stream ids.                                               *)

USE RegistryAssumption

RegistryInv == Registry!TypeOK /\ Registry!AnswersAreOwn

LEMMA RegistryParts ==
  ASSUME RegistryInv
  PROVE  /\ userIds \in Seq(Users) /\ Len(userIds) \in Nat /\ DOMAIN userIds = 1 .. Len(userIds)
         /\ \A s \in Shards :
              /\ sorted[s] \in Seq(Registry!Numbers) /\ Len(sorted[s]) \in Nat
              /\ DOMAIN sorted[s] = 1 .. Len(sorted[s]) /\ Len(sorted[s]) <= Len(userIds)
              /\ \A k \in 1 .. Len(sorted[s]) : /\ sorted[s][k] \in 0 .. Len(sorted[s]) - 1
                                                /\ sorted[s][k] + 1 \in 1 .. Len(userIds)
              /\ \A n \in 0 .. Len(sorted[s]) - 1 : \E k \in 1 .. Len(sorted[s]) : sorted[s][k] = n
<1>1. userIds \in Seq(Users) /\ sorted \in [Shards -> Seq(Registry!Numbers)]
  BY DEF RegistryInv, Registry!TypeOK
<1>2. Len(userIds) \in Nat /\ DOMAIN userIds = 1 .. Len(userIds)
  BY <1>1
<1>3. ASSUME NEW s \in Shards
      PROVE  /\ sorted[s] \in Seq(Registry!Numbers) /\ Len(sorted[s]) \in Nat
             /\ DOMAIN sorted[s] = 1 .. Len(sorted[s]) /\ Len(sorted[s]) <= Len(userIds)
             /\ \A k \in 1 .. Len(sorted[s]) : /\ sorted[s][k] \in 0 .. Len(sorted[s]) - 1
                                               /\ sorted[s][k] + 1 \in 1 .. Len(userIds)
             /\ \A n \in 0 .. Len(sorted[s]) - 1 : \E k \in 1 .. Len(sorted[s]) : sorted[s][k] = n
  <2>1. sorted[s] \in Seq(Registry!Numbers)
    BY <1>1
  <2>2. Len(sorted[s]) \in Nat /\ DOMAIN sorted[s] = 1 .. Len(sorted[s])
    BY <2>1
  <2>3. /\ {sorted[s][k] : k \in 1 .. Len(sorted[s])} = 0 .. Len(sorted[s]) - 1
        /\ Len(sorted[s]) <= Len(userIds)
    BY <2>2 DEF RegistryInv, Registry!AnswersAreOwn, Registry!ShardsArePermutations, Registry!ToSet
  <2>4. \A k \in 1 .. Len(sorted[s]) : sorted[s][k] \in 0 .. Len(sorted[s]) - 1
    BY <2>3
  <2>5. \A k \in 1 .. Len(sorted[s]) : sorted[s][k] + 1 \in 1 .. Len(userIds)
    BY <1>2, <2>2, <2>3, <2>4
  <2>6. \A n \in 0 .. Len(sorted[s]) - 1 : \E k \in 1 .. Len(sorted[s]) : sorted[s][k] = n
    BY <2>3
  <2> QED
    BY <2>1, <2>2, <2>3, <2>4, <2>5, <2>6
<1> QED
  BY <1>1, <1>2, <1>3

\* What Find returns, of any ids and any shard.
FirstHit(ids, shard, u) ==
  LET hits == {k \in DOMAIN shard : Registry!UserAt(ids, shard[k]) = u}
  IN IF hits = {} THEN {} ELSE {shard[CHOOSE k \in hits : \A m \in hits : k <= m]}

LEMMA FirstHitIsRight ==
  ASSUME NEW ids, NEW t, NEW u, DOMAIN t \subseteq Nat
  PROVE  /\ \A number \in FirstHit(ids, t, u) :
              /\ FirstHit(ids, t, u) = {number} /\ ids[number + 1] = u
              /\ \E k \in DOMAIN t : number = t[k]
         /\ (\A k \in DOMAIN t : ids[t[k] + 1] # u) <=> FirstHit(ids, t, u) = {}
<1> DEFINE hits == {k \in DOMAIN t : Registry!UserAt(ids, t[k]) = u}
<1>1. FirstHit(ids, t, u) =
        IF hits = {} THEN {} ELSE {t[CHOOSE k \in hits : \A j \in hits : k <= j]}
  BY Zenon DEF FirstHit
<1>2. /\ \A k : k \in hits <=> k \in DOMAIN t /\ ids[t[k] + 1] = u
      /\ hits \subseteq Nat
  BY DEF Registry!UserAt
<1> HIDE DEF hits
<1>3. CASE hits = {}
  BY <1>1, <1>2, <1>3
<1>4. CASE hits # {}
  <2>1. \E k \in hits : \A j \in hits : k <= j
    BY <1>2, <1>4, LeastNatural
  <2>2. PICK k \in hits : k = CHOOSE i \in hits : \A j \in hits : i <= j
    BY <2>1
  <2>3. FirstHit(ids, t, u) = {t[k]}
    BY <1>1, <1>4, <2>2
  <2> QED
    BY <1>2, <2>2, <2>3
<1> QED
  BY <1>3, <1>4

\* Find leads to an entry of the user id, and finds one where there is one.
LEMMA FindIsRight ==
  ASSUME RegistryInv, NEW u \in Users
  PROVE  /\ \A number \in Registry!Find(u) : /\ number \in 0 .. Len(userIds) - 1
                                    /\ number \in 0 .. Len(sorted[ShardOf[u]]) - 1
                                    /\ userIds[number + 1] = u
         /\ Registry!Find(u) = {} <=>
              \A k \in 1 .. Len(sorted[ShardOf[u]]) : userIds[sorted[ShardOf[u]][k] + 1] # u
<1>1. PICK s \in Shards : s = ShardOf[u]
  OBVIOUS
<1>2. PICK t : t = sorted[s]
  OBVIOUS
<1>3. /\ Len(t) \in Nat /\ DOMAIN t = 1 .. Len(t) /\ Len(t) <= Len(userIds) /\ Len(userIds) \in Nat
      /\ \A k \in 1 .. Len(t) : t[k] \in 0 .. Len(t) - 1
  BY <1>2, RegistryParts
<1>4. Registry!Find(u) = FirstHit(userIds, t, u)
  BY <1>1, <1>2, Zenon DEF Registry!Find, FirstHit
<1>5. /\ (\A k \in DOMAIN t : userIds[t[k] + 1] # u) <=> FirstHit(userIds, t, u) = {}
      /\ \A number \in FirstHit(userIds, t, u) :
           userIds[number + 1] = u /\ \E k \in DOMAIN t : number = t[k]
  <2>1. DOMAIN t \subseteq Nat
    BY <1>3
  <2> QED
    BY <2>1, FirstHitIsRight, Zenon
<1>6. ASSUME NEW number \in Registry!Find(u)
      PROVE  number \in 0 .. Len(t) - 1 /\ userIds[number + 1] = u
  <2>1. userIds[number + 1] = u /\ \E k \in 1 .. Len(t) : number = t[k]
    BY <1>3, <1>4, <1>5, <1>6
  <2> QED
    BY <1>3, <2>1
<1>7. \A number \in Registry!Find(u) : number \in 0 .. Len(userIds) - 1
  BY <1>3, <1>6
<1> QED
  BY <1>1, <1>2, <1>3, <1>4, <1>5, <1>6, <1>7

\* A number is given again: nothing but the answer is new.
LEMMA FoundAgain ==
  ASSUME RegistryInv, NEW u \in Users, NEW number \in Registry!Find(u), Registry!Answer(u, number),
         UNCHANGED <<userIds, sorted, capacity>>
  PROVE  RegistryInv'
<1>1. number \in 0 .. Len(userIds) - 1 /\ userIds[number + 1] = u /\ Len(userIds) \in Nat
  BY FindIsRight, RegistryParts
<1>2. /\ answered \in [Users -> SUBSET Registry!Numbers] /\ Len(userIds) <= MaxUsers
      /\ \A v \in Users : \A n \in answered[v] : n < Len(userIds) /\ userIds[n + 1] = v
  BY DEF RegistryInv, Registry!TypeOK, Registry!AnswersAreOwn, Registry!UserAt
<1>3. number \in Registry!Numbers
  BY <1>1, <1>2 DEF Registry!Numbers
<1>4. answered' = [answered EXCEPT ![u] = answered[u] \cup {number}]
  BY DEF Registry!Answer
<1>5. answered' \in [Users -> SUBSET Registry!Numbers]
  BY <1>2, <1>3, <1>4
<1>6. \A v \in Users : \A n \in answered'[v] : n < Len(userIds) /\ userIds[n + 1] = v
  BY <1>1, <1>2, <1>4
<1>7. Registry!TypeOK'
  BY <1>5 DEF RegistryInv, Registry!TypeOK
<1>8. Registry!ShardsArePermutations'
  BY DEF RegistryInv, Registry!AnswersAreOwn, Registry!ShardsArePermutations
<1>9. Registry!OneShardIsExact'
  <2>1. \A v : Registry!Find(v)' = Registry!Find(v)
    BY DEF Registry!Find, Registry!UserAt
  <2> QED
    BY <2>1 DEF RegistryInv, Registry!AnswersAreOwn, Registry!OneShardIsExact, Registry!OneShard, Registry!UserAt
<1> QED
  BY <1>6, <1>7, <1>8, <1>9 DEF RegistryInv, Registry!AnswersAreOwn, Registry!UserAt

\* The place of a new entry: inside the shard or at its end.
LEMMA PlaceOfNew ==
  ASSUME RegistryInv, NEW u \in Users, NEW s \in Shards, NEW ids, NEW pos,
         pos = Registry!AfterSmaller(ids, sorted[s], u)
  PROVE  /\ pos \in 0 .. Len(sorted[s])
         /\ \A k \in 1 .. pos : ~(ids[sorted[s][k] + 1] >= u)
         /\ pos < Len(sorted[s]) => ids[sorted[s][pos + 1] + 1] >= u
<1>1. PICK t : t = sorted[s]
  OBVIOUS
<1>2. Len(t) \in Nat /\ DOMAIN t = 1 .. Len(t)
  BY <1>1, RegistryParts
<1> DEFINE larger == {k \in DOMAIN sorted[s] : Registry!UserAt(ids, sorted[s][k]) >= u}
<1>3. pos = IF larger = {} THEN Len(sorted[s])
            ELSE (CHOOSE k \in larger : \A m \in larger : k <= m) - 1
  BY Zenon DEF Registry!AfterSmaller
<1>4. /\ \A k : k \in larger <=> k \in 1 .. Len(t) /\ ids[t[k] + 1] >= u
      /\ larger \subseteq Nat
  BY <1>1, <1>2 DEF Registry!UserAt
<1> HIDE DEF larger
<1>5. CASE larger = {}
  <2>1. pos = Len(t) /\ \A k \in 1 .. Len(t) : ~(ids[t[k] + 1] >= u)
    BY <1>1, <1>2, <1>3, <1>4, <1>5
  <2> QED
    BY <1>1, <1>2, <2>1
<1>6. CASE larger # {}
  <2>1. larger \subseteq Nat
    BY <1>4
  <2>2. \E k \in larger : \A m \in larger : k <= m
    BY <1>6, <2>1, LeastNatural
  <2>3. PICK k \in larger : /\ k = CHOOSE j \in larger : \A m \in larger : j <= m
                            /\ \A m \in larger : k <= m
    BY <2>2
  <2>4. pos = k - 1 /\ k \in 1 .. Len(t) /\ ids[t[k] + 1] >= u
    BY <1>3, <1>4, <1>6, <2>3
  <2>5. \A j \in 1 .. pos : j \in 1 .. Len(t) /\ j < k
    BY <1>2, <2>4
  <2>6. \A j \in 1 .. pos : j \notin larger
    BY <1>2, <2>3, <2>4, <2>5
  <2>7. \A j \in 1 .. pos : ~(ids[t[j] + 1] >= u)
    BY <1>4, <2>5, <2>6
  <2>8. pos \in 0 .. Len(t) /\ pos + 1 = k
    BY <1>2, <2>4
  <2> QED
    BY <1>1, <2>4, <2>7, <2>8
<1> QED
  BY <1>5, <1>6

\* The shard with its new number, behind those of smaller user ids.
PutBehindSmaller(grown, shard, ids, u) ==
  \E pos \in 0 .. Len(shard) :
    /\ \A k \in 1 .. pos : ~(ids[shard[k] + 1] >= u)
    /\ pos < Len(shard) => ids[shard[pos + 1] + 1] >= u
    /\ \A k \in 1 .. Len(shard) + 1 :
         grown[k] = IF k < pos + 1 THEN shard[k] ELSE IF k = pos + 1 THEN Len(shard)
                    ELSE shard[k - 1]

\* A user id that Find does not find is registered: what its shard becomes.
LEMMA NewEntry ==
  ASSUME RegistryInv, NEW u \in Users, Len(userIds) < MaxUsers,
         userIds' = Append(userIds, u), Registry!Add(u, userIds'), Registry!Answer(u, Len(userIds))
  PROVE  /\ Registry!TypeOK' /\ Registry!ShardsArePermutations'
         /\ \A v \in Users : \A number \in answered'[v] :
              number < Len(userIds') /\ userIds'[number + 1] = v
         /\ \A r \in Shards : r # ShardOf[u] => sorted'[r] = sorted[r]
         /\ Len(sorted'[ShardOf[u]]) = Len(sorted[ShardOf[u]]) + 1
         /\ PutBehindSmaller(sorted'[ShardOf[u]], sorted[ShardOf[u]], userIds', u)
<1>1. PICK s \in Shards : s = ShardOf[u]
  OBVIOUS
<1>2. PICK t : t = sorted[s]
  OBVIOUS
<1>3. PICK m : m = Len(t)
  OBVIOUS
<1>4. PICK n : n = Len(userIds)
  OBVIOUS
<1>5. PICK pos : pos = Registry!AfterSmaller(userIds', t, u)
  OBVIOUS
<1>6. /\ userIds \in Seq(Users) /\ n \in Nat /\ n < MaxUsers /\ m \in Nat /\ m <= n
      /\ t \in Seq(Registry!Numbers) /\ DOMAIN t = 1 .. m
      /\ \A k \in 1 .. m : t[k] \in 0 .. m - 1
      /\ \A v \in 0 .. m - 1 : \E k \in 1 .. m : t[k] = v
  BY <1>2, <1>3, <1>4, RegistryParts
<1>7. /\ sorted \in [Shards -> Seq(Registry!Numbers)] /\ capacity \in [Shards -> Nat]
      /\ \A r \in Shards : Len(sorted[r]) <= capacity[r]
      /\ answered \in [Users -> SUBSET Registry!Numbers]
  BY DEF RegistryInv, Registry!TypeOK
<1>8. /\ pos \in 0 .. m
      /\ \A k \in 1 .. pos : ~(userIds'[t[k] + 1] >= u)
      /\ pos < m => userIds'[t[pos + 1] + 1] >= u
  BY <1>2, <1>3, <1>5, PlaceOfNew
<1>9. m \in Registry!Numbers /\ n \in Registry!Numbers /\ pos + 1 \in 1 .. m + 1
  BY <1>6, <1>8 DEF Registry!Numbers
<1>10. PICK grown : grown = Registry!InsertAt(t, pos + 1, m)
  OBVIOUS
<1>11. /\ grown \in Seq(Registry!Numbers) /\ Len(grown) = m + 1
       /\ \A k \in 1 .. m + 1 :
            grown[k] = IF k < pos + 1 THEN t[k] ELSE IF k = pos + 1 THEN m ELSE t[k - 1]
  <2>1. PICK at \in 1 .. Len(t) + 1 : at = pos + 1
    BY <1>3, <1>9
  <2>2. /\ Registry!InsertAt(t, at, m) \in Seq(Registry!Numbers) /\ Len(Registry!InsertAt(t, at, m)) = Len(t) + 1
        /\ \A k \in 1 .. Len(t) + 1 :
             Registry!InsertAt(t, at, m)[k] = IF k < at THEN t[k] ELSE IF k = at THEN m ELSE t[k - 1]
    <3>1. t \in Seq(Registry!Numbers) /\ m \in Registry!Numbers
      BY <1>6, <1>9
    <3> QED
      BY <3>1, Inserted, SameInsertAt
  <2> QED
    BY <1>3, <1>10, <2>1, <2>2
<1>12. sorted' = [sorted EXCEPT ![s] = grown]
  BY <1>1, <1>2, <1>3, <1>5, <1>10 DEF Registry!Add, Registry!Stored
<1>13. capacity' = [capacity EXCEPT ![s] = Registry!Grown(s)]
  BY <1>1 DEF Registry!Add
<1>14. sorted' \in [Shards -> Seq(Registry!Numbers)] /\ sorted'[s] = grown
       /\ \A r \in Shards : r # s => sorted'[r] = sorted[r]
  BY <1>7, <1>11, <1>12
<1>15. capacity' \in [Shards -> Nat] /\ \A r \in Shards : Len(sorted'[r]) <= capacity'[r]
  <2>1. Registry!Grown(s) \in Nat /\ m + 1 <= Registry!Grown(s)
    BY <1>2, <1>3, <1>6, <1>7 DEF Registry!Grown
  <2> QED
    BY <1>7, <1>11, <1>13, <1>14, <2>1
<1>16. /\ userIds' \in Seq(Users) /\ Len(userIds') = n + 1 /\ userIds'[n + 1] = u
       /\ \A i \in 1 .. n : userIds'[i] = userIds[i]
  BY <1>4, <1>6, Ended
<1>17. answered' = [answered EXCEPT ![u] = answered[u] \cup {n}]
  BY <1>4 DEF Registry!Answer
<1>18. answered' \in [Users -> SUBSET Registry!Numbers]
  BY <1>7, <1>9, <1>17
<1>19. Registry!TypeOK'
  <2>1. Len(userIds') <= MaxUsers
    BY <1>6, <1>16
  <2> QED
    BY <1>14, <1>15, <1>16, <1>18, <2>1 DEF Registry!TypeOK, Registry!Numbers
<1>20. ASSUME NEW v \in Users, NEW number \in answered'[v]
       PROVE  number < Len(userIds') /\ userIds'[number + 1] = v
  <2>1. CASE number \in answered[v]
    <3>1. number \in Registry!Numbers /\ number < n /\ userIds[number + 1] = v
      BY <1>4, <1>7, <2>1 DEF RegistryInv, Registry!AnswersAreOwn, Registry!UserAt
    <3>2. number + 1 \in 1 .. n
      BY <1>6, <3>1 DEF Registry!Numbers
    <3> QED
      BY <1>6, <1>16, <3>1, <3>2 DEF Registry!Numbers
  <2>2. CASE v = u /\ number = n
    BY <1>6, <1>16, <2>2
  <2> QED
    BY <1>7, <1>17, <1>20, <2>1, <2>2
<1>21. DOMAIN grown = 1 .. m + 1
  BY <1>6, <1>11
<1>22. Registry!ToSet(grown) = 0 .. m
  <2>1. ASSUME NEW k \in 1 .. m + 1 PROVE grown[k] \in 0 .. m
    <3>1. CASE k < pos + 1
      <4>1. k \in 1 .. m
        BY <1>6, <1>8, <3>1
      <4> QED
        BY <1>6, <1>11, <3>1, <4>1
    <3>2. CASE k = pos + 1
      BY <1>6, <1>8, <1>11, <3>2
    <3>3. CASE k > pos + 1
      <4>1. k - 1 \in 1 .. m
        BY <1>6, <1>8, <3>3
      <4>2. grown[k] = t[k - 1]
        BY <1>8, <1>11, <3>3
      <4> QED
        BY <1>6, <4>1, <4>2
    <3> QED
      BY <1>8, <3>1, <3>2, <3>3
  <2>2. ASSUME NEW v \in 0 .. m PROVE \E k \in 1 .. m + 1 : grown[k] = v
    <3>1. CASE v = m
      <4>1. pos + 1 \in 1 .. m + 1 /\ grown[pos + 1] = m
        BY <1>6, <1>8, <1>9, <1>11
      <4> QED
        BY <3>1, <4>1
    <3>2. CASE v # m
      <4>1. PICK k \in 1 .. m : t[k] = v
        BY <1>6, <3>2
      <4>2. CASE k < pos + 1
        BY <1>6, <1>11, <4>1, <4>2
      <4>3. CASE k >= pos + 1
        <5>1. k + 1 \in 1 .. m + 1 /\ ~(k + 1 < pos + 1) /\ k + 1 # pos + 1 /\ (k + 1) - 1 = k
          BY <1>6, <1>8, <4>3
        <5>2. grown[k + 1] = t[k]
          BY <1>11, <5>1
        <5> QED
          BY <4>1, <5>1, <5>2
      <4> QED
        BY <1>8, <4>2, <4>3
    <3> QED
      BY <3>1, <3>2
  <2> QED
    BY <1>21, <2>1, <2>2 DEF Registry!ToSet
<1>23. Registry!ShardsArePermutations'
  <2>1. ASSUME NEW r \in Shards, r # s
        PROVE  Registry!ToSet(sorted'[r]) = 0 .. Len(sorted'[r]) - 1 /\ Len(sorted'[r]) <= Len(userIds')
    <3>1. Registry!ToSet(sorted[r]) = 0 .. Len(sorted[r]) - 1 /\ Len(sorted[r]) <= n /\ Len(sorted[r]) \in Nat
      BY <1>4, RegistryParts DEF RegistryInv, Registry!AnswersAreOwn, Registry!ShardsArePermutations
    <3> QED
      BY <1>6, <1>14, <1>16, <2>1, <3>1
  <2>2. Registry!ToSet(sorted'[s]) = 0 .. Len(sorted'[s]) - 1 /\ Len(sorted'[s]) <= Len(userIds')
    BY <1>6, <1>11, <1>14, <1>16, <1>22
  <2> QED
    BY <2>1, <2>2 DEF Registry!ShardsArePermutations
<1>24. PutBehindSmaller(grown, t, userIds', u)
  BY <1>3, <1>8, <1>11 DEF PutBehindSmaller
<1> QED
  BY <1>1, <1>2, <1>3, <1>11, <1>14, <1>19, <1>20, <1>23, <1>24

\* With one shard the numbers in it are those of the registry, so that a user id
\* that Find does not find is new, and is found from then on.
LEMMA NewEntryIsExact ==
  ASSUME RegistryInv, NEW u \in Users, Len(userIds) < MaxUsers, Registry!Find(u) = {},
         userIds' = Append(userIds, u), Registry!Add(u, userIds'), Registry!Answer(u, Len(userIds))
  PROVE  Registry!OneShardIsExact'
<1>1. SUFFICES ASSUME Registry!OneShard'
               PROVE  /\ Registry!IsInjective(userIds')
                      /\ \A i \in DOMAIN userIds' : Registry!Find(userIds[i])' = {i - 1}
                      /\ \A r \in Shards : \A i, k \in DOMAIN sorted'[r] :
                           i < k => userIds'[sorted'[r][i] + 1] < userIds'[sorted'[r][k] + 1]
  BY DEF Registry!OneShardIsExact, Registry!UserAt
<1>2. PICK s \in Shards : s = ShardOf[u]
  OBVIOUS
<1>3. PICK t : t = sorted[s]
  OBVIOUS
<1>4. PICK grown : grown = sorted'[s]
  OBVIOUS
<1>5. PICK m : m = Len(t)
  OBVIOUS
<1>6. PICK n : n = Len(userIds)
  OBVIOUS
<1>7. /\ userIds \in Seq(Users) /\ n \in Nat /\ m \in Nat /\ m <= n
      /\ DOMAIN userIds = 1 .. n /\ DOMAIN t = 1 .. m
      /\ \A k \in 1 .. m : t[k] \in 0 .. m - 1
      /\ \A v \in 0 .. m - 1 : \E k \in 1 .. m : t[k] = v
  BY <1>3, <1>5, <1>6, RegistryParts
<1>8. /\ userIds' \in Seq(Users) /\ Len(userIds') = n + 1 /\ userIds'[n + 1] = u
      /\ \A i \in 1 .. n : userIds'[i] = userIds[i]
  BY <1>6, <1>7, Ended
<1>9. /\ DOMAIN userIds' = 1 .. n + 1
      /\ \A i \in 1 .. n : i \in 1 .. n + 1 /\ userIds[i] \in Users
      /\ n + 1 \in 1 .. n + 1
  BY <1>7, <1>8
<1>10. \A i \in 1 .. n : ShardOf[userIds[i]] = s
  <2>1. \A i, k \in 1 .. n + 1 : ShardOf[userIds'[i]] = ShardOf[userIds'[k]]
    BY <1>1, <1>9 DEF Registry!OneShard, Registry!ToSet
  <2> QED
    BY <1>2, <1>8, <1>9, <2>1
<1>11. Registry!OneShard
  BY <1>7, <1>10 DEF Registry!OneShard, Registry!ToSet
<1>12. /\ \A i, k \in 1 .. n : userIds[i] = userIds[k] => i = k
       /\ \A i \in 1 .. n : Registry!Find(userIds[i]) = {i - 1}
       /\ \A r \in Shards : \A i, k \in DOMAIN sorted[r] :
            i < k => userIds[sorted[r][i] + 1] < userIds[sorted[r][k] + 1]
  BY <1>7, <1>11 DEF RegistryInv, Registry!AnswersAreOwn, Registry!OneShardIsExact, Registry!IsInjective, Registry!UserAt
<1>13. m = n
  <2>1. ASSUME n > 0 PROVE n <= m
    <3>1. n \in 1 .. n
      BY <1>7, <2>1
    <3>2. Registry!Find(userIds[n]) = {n - 1}
      BY <1>12, <3>1
    <3>3. n - 1 \in 0 .. Len(sorted[ShardOf[userIds[n]]]) - 1
      BY <1>9, <3>1, <3>2, FindIsRight
    <3>4. n - 1 \in 0 .. m - 1
      BY <1>3, <1>5, <1>10, <3>1, <3>3
    <3> QED
      BY <1>7, <3>4
  <2> QED
    BY <1>7, <2>1
<1>14. \A i \in 1 .. n : userIds[i] # u
  <2>1. \A k \in 1 .. m : userIds[t[k] + 1] # u
    BY <1>2, <1>3, <1>5, FindIsRight
  <2>2. ASSUME NEW i \in 1 .. n PROVE userIds[i] # u
    <3>1. i - 1 \in 0 .. m - 1 /\ (i - 1) + 1 = i
      BY <1>7, <1>13
    <3>2. PICK k \in 1 .. m : t[k] = i - 1
      BY <1>7, <3>1
    <3> QED
      BY <2>1, <3>1, <3>2
  <2> QED
    BY <2>2
<1>15. \A i, k \in 1 .. n + 1 : userIds'[i] = userIds'[k] => i = k
  <2>1. \A i \in 1 .. n + 1 : i \in 1 .. n \/ i = n + 1
    BY <1>7
  <2> QED
    BY <1>8, <1>12, <1>14, <2>1
<1>16. /\ Len(grown) = m + 1 /\ grown \in Seq(Registry!Numbers) /\ Registry!ToSet(grown) = 0 .. Len(grown) - 1
       /\ \A r \in Shards : r # s => sorted'[r] = sorted[r]
       /\ PutBehindSmaller(grown, t, userIds', u)
  <2>1. Registry!TypeOK' /\ Registry!ShardsArePermutations'
    BY NewEntry
  <2>2. sorted'[s] \in Seq(Registry!Numbers) /\ Registry!ToSet(sorted'[s]) = 0 .. Len(sorted'[s]) - 1
    BY <2>1 DEF Registry!TypeOK, Registry!ShardsArePermutations
  <2> QED
    BY <1>2, <1>3, <1>4, <1>5, <2>2, NewEntry
<1>17. DOMAIN grown = 1 .. m + 1
  BY <1>7, <1>16
<1>18. ASSUME NEW i \in 1 .. n + 1 PROVE Registry!Find(userIds[i])' = {i - 1}
  <2>1. userIds'[i] \in Users /\ ShardOf[userIds'[i]] = s
    BY <1>2, <1>7, <1>8, <1>9, <1>10
  <2>2. Registry!Find(userIds[i])' = FirstHit(userIds', grown, userIds'[i])
    BY <1>4, <2>1, Zenon DEF Registry!Find, FirstHit
  <2>3. {grown[k] : k \in 1 .. m + 1} = 0 .. m
    <3>1. {grown[k] : k \in 1 .. m + 1} = 0 .. Len(grown) - 1
      BY <1>16, <1>17 DEF Registry!ToSet
    <3>2. Len(grown) - 1 = m
      BY <1>7, <1>16
    <3> QED
      BY <3>1, <3>2
  <2>4. i - 1 \in 0 .. m /\ (i - 1) + 1 = i
    BY <1>7, <1>13
  <2>5. \E k \in 1 .. m + 1 : userIds'[grown[k] + 1] = userIds'[i]
    BY <2>3, <2>4
  <2>6. PICK ids, v : ids = userIds' /\ v = userIds'[i]
    OBVIOUS
  <2>7. /\ \A number \in FirstHit(ids, grown, v) :
             /\ FirstHit(ids, grown, v) = {number} /\ ids[number + 1] = v
             /\ \E k \in DOMAIN grown : number = grown[k]
        /\ (\A k \in DOMAIN grown : ids[grown[k] + 1] # v) <=> FirstHit(ids, grown, v) = {}
    <3>1. DOMAIN grown \subseteq Nat
      BY <1>17
    <3> QED
      BY <3>1, FirstHitIsRight, Zenon
  <2>8. ~ \A k \in DOMAIN grown : ids[grown[k] + 1] # v
    BY <1>17, <2>5, <2>6
  <2>9. PICK number \in FirstHit(ids, grown, v) : TRUE
    BY <2>7, <2>8
  <2>10. /\ FirstHit(ids, grown, v) = {number} /\ userIds'[number + 1] = userIds'[i]
         /\ \E k \in DOMAIN grown : number = grown[k]
    BY <2>6, <2>7, <2>9
  <2>11. number \in 0 .. m
    BY <1>17, <2>3, <2>10
  <2>12. number + 1 \in 1 .. n + 1
    BY <1>7, <1>13, <2>11
  <2>13. number + 1 = i
    BY <1>15, <2>10, <2>12
  <2>14. number = i - 1
    BY <1>7, <2>11, <2>13
  <2> QED
    BY <2>2, <2>6, <2>10, <2>14
<1>19. ASSUME NEW r \in Shards, NEW i \in DOMAIN sorted'[r], NEW k \in DOMAIN sorted'[r], i < k
       PROVE  userIds'[sorted'[r][i] + 1] < userIds'[sorted'[r][k] + 1]
  <2>1. CASE r # s
    <3>1. sorted'[r] = sorted[r]
      BY <1>16, <2>1
    <3>2. \A j \in DOMAIN sorted[r] : sorted[r][j] + 1 \in 1 .. n
      BY <1>6, RegistryParts
    <3>3. userIds[sorted[r][i] + 1] < userIds[sorted[r][k] + 1]
      BY <1>12, <1>19, <3>1
    <3> QED
      BY <1>8, <1>19, <3>1, <3>2, <3>3
  <2>2. CASE r = s
    <3>1. PICK pos \in 0 .. m :
            /\ \A j \in 1 .. pos : ~(userIds'[t[j] + 1] >= u)
            /\ pos < m => userIds'[t[pos + 1] + 1] >= u
            /\ \A j \in 1 .. m + 1 :
                 grown[j] = IF j < pos + 1 THEN t[j] ELSE IF j = pos + 1 THEN m ELSE t[j - 1]
      BY <1>5, <1>16 DEF PutBehindSmaller
    <3>2. PICK before : before = [j \in 1 .. m |-> userIds[t[j] + 1]]
      OBVIOUS
    <3>3. PICK after : after = [j \in 1 .. m + 1 |-> userIds'[grown[j] + 1]]
      OBVIOUS
    <3>4. \A j \in 1 .. m : /\ t[j] + 1 \in 1 .. n
                            /\ userIds'[t[j] + 1] = userIds[t[j] + 1]
                            /\ userIds[t[j] + 1] \in Int /\ userIds[t[j] + 1] # u
      <4>1. \A v \in 0 .. m - 1 : v + 1 \in 1 .. n
        BY <1>7, <1>13
      <4>2. \A j \in 1 .. m : t[j] + 1 \in 1 .. n
        BY <1>7, <4>1
      <4> QED
        BY <1>8, <1>9, <1>14, <4>2
    <3>5. before \in [1 .. m -> Int]
      BY <3>2, <3>4
    <3>6. /\ \A j, l \in 1 .. m : j < l => before[j] < before[l]
          /\ \A j \in 1 .. m : before[j] # u
      BY <1>3, <1>7, <1>12, <3>2, <3>4
    <3>7. /\ \A j \in 1 .. pos : j \in 1 .. m /\ ~(before[j] >= u)
          /\ pos < m => before[pos + 1] >= u
      <4>1. /\ \A j \in 1 .. pos : j \in 1 .. m
            /\ pos < m => pos + 1 \in 1 .. m
        BY <1>7
      <4> QED
        BY <3>1, <3>2, <3>4, <4>1
    <3>8. ASSUME NEW j \in 1 .. m + 1
          PROVE  after[j] = IF j < pos + 1 THEN before[j] ELSE IF j = pos + 1 THEN u
                            ELSE before[j - 1]
      <4>1. CASE j < pos + 1
        <5>1. j \in 1 .. m
          BY <1>7, <4>1
        <5> QED
          BY <3>1, <3>2, <3>3, <3>4, <4>1, <5>1
      <4>2. CASE j = pos + 1
        <5>1. grown[j] = m /\ ~(j < pos + 1)
          BY <1>7, <3>1, <4>2
        <5> QED
          BY <1>8, <1>13, <3>3, <4>2, <5>1
      <4>3. CASE j > pos + 1
        <5>1. j - 1 \in 1 .. m /\ ~(j < pos + 1) /\ j # pos + 1
          BY <1>7, <4>3
        <5>2. grown[j] = t[j - 1]
          BY <3>1, <5>1
        <5> QED
          BY <3>2, <3>3, <3>4, <5>1, <5>2
      <4> QED
        BY <1>7, <4>1, <4>2, <4>3
    <3>9. u \in Int
      OBVIOUS
    <3>10. \A j, l \in 1 .. m + 1 : j < l => after[j] < after[l]
      BY <1>7, <3>5, <3>6, <3>7, <3>8, <3>9, StaysSorted
    <3> QED
      BY <1>4, <1>17, <1>19, <2>2, <3>3, <3>10
  <2> QED
    BY <2>1, <2>2
<1> QED
  BY <1>9, <1>15, <1>18, <1>19 DEF Registry!IsInjective

LEMMA RegistryStep ==
  ASSUME RegistryInv, Registry!Next \/ UNCHANGED Registry!registryVars
  PROVE  RegistryInv'
<1>1. ASSUME UNCHANGED Registry!registryVars PROVE RegistryInv'
  <2>1. UNCHANGED <<userIds, sorted, capacity, answered>>
    BY <1>1 DEF Registry!registryVars
  <2>2. \A v : Registry!Find(v)' = Registry!Find(v)
    BY <2>1 DEF Registry!Find, Registry!UserAt
  <2> QED
    BY <2>1, <2>2 DEF RegistryInv, Registry!TypeOK, Registry!AnswersAreOwn, Registry!ShardsArePermutations, Registry!OneShardIsExact,
                      Registry!OneShard, Registry!UserAt
<1>2. ASSUME NEW u \in Users, Registry!Register(u) PROVE RegistryInv'
  <2>1. CASE \E number \in Registry!Find(u) : Registry!Answer(u, number) /\ UNCHANGED <<userIds, sorted, capacity>>
    BY <2>1, FoundAgain
  <2>2. CASE /\ Registry!Find(u) = {} /\ Len(userIds) < MaxUsers /\ userIds' = Append(userIds, u)
             /\ Registry!Add(u, userIds') /\ Registry!Answer(u, Len(userIds))
    <3>1. Registry!OneShardIsExact'
      BY <2>2, NewEntryIsExact
    <3>2. /\ Registry!TypeOK' /\ Registry!ShardsArePermutations'
          /\ \A v \in Users : \A number \in answered'[v] :
               number < Len(userIds') /\ userIds'[number + 1] = v
      BY <2>2, NewEntry
    <3> QED
      BY <3>1, <3>2 DEF RegistryInv, Registry!AnswersAreOwn, Registry!UserAt
  <2> QED
    BY <1>2, <2>1, <2>2 DEF Registry!Register
<1> QED
  BY <1>1, <1>2 DEF Registry!Next

LEMMA RegistryBegins ==
  ASSUME Registry!Init PROVE RegistryInv
<1>1. /\ userIds = <<>> /\ DOMAIN userIds = {} /\ Len(userIds) = 0 /\ userIds \in Seq(Users)
      /\ sorted = [s \in Shards |-> <<>>] /\ capacity = [s \in Shards |-> 0]
      /\ answered = [u \in Users |-> {}]
  BY DEF Registry!Init
<1>2. /\ sorted \in [Shards -> Seq(Registry!Numbers)]
      /\ \A s \in Shards : Len(sorted[s]) = 0 /\ DOMAIN sorted[s] = {} /\ Registry!ToSet(sorted[s]) = {}
  <2>1. <<>> \in Seq(Registry!Numbers) /\ Len(<<>>) = 0 /\ DOMAIN <<>> = {}
    OBVIOUS
  <2> QED
    BY <1>1, <2>1 DEF Registry!ToSet
<1>3. Registry!TypeOK
  BY <1>1, <1>2 DEF Registry!TypeOK
<1>4. Registry!ShardsArePermutations
  BY <1>1, <1>2 DEF Registry!ShardsArePermutations
<1>5. Registry!OneShardIsExact
  BY <1>1, <1>2 DEF Registry!OneShardIsExact, Registry!IsInjective
<1> QED
  BY <1>1, <1>3, <1>4, <1>5 DEF RegistryInv, Registry!AnswersAreOwn

LEMMA RegistryInvariant == PartsSpec => []RegistryInv
<1>1. PartsInit => RegistryInv
  BY RegistryBegins DEF PartsInit
<1>2. RegistryInv /\ [PartsNext]_partVars => RegistryInv'
  <2> SUFFICES ASSUME RegistryInv, [PartsNext]_partVars PROVE RegistryInv'
    OBVIOUS
  <2>1. Registry!Next \/ UNCHANGED Registry!registryVars
    BY DEF PartsNext, partVars, registryVars, Registry!registryVars
  <2> QED
    BY <2>1, RegistryStep
<1> QED
  BY <1>1, <1>2, PTL DEF PartsSpec

\* No answer is the number of another user id, and one shard is exact, for every
\* set of user ids and every choice of shards (stream_id_register, shard_t::add
\* and shard_t::find).
THEOREM RegistryAnswersOwn == PartsSpec => []AnswersAreOwn
<1>1. RegistryInv => AnswersAreOwn
  BY DEF RegistryInv, AnswersAreOwn
<1> QED
  BY <1>1, RegistryInvariant, PTL

HIDE RegistryAssumption

------------------------------------------------------------------------------
(* The pools of handles.                                                     *)

HandlesCounted == IsFiniteSet(held) /\ freeCount + Cardinality(held) = PoolSize

PoolInv == Pool!TypeOK /\ Pool!FreeOrHeld /\ HandlesCounted

LEMMA PoolInit == ASSUME Pool!SizeFits, Pool!Init PROVE PoolInv
<1>1. \A i \in Pool!Handles : Pool!Index(i) = i
  BY SMT DEF Pool!SizeFits, Pool!Handles, Pool!Index
<1>2. freeList = [i \in Pool!Handles |-> i]
  BY <1>1 DEF Pool!Init
<1>3. Pool!TypeOK
  BY <1>2 DEF Pool!Init, Pool!TypeOK, Pool!SizeFits, Pool!Handles
<1>4. Pool!FreeOrHeld
  BY <1>2 DEF Pool!Init, Pool!FreeOrHeld, Pool!FreeHandles, Pool!SizeFits, Pool!Handles
<1>5. HandlesCounted
  BY FS_EmptySet DEF Pool!Init, HandlesCounted, Pool!SizeFits
<1> QED
  BY <1>3, <1>4, <1>5 DEF PoolInv

LEMMA PoolAcquire == ASSUME Pool!SizeFits, PoolInv, Pool!Acquire PROVE PoolInv'
<1> DEFINE h == freeList[freeCount - 1]
<1>1. freeCount \in 1 .. PoolSize /\ freeCount - 1 \in Pool!Handles
  BY DEF PoolInv, Pool!TypeOK, Pool!Acquire, Pool!Handles, Pool!SizeFits
<1>2. h \in Pool!Handles /\ h \notin held
  BY <1>1 DEF PoolInv, Pool!TypeOK, Pool!FreeOrHeld, Pool!FreeHandles, Pool!SizeFits
<1>3. freeCount' = freeCount - 1 /\ held' = held \cup {h} /\ freeList' = freeList
  BY DEF Pool!Acquire
<1> HIDE DEF h
<1>4. Pool!TypeOK' /\ HandlesCounted'
  <2>1. Pool!TypeOK'
    BY <1>1, <1>2, <1>3 DEF PoolInv, Pool!TypeOK, Pool!SizeFits, Pool!Handles
  <2>2. IsFiniteSet(held') /\ Cardinality(held') = Cardinality(held) + 1
    BY <1>2, <1>3, FS_AddElement DEF PoolInv, HandlesCounted
  <2>3. Cardinality(held) \in Nat
    BY FS_CardinalityType DEF PoolInv, HandlesCounted
  <2> QED
    BY <1>1, <1>3, <2>1, <2>2, <2>3 DEF PoolInv, HandlesCounted, Pool!SizeFits
<1>5. Pool!FreeHandles' = Pool!FreeHandles \ {h}
  <2>1. (0 .. freeCount - 1)' = (0 .. freeCount - 1) \ {freeCount - 1}
    BY <1>1, <1>3 DEF Pool!SizeFits
  <2>2. \A i, k \in 0 .. freeCount - 1 : freeList[i] = freeList[k] => i = k
    BY DEF PoolInv, Pool!FreeOrHeld
  <2>3. freeCount - 1 \in 0 .. freeCount - 1 /\ h = freeList[freeCount - 1]
    BY <1>1 DEF h, Pool!SizeFits
  <2> QED
    BY <1>3, <2>1, <2>2, <2>3 DEF Pool!FreeHandles
<1>6. Pool!FreeOrHeld'
  <2>1. \A i, k \in (0 .. freeCount - 1)' : freeList'[i] = freeList'[k] => i = k
    BY <1>1, <1>3 DEF PoolInv, Pool!FreeOrHeld, Pool!SizeFits
  <2>2. h \in Pool!FreeHandles
    BY <1>1 DEF Pool!FreeHandles, h, Pool!SizeFits
  <2> QED
    BY <1>2, <1>3, <1>5, <2>1, <2>2 DEF PoolInv, Pool!FreeOrHeld, Pool!SizeFits, Pool!Handles
<1> QED
  BY <1>4, <1>6 DEF PoolInv

LEMMA PoolRelease ==
  ASSUME Pool!SizeFits, PoolInv, NEW h \in Pool!Handles, Pool!Release(h)
  PROVE  PoolInv'
<1>1. h \in held /\ Pool!Index(h) = h
  BY SMT DEF Pool!Release, Pool!Index, Pool!Handles, Pool!SizeFits
<1>2. IsFiniteSet(held \ {h}) /\ Cardinality(held \ {h}) = Cardinality(held) - 1
  BY <1>1, FS_RemoveElement DEF PoolInv, HandlesCounted
<1>3. freeCount \in Pool!Handles
  <2>1. Cardinality(held \ {h}) \in Nat /\ Cardinality(held) \in Nat
    BY <1>2, FS_CardinalityType DEF PoolInv, HandlesCounted
  <2> QED
    BY <1>2, <2>1 DEF PoolInv, Pool!TypeOK, HandlesCounted, Pool!Handles, Pool!SizeFits
<1>4. freeList' = [freeList EXCEPT ![freeCount] = h] /\ freeCount' = freeCount + 1
        /\ held' = held \ {h}
  BY <1>1 DEF Pool!Release, Pool!Push
<1>5. Pool!TypeOK'
  BY <1>3, <1>4 DEF PoolInv, Pool!TypeOK, Pool!Handles, Pool!SizeFits
<1>6. HandlesCounted'
  BY <1>2, <1>3, <1>4, FS_CardinalityType DEF PoolInv, HandlesCounted, Pool!Handles, Pool!SizeFits
<1>7. Pool!FreeOrHeld'
  <2>1. freeList'[freeCount] = h
    BY <1>3, <1>4 DEF PoolInv, Pool!TypeOK
  <2>2. \A i \in 0 .. freeCount - 1 : freeList'[i] = freeList[i] /\ freeList'[i] # h
    BY <1>1, <1>3, <1>4 DEF PoolInv, Pool!TypeOK, Pool!FreeOrHeld, Pool!FreeHandles, Pool!Handles, Pool!SizeFits
  <2>3. (0 .. freeCount - 1)' = (0 .. freeCount - 1) \cup {freeCount}
    BY <1>3, <1>4 DEF Pool!Handles, Pool!SizeFits
  <2>4. \A i, k \in (0 .. freeCount - 1)' : freeList'[i] = freeList'[k] => i = k
    BY <2>1, <2>2, <2>3 DEF PoolInv, Pool!FreeOrHeld
  <2>5. Pool!FreeHandles' = Pool!FreeHandles \cup {h}
    BY <2>1, <2>2, <2>3 DEF Pool!FreeHandles
  <2> QED
    BY <1>1, <1>4, <2>4, <2>5 DEF PoolInv, Pool!FreeOrHeld, Pool!SizeFits, Pool!Handles
<1> QED
  BY <1>5, <1>6, <1>7 DEF PoolInv

LEMMA PoolStep == ASSUME Pool!SizeFits, PoolInv, Pool!Next \/ UNCHANGED Pool!poolVars PROVE PoolInv'
<1>1. CASE Pool!Acquire
  BY <1>1, PoolAcquire
<1>2. CASE \E h \in Pool!Handles : Pool!Release(h)
  BY <1>2, PoolRelease
<1>3. CASE UNCHANGED Pool!poolVars
  BY <1>3 DEF Pool!poolVars, PoolInv, Pool!TypeOK, Pool!FreeOrHeld, Pool!FreeHandles, HandlesCounted
<1> QED
  BY <1>1, <1>2, <1>3 DEF Pool!Next

\* In a pool whose indices fit into 16 bits no handle is given to two callers and
\* none is lost, whatever the order of the releases (uv_tcp_pool.cpp,
\* uv_tcp_write_pool.cpp, uv_udp_send_pool.cpp).
THEOREM HandlesAreFreeOrHeld == PartsSpec => []FreeOrHeld
<1>1. Pool!SizeFits /\ PartsInit => PoolInv
  BY PoolInit DEF PartsInit
<1>2. Pool!SizeFits /\ PoolInv /\ [PartsNext]_partVars => PoolInv'
  <2> SUFFICES ASSUME Pool!SizeFits, PoolInv, [PartsNext]_partVars PROVE PoolInv'
    OBVIOUS
  <2>1. Pool!Next \/ UNCHANGED Pool!poolVars
    BY DEF PartsNext, partVars, poolVars, Pool!poolVars
  <2> QED
    BY <2>1, PoolStep
<1>3. PoolInv => FreeOrHeld
  BY DEF PoolInv, FreeOrHeld
<1>4. CASE Pool!SizeFits
  BY <1>1, <1>2, <1>3, <1>4, PTL DEF PartsSpec
<1>5. CASE ~Pool!SizeFits
  <2>1. FreeOrHeld
    BY <1>5 DEF FreeOrHeld, Pool!FreeOrHeld
  <2> QED
    BY <2>1, PTL
<1> QED
  BY <1>4, <1>5

\* Even where the indices do not fit: a release never comes without an acquire.
PoolTypes ==
  /\ Pool!TypeOK /\ IsFiniteSet(held)
  /\ Cardinality(held) \in Nat /\ freeCount + Cardinality(held) <= PoolSize

\* An index that does not fit is another handle of the pool.
LEMMA IndexIsHandle ==
  ASSUME NEW i \in Pool!Handles
  PROVE  Pool!Index(i) \in Pool!Handles
<1>1. i \in Nat /\ i < PoolSize /\ PoolSize \in Nat /\ IndexRange \in Nat \ {0}
  BY PoolAssumption DEF Pool!Handles
<1>2. ASSUME NEW x \in Nat, NEW r \in Nat \ {0}
      PROVE  x % r \in Nat /\ x % r <= x
  <2>1. CASE x < r
    BY <2>1
  <2>2. CASE x >= r
    BY <2>2
  <2> QED
    BY <2>1, <2>2
<1>3. i % IndexRange \in Nat /\ i % IndexRange <= i
  BY <1>1, <1>2
<1> QED
  BY <1>1, <1>3 DEF Pool!Index, Pool!Handles

LEMMA PoolTypesBegin == ASSUME Pool!Init PROVE PoolTypes
<1>1. \A i \in Pool!Handles : Pool!Index(i) \in Pool!Handles
  BY IndexIsHandle
<1>2. held = {} /\ freeCount = PoolSize /\ IsFiniteSet({}) /\ Cardinality({}) = 0
  BY FS_EmptySet DEF Pool!Init
<1>3. freeList \in [Pool!Handles -> Pool!Handles]
  BY <1>1 DEF Pool!Init
<1>4. freeCount \in 0 .. PoolSize /\ freeCount + Cardinality(held) <= PoolSize
  BY <1>2, PoolAssumption
<1> QED
  BY <1>2, <1>3, <1>4 DEF PoolTypes, Pool!TypeOK

LEMMA PoolTypesStep ==
  ASSUME PoolTypes, Pool!Next \/ UNCHANGED Pool!poolVars
  PROVE  PoolTypes'
<1>1. CASE Pool!Acquire
  <2> DEFINE h == freeList[freeCount - 1]
  <2>1. /\ freeCount \in 1 .. PoolSize /\ freeCount - 1 \in Pool!Handles
        /\ freeCount' = freeCount - 1 /\ held' = held \cup {h} /\ freeList' = freeList
    BY <1>1, PoolAssumption DEF Pool!Acquire, PoolTypes, Pool!TypeOK, Pool!Handles
  <2>2. h \in Pool!Handles
    BY <2>1 DEF PoolTypes, Pool!TypeOK
  <2> HIDE DEF h
  <2>3. IsFiniteSet(held') /\ Cardinality(held') \in {Cardinality(held), Cardinality(held) + 1}
    BY <2>1, FS_AddElement DEF PoolTypes
  <2>4. freeCount' + Cardinality(held') <= PoolSize /\ Cardinality(held') \in Nat
    BY <2>1, <2>3, PoolAssumption DEF PoolTypes
  <2>5. freeCount' \in 0 .. PoolSize
    BY <2>1, PoolAssumption
  <2> QED
    BY <2>1, <2>2, <2>3, <2>4, <2>5 DEF PoolTypes, Pool!TypeOK
<1>2. ASSUME NEW h \in Pool!Handles, Pool!Release(h) PROVE PoolTypes'
  <2>1. /\ h \in held /\ freeList' = [freeList EXCEPT ![freeCount] = Pool!Index(h)]
        /\ freeCount' = freeCount + 1 /\ held' = held \ {h}
    BY <1>2 DEF Pool!Release, Pool!Push
  <2>2. IsFiniteSet(held') /\ Cardinality(held') = Cardinality(held) - 1 /\ Cardinality(held') \in Nat
    BY <2>1, FS_RemoveElement, FS_CardinalityType DEF PoolTypes
  <2>3. freeCount \in Nat /\ freeCount' + Cardinality(held') <= PoolSize /\ freeCount' \in 0 .. PoolSize
    BY <2>1, <2>2, PoolAssumption DEF PoolTypes, Pool!TypeOK
  <2>4. Pool!Index(h) \in Pool!Handles
    BY IndexIsHandle
  <2> QED
    BY <2>1, <2>2, <2>3, <2>4 DEF PoolTypes, Pool!TypeOK
<1>3. CASE UNCHANGED Pool!poolVars
  BY <1>3 DEF Pool!poolVars, PoolTypes, Pool!TypeOK
<1> QED
  BY <1>1, <1>2, <1>3 DEF Pool!Next

------------------------------------------------------------------------------
(* The search for a user type.                                               *)

\* The tables are as long as the enumeration, and name every type once.
LEMMA TypesDistinct ==
  /\ DOMAIN Names!Types = 1 .. 51
  /\ \A i, k \in 1 .. 51 : Names!Types[i] = Names!Types[k] => i = k
<1>1. DOMAIN Names!Types = 1 .. 51
  BY DEF Names!Types
<1>2. \A i, k \in 1 .. 51 : Names!Types[i] = Names!Types[k] => i = k
  BY SMTT(60) DEF Names!Types
<1> QED
  BY <1>1, <1>2

\* The index of a type is its own only for the last one, and outside for kWAh.
LEMMA IndicesFacts ==
  /\ DOMAIN Names!Indices = 1 .. 51
  /\ \A i \in 1 .. 51 : Names!Indices[i] \in 0 .. 51
  /\ \A i \in 1 .. 51 : Names!Indices[i] = i - 1 <=> i = 51
  /\ \A i \in 1 .. 51 : Names!Indices[i] >= 51 <=> i = 8
<1>1. DOMAIN Names!Indices = 1 .. 51
  BY DEF Names!Indices
<1>2. \A i \in 1 .. 51 : Names!Indices[i] \in 0 .. 51
  BY SMTT(60) DEF Names!Indices
<1>3. \A i \in 1 .. 51 : Names!Indices[i] = i - 1 <=> i = 51
  BY SMTT(60) DEF Names!Indices
<1>4. \A i \in 1 .. 51 : Names!Indices[i] >= 51 <=> i = 8
  BY SMTT(60) DEF Names!Indices
<1> QED
  BY <1>1, <1>2, <1>3, <1>4

LEMMA NamedTypes ==
  /\ Names!Types[46] = "UNKNOWN" /\ Names!Types[51] = "WATER_M3" /\ Names!Types[8] = "kWAh"
  /\ Names!Indices[46] = 0
  /\ \A i \in 1 .. 51 : Names!Types[i] \notin {"searching", "astray"}
  /\ Names!ToSet(Names!Types) = {Names!Types[i] : i \in 1 .. 51}
  /\ Names!ToSet(Names!Indices) = {Names!Indices[i] : i \in 1 .. 51}
<1>1. Names!Types[46] = "UNKNOWN" /\ Names!Types[51] = "WATER_M3" /\ Names!Types[8] = "kWAh"
  BY DEF Names!Types
<1>2. Names!Indices[46] = 0
  BY DEF Names!Indices
<1>3. \A i \in 1 .. 51 : Names!Types[i] \notin {"searching", "astray"}
  BY SMTT(60) DEF Names!Types
<1>4. Names!ToSet(Names!Types) = {Names!Types[i] : i \in 1 .. 51}
  BY TypesDistinct DEF Names!ToSet
<1>5. Names!ToSet(Names!Indices) = {Names!Indices[i] : i \in 1 .. 51}
  BY IndicesFacts DEF Names!ToSet
<1> QED
  BY <1>1, <1>2, <1>3, <1>4, <1>5

LEMMA NameOfType ==
  ASSUME NEW i \in 1 .. 51
  PROVE  Names!NameIndex(Names!Types[i]) = Names!Indices[i]
<1> DEFINE k == CHOOSE j \in DOMAIN Names!Types : Names!Types[j] = Names!Types[i]
<1>1. k \in DOMAIN Names!Types /\ Names!Types[k] = Names!Types[i]
  BY TypesDistinct
<1>2. k = i
  BY <1>1, TypesDistinct
<1> QED
  BY <1>2 DEF Names!NameIndex

------------------------------------------------------------------------------

\* A key that is searched for and no turn outside the table: its place is left.
KeyIsLeft ==
  result = "searching" /\ ~outside =>
    \A i \in 0 .. 50 : query = Names!Key(i) => left <= i /\ i <= right

\* The search for "co", the only key that begins another, never looks at "co2".
CoIsFoundFirst ==
  query = Names!Key(1) => left = 0 /\ right \in {74, 36, 17, 7, 2}

\* The first turn decides whether the search can come behind the table.
FirstTurnDecides ==
  ~(query.at > 74 \/ 37 \in query.begins) => ~outside /\ (right <= 36 \/ (left = 0 /\ right = 74))

\* What was found is what the tables say, or nothing was found.
FoundOrUnknown ==
  result \notin {"searching", "astray"} =>
    \/ result = Names!Meaning
    \/ (result = "UNKNOWN" /\ outside)

AstrayIsOutside == result = "astray" => outside

NameIsOfResult ==
  name # Names!None => result \notin {"searching", "astray"} /\ name = Names!NameIndex(result)

SearchInv ==
  /\ Names!TypeOK /\ Names!SearchHalves
  /\ KeyIsLeft /\ CoIsFoundFirst /\ FirstTurnDecides /\ FoundOrUnknown /\ NameIsOfResult
  /\ AstrayIsOutside

\* Keys sort at even places, words at odd ones.
LEMMA QueryCases ==
  ASSUME query \in Names!Queries
  PROVE  \/ /\ query \notin Words
            /\ \E i \in 0 .. 50 : /\ query = Names!Key(i) /\ query.at = 2 * i
                                  /\ query.begins = IF i = 1 THEN {2} ELSE {}
                                  /\ Names!Meaning = Names!Types[i + 1]
         \/ /\ query \in Words /\ Names!Meaning = "UNKNOWN"
            /\ \E i \in 0 .. 51 : query.at = 2 * i - 1
<1>1. CASE query \in Words
  BY <1>1, WordsAssumption DEF Names!KeyCount, Names!Meaning
<1>2. CASE query \notin Words
  <2>1. PICK i \in 0 .. 50 : query = Names!Key(i)
    BY <1>2 DEF Names!Queries, Names!KeyCount
  <2>2. query.at = 2 * i /\ query.begins = IF i = 1 THEN {2} ELSE {}
    BY <2>1 DEF Names!Key
  <2>3. query.at \div 2 + 1 = i + 1
    BY <2>2
  <2> QED
    BY <1>2, <2>1, <2>2, <2>3 DEF Names!Meaning
<1> QED
  BY <1>1, <1>2

LEMMA SearchBegins == ASSUME Names!Init PROVE SearchInv
<1>1. Names!TypeOK
  <2>1. /\ query \in Names!Queries /\ left = 0 /\ right = 74 /\ result = "searching"
        /\ outside = FALSE /\ compared = 0 /\ name = Names!None
    BY DEF Names!Init, Names!IdCount
  <2>2. left \in 0 .. Names!IdCount /\ right \in -1 .. Names!IdCount - 1 /\ left <= right + 1
    BY <2>1 DEF Names!IdCount
  <2>3. outside \in BOOLEAN /\ compared \in Nat
    BY <2>1
  <2>4. result \in Names!ToSet(Names!Types) \cup {"searching", "astray"}
        /\ name \in Names!ToSet(Names!Indices) \cup {Names!None}
    BY <2>1
  <2> QED
    BY <2>1, <2>2, <2>3, <2>4, Zenon DEF Names!TypeOK
<1>2. Names!SearchHalves
  BY DEF Names!Init, Names!SearchHalves, Names!Halved, Names!IdCount
<1> QED
  BY <1>1, <1>2 DEF Names!Init, SearchInv, KeyIsLeft, CoIsFoundFirst, FirstTurnDecides, FoundOrUnknown,
     NameIsOfResult, AstrayIsOutside, Names!IdCount

\* A turn leaves less than half, on whichever side.
LEMMA TurnHalves ==
  ASSUME Names!TypeOK, Names!SearchHalves, result = "searching", left <= right,
         compared' = compared + 1,
         \/ Names!GoLeft \/ Names!GoRight \/ result' # "searching"
  PROVE  Names!SearchHalves'
<1>1. left \in Int /\ right \in Int /\ compared \in 0 .. 7 /\ right - left + 1 <= Names!Halved[compared + 1]
  BY DEF Names!TypeOK, Names!SearchHalves, Names!IdCount
<1>2. compared # 7 /\ Names!Halved[compared + 1] \div 2 <= Names!Halved[compared + 2]
      /\ Names!Halved[compared + 1] \in 0 .. 75 /\ Names!Halved[compared + 2] \in 0 .. 75
  BY <1>1, SMTT(30) DEF Names!Halved
<1>3. CASE result' # "searching"
  BY <1>1, <1>2, <1>3 DEF Names!SearchHalves
<1>4. CASE Names!GoLeft \/ Names!GoRight
  <2>1. left' \in Int /\ right' \in Int /\ right' - left' + 1 <= (right - left + 1) \div 2
    BY <1>1, <1>4 DEF Names!GoLeft, Names!GoRight, Names!Middle
  <2>2. right' - left' + 1 <= Names!Halved[compared + 2]
    <3>1. ASSUME NEW a \in Int, NEW b \in Int, a <= b PROVE a \div 2 <= b \div 2 /\ a \div 2 \in Int /\ b \div 2 \in Int
      BY <3>1
    <3>2. (right - left + 1) \div 2 <= Names!Halved[compared + 1] \div 2
      BY <1>1, <1>2, <3>1
    <3>3. (right - left + 1) \div 2 \in Int /\ Names!Halved[compared + 1] \div 2 \in Int
      BY <1>1, <1>2, <3>1
    <3> QED
      BY <1>2, <2>1, <3>2, <3>3
  <2>3. compared' + 1 = compared + 2 /\ compared' <= 7
    BY <1>1, <1>2
  <2> QED
    BY <2>2, <2>3 DEF Names!SearchHalves
<1> QED
  BY <1>3, <1>4

\* The middle is between the ends.
LEMMA MiddleBetween ==
  ASSUME Names!TypeOK, left <= right
  PROVE  /\ left \in 0 .. 75 /\ right \in 0 .. 74
         /\ Names!Middle \in Int /\ left <= Names!Middle /\ Names!Middle <= right
         /\ 2 * Names!Middle <= left + right /\ left + right <= 2 * Names!Middle + 1
  BY DEF Names!TypeOK, Names!IdCount, Names!Middle

LEMMA CompareKeeps == ASSUME SearchInv, Names!Compare PROVE SearchInv'
<1>1. /\ result = "searching" /\ left <= right /\ Names!Middle < 51
      /\ compared' = compared + 1 /\ UNCHANGED <<query, outside, name>>
      /\ Names!TypeOK
  BY DEF SearchInv, Names!Compare, Names!KeyCount
<1>2. /\ left \in 0 .. 75 /\ right \in 0 .. 74
      /\ Names!Middle \in Int /\ left <= Names!Middle /\ Names!Middle <= right
      /\ 2 * Names!Middle <= left + right /\ left + right <= 2 * Names!Middle + 1
  BY <1>1, MiddleBetween
<1>3. name = Names!None
  BY <1>1 DEF SearchInv, NameIsOfResult
<1>4. Names!Meaning' = Names!Meaning
  BY <1>1 DEF Names!Meaning
<1>5. query \in Names!Queries /\ compared \in Nat /\ outside \in BOOLEAN
  BY <1>1 DEF Names!TypeOK
<1>6. CASE Names!Matches /\ result' = Names!Types[Names!Middle + 1] /\ UNCHANGED <<left, right>>
  <2>1. query.at = 2 * Names!Middle /\ Names!Middle \in 0 .. 50
    BY <1>1, <1>2, <1>6 DEF Names!Matches
  <2>2. result' = Names!Meaning
    BY <1>5, <1>6, <2>1, QueryCases
  <2>3. result' \in Names!ToSet(Names!Types) /\ result' \notin {"searching", "astray"}
    BY <1>6, <2>1, NamedTypes
  <2>4. Names!SearchHalves'
    BY <1>1, <2>3, TurnHalves DEF SearchInv
  <2>5. Names!TypeOK'
    BY <1>1, <1>6, <2>3 DEF Names!TypeOK
  <2>6. KeyIsLeft' /\ CoIsFoundFirst' /\ FirstTurnDecides'
    BY <1>1, <1>6, <2>3 DEF SearchInv, KeyIsLeft, CoIsFoundFirst, FirstTurnDecides
  <2> QED
    BY <1>1, <1>3, <1>4, <2>2, <2>3, <2>4, <2>5, <2>6 DEF SearchInv, FoundOrUnknown, NameIsOfResult, AstrayIsOutside
<1>7. CASE ~Names!Matches /\ ((Names!SortsBefore /\ Names!GoLeft) \/ (~Names!SortsBefore /\ Names!GoRight))
           /\ UNCHANGED result
  <2>1. \/ left' = left /\ right' = Names!Middle - 1
        \/ left' = Names!Middle + 1 /\ right' = right
    BY <1>7 DEF Names!GoLeft, Names!GoRight
  <2>2. Names!SearchHalves'
    BY <1>1, <1>7, TurnHalves DEF SearchInv
  <2>3. Names!TypeOK'
    BY <1>1, <1>2, <1>7, <2>1 DEF Names!TypeOK, Names!IdCount
  <2>4. CoIsFoundFirst'
    <3> SUFFICES ASSUME query = Names!Key(1) PROVE left' = 0 /\ right' \in {74, 36, 17, 7, 2}
      BY <1>1 DEF CoIsFoundFirst
    <3>1. query.at = 2 /\ query.begins = {2} /\ left = 0 /\ right \in {74, 36, 17, 7, 2}
      BY DEF Names!Key, SearchInv, CoIsFoundFirst
    <3>2. Names!Middle = CASE right = 74 -> 37 [] right = 36 -> 18 [] right = 17 -> 8
                           [] right = 7 -> 3 [] OTHER -> 1
      BY <3>1, <1>2
    <3> QED
      BY <1>7, <3>1, <3>2 DEF Names!Matches, Names!SortsBefore, Names!GoLeft
  <2>5. KeyIsLeft'
    <3> SUFFICES ASSUME ~outside, NEW i \in 0 .. 50, query = Names!Key(i)
                 PROVE  left' <= i /\ i <= right'
      BY <1>1 DEF KeyIsLeft
    <3>1. query.at = 2 * i /\ left <= i /\ i <= right
      BY <1>1 DEF Names!Key, SearchInv, KeyIsLeft
    <3>2. CASE i = 1
      <4>1. CoIsFoundFirst'
        BY <2>4
      <4>2. left' = 0 /\ right' \in {74, 36, 17, 7, 2}
        BY <1>1, <3>2, <4>1 DEF CoIsFoundFirst
      <4> QED
        BY <3>2, <4>2
    <3>3. CASE i # 1
      <4>1. query.begins = {}
        BY <3>3 DEF Names!Key
      <4> QED
        BY <1>2, <1>7, <3>1, <4>1 DEF Names!Matches, Names!SortsBefore, Names!GoLeft, Names!GoRight
    <3> QED
      BY <3>2, <3>3
  <2>6. FirstTurnDecides'
    <3> SUFFICES ASSUME ~(query.at > 74 \/ 37 \in query.begins)
                 PROVE  ~outside /\ (right' <= 36 \/ (left' = 0 /\ right' = 74))
      BY <1>1 DEF FirstTurnDecides
    <3>1. ~outside /\ (right <= 36 \/ (left = 0 /\ right = 74))
      BY DEF SearchInv, FirstTurnDecides
    <3>2. CASE right <= 36
      BY <1>2, <2>1, <3>1, <3>2
    <3>3. CASE left = 0 /\ right = 74
      <4>1. Names!Middle = 37
        BY <3>3 DEF Names!Middle
      <4>2. query.at \in Int
        BY <1>5, QueryCases
      <4>3. Names!SortsBefore
        BY <1>7, <4>1, <4>2 DEF Names!Matches, Names!SortsBefore
      <4> QED
        BY <1>7, <3>1, <4>1, <4>3 DEF Names!GoLeft
    <3> QED
      BY <3>1, <3>2, <3>3
  <2> QED
    BY <1>1, <1>3, <1>7, <2>2, <2>3, <2>4, <2>5, <2>6 DEF SearchInv, FoundOrUnknown, NameIsOfResult, AstrayIsOutside
<1> QED
  BY <1>6, <1>7 DEF Names!Compare

LEMMA OutsideKeeps == ASSUME SearchInv, Names!CompareOutside PROVE SearchInv'
<1>1. /\ result = "searching" /\ left <= right /\ Names!Middle >= 51
      /\ compared' = compared + 1 /\ outside' = TRUE /\ UNCHANGED <<query, name>>
      /\ Names!TypeOK
  BY DEF SearchInv, Names!CompareOutside, Names!KeyCount
<1>2. /\ left \in 0 .. 75 /\ right \in 0 .. 74
      /\ Names!Middle \in Int /\ left <= Names!Middle /\ Names!Middle <= right
      /\ 2 * Names!Middle <= left + right /\ left + right <= 2 * Names!Middle + 1
  BY <1>1, MiddleBetween
<1>3. name = Names!None
  BY <1>1 DEF SearchInv, NameIsOfResult
<1>4. \/ (Names!GoLeft \/ Names!GoRight) /\ result' = result
      \/ result' = "astray" /\ UNCHANGED <<left, right>>
  BY DEF Names!CompareOutside
<1>5. \/ left' = left /\ right' = Names!Middle - 1
      \/ left' = Names!Middle + 1 /\ right' = right
      \/ left' = left /\ right' = right
  BY <1>4 DEF Names!GoLeft, Names!GoRight
<1>6. Names!TypeOK'
  BY <1>1, <1>2, <1>4, <1>5 DEF Names!TypeOK, Names!IdCount
<1>7. Names!SearchHalves'
  BY <1>1, <1>4, TurnHalves DEF SearchInv
<1>8. query.at > 74 \/ 37 \in query.begins
  BY <1>1, <1>2 DEF SearchInv, FirstTurnDecides
<1>9. query # Names!Key(1)
  BY <1>8 DEF Names!Key
<1> QED
  BY <1>1, <1>3, <1>4, <1>6, <1>7, <1>8, <1>9
  DEF SearchInv, KeyIsLeft, CoIsFoundFirst, FirstTurnDecides, FoundOrUnknown, NameIsOfResult, AstrayIsOutside

LEMMA SearchStep ==
  ASSUME SearchInv, Names!Next \/ UNCHANGED Names!typeVars
  PROVE  SearchInv'
<1>1. ASSUME Names!GiveUp PROVE SearchInv'
  <2>1. /\ result = "searching" /\ left > right /\ result' = "UNKNOWN"
        /\ UNCHANGED <<query, left, right, outside, compared, name>>
    BY <1>1 DEF Names!GiveUp
  <2>2. name = Names!None /\ Names!TypeOK /\ Names!SearchHalves /\ query \in Names!Queries
    BY <2>1 DEF SearchInv, NameIsOfResult, Names!TypeOK
  <2>3. Names!Meaning' = Names!Meaning
    BY <2>1 DEF Names!Meaning
  <2>4. "UNKNOWN" \in Names!ToSet(Names!Types)
    BY NamedTypes
  <2>5. Names!Meaning = "UNKNOWN" \/ outside
    <3>1. CASE query \in Words
      BY <2>2, <3>1, QueryCases
    <3>2. CASE query \notin Words /\ ~outside
      <4>1. PICK i \in 0 .. 50 : query = Names!Key(i)
        BY <2>2, <3>2, QueryCases
      <4>2. left <= i /\ i <= right
        BY <2>1, <3>2, <4>1 DEF SearchInv, KeyIsLeft
      <4> QED
        BY <2>1, <2>2, <4>2 DEF Names!TypeOK, Names!IdCount
    <3> QED
      BY <3>1, <3>2
  <2>6. Names!TypeOK'
    BY <2>1, <2>2, <2>4 DEF Names!TypeOK
  <2> QED
    BY <2>1, <2>2, <2>3, <2>5, <2>6
    DEF SearchInv, Names!SearchHalves, KeyIsLeft, CoIsFoundFirst, FirstTurnDecides, FoundOrUnknown, NameIsOfResult, AstrayIsOutside
<1>2. ASSUME Names!ToKeyString PROVE SearchInv'
  <2>1. /\ result \in Names!ToSet(Names!Types) /\ name' = Names!NameIndex(result)
        /\ UNCHANGED <<query, left, right, result, outside, compared>>
    BY <1>2 DEF Names!ToKeyString
  <2>2. PICK i \in 1 .. 51 : result = Names!Types[i]
    BY <2>1, NamedTypes
  <2>3. name' \in Names!ToSet(Names!Indices) /\ result \notin {"searching", "astray"}
    BY <2>1, <2>2, NameOfType, NamedTypes
  <2>4. Names!NameIndex(result)' = Names!NameIndex(result) /\ Names!Meaning' = Names!Meaning
    BY <2>1 DEF Names!Meaning
  <2>5. Names!TypeOK'
    BY <2>1, <2>3 DEF SearchInv, Names!TypeOK
  <2> QED
    BY <2>1, <2>3, <2>4, <2>5
    DEF SearchInv, Names!SearchHalves, KeyIsLeft, CoIsFoundFirst, FirstTurnDecides, FoundOrUnknown, NameIsOfResult, AstrayIsOutside
<1>3. ASSUME UNCHANGED Names!typeVars PROVE SearchInv'
  BY <1>3 DEF Names!typeVars, SearchInv, Names!TypeOK, Names!SearchHalves, KeyIsLeft, CoIsFoundFirst,
     FirstTurnDecides, FoundOrUnknown, NameIsOfResult, AstrayIsOutside, Names!Meaning
<1> QED
  BY <1>1, <1>2, <1>3, CompareKeeps, OutsideKeeps DEF Names!Next, Names!FromString

LEMMA SearchFinds == ASSUME SearchInv PROVE TypesAreFound
<1>1. Names!SearchHalves
  BY DEF SearchInv
<1>2. query \in Names!Queries
  BY DEF SearchInv, Names!TypeOK
<1>3. Names!OutsideOnlyBehindMiddle
  BY DEF SearchInv, FirstTurnDecides, Names!OutsideOnlyBehindMiddle
<1>4. Names!InsideIsRight /\ Names!WrongIsUnknown
  BY DEF SearchInv, FoundOrUnknown, AstrayIsOutside, Names!InsideIsRight, Names!WrongIsUnknown
<1>5. Names!NamesAreOthers
  <2> SUFFICES ASSUME name # Names!None
               PROVE  /\ query.at = 2 * name <=> result = "WATER_M3"
                      /\ name >= 51 <=> result = "kWAh"
    BY DEF Names!NamesAreOthers, Names!KeyCount
  <2>1. name = Names!NameIndex(result) /\ result \notin {"searching", "astray"}
    BY DEF SearchInv, NameIsOfResult
  <2>2. CASE result = "UNKNOWN" /\ (query \in Words \/ outside)
    <3>1. name = 0
      BY <2>1, <2>2, NameOfType, NamedTypes
    <3>2. query.at \in Int /\ query.at # 0
      <4>1. CASE query \in Words
        BY <1>2, <4>1, QueryCases
      <4>2. CASE outside /\ query \notin Words
        BY <1>2, <1>3, <4>2, QueryCases DEF Names!OutsideOnlyBehindMiddle
      <4> QED
        BY <2>2, <4>1, <4>2
    <3> QED
      BY <2>2, <3>1, <3>2
  <2>3. CASE query \notin Words /\ result = Names!Meaning
    <3>1. PICK i \in 0 .. 50 : query.at = 2 * i /\ Names!Meaning = Names!Types[i + 1]
      BY <1>2, <2>3, QueryCases
    <3>2. i + 1 \in 1 .. 51 /\ result = Names!Types[i + 1]
      BY <2>3, <3>1
    <3>3. name = Names!Indices[i + 1] /\ name \in 0 .. 51
      BY <2>1, <3>2, NameOfType, IndicesFacts
    <3>4. (name = i <=> i = 50) /\ (name >= 51 <=> i = 7)
      BY <3>2, <3>3, IndicesFacts
    <3>5. (result = "WATER_M3" <=> i = 50) /\ (result = "kWAh" <=> i = 7)
      BY <3>2, NamedTypes, TypesDistinct
    <3> QED
      BY <3>1, <3>3, <3>4, <3>5
  <2> QED
    BY <1>2, <2>1, <2>2, <2>3, QueryCases DEF SearchInv, FoundOrUnknown
<1> QED
  BY <1>1, <1>3, <1>4, <1>5 DEF TypesAreFound, Names!TypesAreFound

LEMMA SearchInvariant == PartsSpec => []SearchInv
<1>1. PartsInit => SearchInv
  BY SearchBegins DEF PartsInit
<1>2. SearchInv /\ [PartsNext]_partVars => SearchInv'
  <2> SUFFICES ASSUME SearchInv, [PartsNext]_partVars PROVE SearchInv'
    OBVIOUS
  <2>1. Names!Next \/ UNCHANGED Names!typeVars
    BY DEF PartsNext, partVars, nameVars, Names!typeVars
  <2> QED
    BY <2>1, SearchStep
<1> QED
  BY <1>1, <1>2, PTL DEF PartsSpec

\* The search for a user type halves its interval, and so ends after seven
\* turns; it leaves the table for certain words only, and finds the type of a
\* key or none.  The name that is printed for a type is, with one exception,
\* not the one it was found by (user_types.cpp, from_string, to_key_string).
THEOREM TypeOfEveryWord == PartsSpec => []TypesAreFound
  BY SearchInvariant, SearchFinds, PTL

------------------------------------------------------------------------------
(* The types of all parts.                                                   *)

\* The parts never leave the types of their variables, whatever the sizes: the
\* mappings stay within their capacity, the free count of a pool within its size
\* even where its indices do not fit, the scanner within reach of its packet and
\* its properties within max_properties.
THEOREM PartsKeepTheirTypes == PartsSpec => []PartsTypeOK
<1>1. PartsSpec => []TypeOK
  BY PartsRunTheRing, TypeCorrect
<1>2. PartsSpec => []RequestTypes
  <2>1. PartsInit => RequestTypes
    BY RequestTypesBegin DEF PartsInit
  <2>2. RequestTypes /\ [PartsNext]_partVars => RequestTypes'
    <3> SUFFICES ASSUME RequestTypes, [PartsNext]_partVars PROVE RequestTypes'
      OBVIOUS
    <3>1. Requests!Next \/ UNCHANGED Requests!requestVars
      BY DEF PartsNext, partVars, requestVars, Requests!requestVars, Requests!manager, Requests!jobs,
             Requests!threads, Requests!world
    <3> QED
      BY <3>1, RequestTypesStep
  <2> QED
    BY <2>1, <2>2, PTL DEF PartsSpec
<1>3. PartsSpec => []PoolTypes
  <2>1. PartsInit => PoolTypes
    BY PoolTypesBegin DEF PartsInit
  <2>2. PoolTypes /\ [PartsNext]_partVars => PoolTypes'
    <3> SUFFICES ASSUME PoolTypes, [PartsNext]_partVars PROVE PoolTypes'
      OBVIOUS
    <3>1. Pool!Next \/ UNCHANGED Pool!poolVars
      BY DEF PartsNext, partVars, poolVars, Pool!poolVars
    <3> QED
      BY <3>1, PoolTypesStep
  <2> QED
    BY <2>1, <2>2, PTL DEF PartsSpec
<1>4. TypeOK /\ RequestTypes /\ TableInv /\ RegistryInv /\ PoolTypes /\ SearchInv /\ DecoderTypes
        => PartsTypeOK
  BY DEF PartsTypeOK, RequestTypes, TableInv, RegistryInv, PoolTypes, SearchInv, DecoderTypes
<1> QED
  BY <1>1, <1>2, <1>3, <1>4, TableInvariant, RegistryInvariant, SearchInvariant, DecoderTypesInvariant, PTL

=============================================================================
