--------------------------- MODULE JobManagerProofs ---------------------------
(***************************************************************************)
(* Theorems about JobManager, for every set of workers, clients and jobs   *)
(* and every capacity.                                                     *)
(***************************************************************************)
EXTENDS JobManager, FiniteSetTheorems, TLAPS

USE ConstantsAssumption

\* Taking the front of a sequence off leaves the others in their order.
LEMMA TailFacts ==
  ASSUME NEW S, NEW s \in Seq(S), s # <<>>
  PROVE  /\ Head(s) \in S
         /\ Tail(s) \in Seq(S)
         /\ Len(Tail(s)) = Len(s) - 1
         /\ Len(s) \in Nat \ {0}
         /\ Head(s) = s[1]
         /\ \A i \in DOMAIN Tail(s) : i + 1 \in DOMAIN s /\ Tail(s)[i] = s[i + 1]
  OBVIOUS

LEMMA AppendFacts ==
  ASSUME NEW S, NEW s \in Seq(S), NEW e \in S
  PROVE  /\ Append(s, e) \in Seq(S)
         /\ Len(Append(s, e)) = Len(s) + 1
         /\ DOMAIN Append(s, e) = DOMAIN s \cup {Len(s) + 1}
         /\ Append(s, e)[Len(s) + 1] = e
         /\ \A i \in DOMAIN s : Append(s, e)[i] = s[i]
         /\ Len(s) \in Nat /\ Len(s) + 1 \notin DOMAIN s
  OBVIOUS

------------------------------------------------------------------------------
(* Type correctness.                                                       *)

LEMMA InitType == Init => TypeOK
  <1> SUFFICES ASSUME Init
               PROVE  TypeOK
    OBVIOUS
  <1>1. pending \in Seq(Entries) /\ Len(pending) <= PendingCapacity
    BY DEF Init
  <1>2. /\ completed \in [Channels -> Seq(Jobs)]
        /\ \A c \in Channels : Len(completed[c]) <= CompletedCapacity[c]
    BY DEF Init
  <1>3. /\ wpc \in [Workers -> {"loop", "run", "push", "exit"}]
        /\ carrying \in [Workers -> Entries \cup {NoEntry}]
        /\ \A w \in Workers : carrying[w] = NoEntry /\ wpc[w] = "loop"
    BY DEF Init
  <1>4. /\ roomCompleted \in [Channels -> SUBSET Workers]
        /\ hasCompleted \in [Channels -> SUBSET Clients]
        /\ \A c \in Channels : roomCompleted[c] = {} /\ hasCompleted[c] = {}
        /\ waiting \in [Clients -> Channels \cup {NoChannel}]
    BY DEF Init
  <1>5. nChannels \in 0 .. MaxChannels
    BY DEF Init
  <1>6. /\ stopping \in BOOLEAN /\ drainMode \in BOOLEAN /\ freed \in BOOLEAN
        /\ owner \in {"free", "stopping", "destroying"}
        /\ accepted = {} /\ taken = {} /\ dropped = {} /\ discarded = {}
        /\ hasJobs = {}
    BY Zenon DEF Init
  <1> QED
    BY <1>1, <1>2, <1>3, <1>4, <1>5, <1>6 DEF TypeOK

LEMMA InitChannelType == TypeOK /\ InitChannel => TypeOK'
  BY DEF TypeOK, InitChannel, rings, threads, conds, calls, history

LEMMA SubmitType ==
  ASSUME TypeOK, NEW x \in Clients, NEW j \in Jobs, NEW c \in Channels, Submit(x, j, c)
  PROVE  TypeOK'
  <1>1. [job |-> j, channel |-> c] \in Entries
    BY DEF Entries
  <1>2. pending' \in Seq(Entries) /\ Len(pending') <= PendingCapacity
    BY <1>1, AppendFacts DEF TypeOK, Submit, PendingHasRoom
  <1>3. hasJobs' \subseteq hasJobs
    BY DEF Submit, WakeWorker, Signal
  <1> QED
    BY <1>2, <1>3 DEF TypeOK, Submit, modes, threads, calls

LEMMA TakeCompletedType ==
  ASSUME TypeOK, NEW c \in Channels, TakeCompleted(c)
  PROVE  /\ completed' \in [Channels -> Seq(Jobs)]
         /\ \A d \in Channels : Len(completed'[d]) <= CompletedCapacity[d]
         /\ roomCompleted' \in [Channels -> SUBSET Workers]
         /\ \A d \in Channels : roomCompleted'[d] \subseteq roomCompleted[d]
         /\ taken' \subseteq Jobs
  <1>1. completed[c] \in Seq(Jobs) /\ completed[c] # <<>>
    BY DEF TypeOK, TakeCompleted
  <1>2. Head(completed[c]) \in Jobs /\ Tail(completed[c]) \in Seq(Jobs)
        /\ Len(Tail(completed[c])) <= Len(completed[c]) /\ Len(completed[c]) \in Nat
        /\ Len(Tail(completed[c])) \in Nat
    BY <1>1, TailFacts
  <1>3. completed' = [completed EXCEPT ![c] = Tail(completed[c])]
        /\ taken' = taken \cup {Head(completed[c])}
    BY DEF TakeCompleted
  <1>4. CompletedCapacity[c] \in Nat
    OBVIOUS
  <1>5. Len(Tail(completed[c])) <= CompletedCapacity[c]
    BY <1>2, <1>4 DEF TypeOK
  <1>6. PICK left \in Signal(roomCompleted[c]) : roomCompleted' = [roomCompleted EXCEPT ![c] = left]
    BY DEF TakeCompleted, WakePusher
  <1>7. left \subseteq roomCompleted[c]
    BY <1>6 DEF Signal
  <1> QED
    BY <1>2, <1>3, <1>5, <1>6, <1>7 DEF TypeOK

LEMMA PopCompletedType ==
  ASSUME TypeOK, NEW x \in Clients, NEW c \in Channels, PopCompleted(x, c)
  PROVE  TypeOK'
  <1>1. TakeCompleted(c)
    BY DEF PopCompleted
  <1> QED
    BY <1>1, TakeCompletedType DEF TypeOK, PopCompleted, modes, threads, calls

LEMMA PopCompletedWaitType ==
  ASSUME TypeOK, NEW x \in Clients, NEW c \in Channels, PopCompletedWait(x, c)
  PROVE  TypeOK'
  <1>0. /\ \A d \in Channels : x \in hasCompleted[d] => waiting[x] = d
        /\ x \notin hasCompleted[c]
        /\ \A d \in Channels : x \notin hasCompleted[d]
    BY DEF TypeOK, PopCompletedWait, TestsCompleted, MayCall
  <1>1. CASE TakeCompleted(c)
    <2>1. waiting' = [waiting EXCEPT ![x] = NoChannel] /\ hasCompleted' = hasCompleted
      BY <1>1, TailFacts DEF PopCompletedWait, TakeCompleted, TypeOK
    <2> QED
      BY <1>0, <1>1, <2>1, TakeCompletedType DEF TypeOK, PopCompletedWait, modes, threads
  <1>2. CASE ~TakeCompleted(c)
    <2>1. /\ UNCHANGED <<rings, modes, threads, hasJobs, roomCompleted, owner>>
          /\ UNCHANGED <<accepted, taken, dropped, discarded>>
      BY <1>2 DEF PopCompletedWait, rings, modes, threads
    <2>2. \/ /\ waiting' = [waiting EXCEPT ![x] = NoChannel]
             /\ hasCompleted' = hasCompleted
          \/ /\ waiting' = [waiting EXCEPT ![x] = c]
             /\ hasCompleted' = [hasCompleted EXCEPT ![c] = @ \cup {x}]
      BY <1>2 DEF PopCompletedWait
    <2>t. /\ waiting \in [Clients -> Channels \cup {NoChannel}]
          /\ hasCompleted \in [Channels -> SUBSET Clients]
          /\ \A d \in Channels : \A y \in hasCompleted[d] : waiting[y] = d
      BY DEF TypeOK
    <2>5. /\ waiting' \in [Clients -> Channels \cup {NoChannel}]
          /\ hasCompleted' \in [Channels -> SUBSET Clients]
          /\ \A d \in Channels : \A y \in hasCompleted'[d] : waiting'[y] = d
      <3>1. CASE /\ waiting' = [waiting EXCEPT ![x] = NoChannel]
                 /\ hasCompleted' = hasCompleted
        BY <1>0, <2>t, <3>1
      <3>2. CASE /\ waiting' = [waiting EXCEPT ![x] = c]
                 /\ hasCompleted' = [hasCompleted EXCEPT ![c] = @ \cup {x}]
        BY <1>0, <2>t, <3>2
      <3> QED
        BY <2>2, <3>1, <3>2
    <2> QED
      BY <2>1, <2>5 DEF TypeOK, rings, modes, threads
  <1> QED
    BY <1>1, <1>2

\* What the head of the worker's loop leaves well-typed.
LEMMA LoopTopType ==
  ASSUME TypeOK, NEW w \in Workers, LoopTop(w), \A c \in Channels : w \notin roomCompleted[c]
  PROVE  /\ pending' \in Seq(Entries) /\ Len(pending') <= PendingCapacity
         /\ wpc' \in [Workers -> {"loop", "run", "push", "exit"}]
         /\ carrying' \in [Workers -> Entries \cup {NoEntry}]
         /\ \A v \in Workers : carrying'[v] = NoEntry <=> wpc'[v] \in {"loop", "exit"}
         /\ w \notin hasJobs => hasJobs' \subseteq {v \in Workers : wpc'[v] = "loop"}
         /\ \A c \in Channels : \A v \in roomCompleted[c] :
              wpc'[v] = "push" /\ carrying'[v].channel = c
  <1> DEFINE Threads ==
        /\ wpc' \in [Workers -> {"loop", "run", "push", "exit"}]
        /\ carrying' \in [Workers -> Entries \cup {NoEntry}]
        /\ \A v \in Workers : carrying'[v] = NoEntry <=> wpc'[v] \in {"loop", "exit"}
        /\ w \notin hasJobs => hasJobs' \subseteq {v \in Workers : wpc'[v] = "loop"}
        /\ \A c \in Channels : \A v \in roomCompleted[c] :
             wpc'[v] = "push" /\ carrying'[v].channel = c
  <1>1. /\ wpc \in [Workers -> {"loop", "run", "push", "exit"}]
        /\ carrying \in [Workers -> Entries \cup {NoEntry}]
        /\ \A v \in Workers : carrying[v] = NoEntry <=> wpc[v] \in {"loop", "exit"}
        /\ hasJobs \subseteq {v \in Workers : wpc[v] = "loop"}
        /\ roomCompleted \in [Channels -> SUBSET Workers]
        /\ \A c \in Channels : \A v \in roomCompleted[c] :
             wpc[v] = "push" /\ carrying[v].channel = c
    BY DEF TypeOK
  <1>2. NoEntry \notin Entries
    BY DEF NoEntry, Entries
  <1>3. pending \in Seq(Entries) /\ Len(pending) <= PendingCapacity
    BY DEF TypeOK
  <1>4. CASE /\ pending = <<>> /\ ~stopping
             /\ hasJobs' = hasJobs \cup {w}
             /\ wpc' = [wpc EXCEPT ![w] = "loop"]
             /\ carrying' = [carrying EXCEPT ![w] = NoEntry]
             /\ UNCHANGED pending
    <2>1. Threads
      BY <1>1, <1>2, <1>4
    <2> QED
      BY <1>3, <1>4, <2>1
  <1>5. CASE /\ MayExit
             /\ wpc' = [wpc EXCEPT ![w] = "exit"]
             /\ carrying' = [carrying EXCEPT ![w] = NoEntry]
             /\ UNCHANGED <<pending, hasJobs>>
    <2>1. Threads
      BY <1>1, <1>2, <1>5
    <2> QED
      BY <1>3, <1>5, <2>1
  <1>6. CASE /\ pending # <<>>
             /\ pending' = PendingAfterPop
             /\ wpc' = [wpc EXCEPT ![w] = "run"]
             /\ carrying' = [carrying EXCEPT ![w] = Head(pending)]
             /\ UNCHANGED hasJobs
    <2>1. Head(pending) \in Entries /\ Tail(pending) \in Seq(Entries)
          /\ Len(Tail(pending)) <= PendingCapacity
      BY <1>3, <1>6, TailFacts
    <2>2. Threads
      BY <1>1, <1>2, <1>6, <2>1
    <2> QED
      BY <1>6, <2>1, <2>2 DEF PendingAfterPop
  <1> QED
    BY <1>4, <1>5, <1>6 DEF LoopTop

\* A worker that runs or pushes a job carries one.
LEMMA BusyCarries ==
  ASSUME TypeOK, NEW w \in Workers, wpc[w] \notin {"loop", "exit"}
  PROVE  /\ carrying[w] \in Entries
         /\ carrying[w].channel \in Channels
         /\ carrying[w].job \in Jobs
         /\ carrying[w].job # NoJob
  <1>1. carrying[w] \in Entries
    BY DEF TypeOK
  <1> QED
    BY <1>1 DEF Entries

\* The jobs in the pending ring are jobs.
LEMMA PendingJobsType == TypeOK => PendingJobs \subseteq Jobs
  <1> SUFFICES ASSUME TypeOK, NEW i \in DOMAIN pending
               PROVE  pending[i].job \in Jobs
    BY DEF PendingJobs
  <1>1. pending[i] \in Entries
    BY DEF TypeOK
  <1> QED
    BY <1>1 DEF Entries

LEMMA WorkerType ==
  ASSUME TypeOK, NEW w \in Workers, WorkerStep(w)
  PROVE  TypeOK'
  <1>1. CASE WorkerLoop(w)
    <2>1. \A c \in Channels : w \notin roomCompleted[c]
      BY <1>1 DEF WorkerLoop, TypeOK
    <2> QED
      BY <1>1, <2>1, LoopTopType DEF TypeOK, WorkerLoop, modes, calls, history
  <1>2. CASE JobReturns(w)
    BY <1>2 DEF TypeOK, JobReturns, rings, modes, conds, calls, history
  <1>3. CASE WaitForRoom(w)
    <2> DEFINE c == carrying[w].channel
    <2>1. c \in Channels
      BY <1>3, BusyCarries DEF WaitForRoom
    <2>2. /\ roomCompleted \in [Channels -> SUBSET Workers]
          /\ \A d \in Channels : \A v \in roomCompleted[d] :
               wpc[v] = "push" /\ carrying[v].channel = d
      BY DEF TypeOK
    <2>3. roomCompleted' = [roomCompleted EXCEPT ![c] = @ \cup {w}] /\ wpc[w] = "push"
      BY <1>3 DEF WaitForRoom
    <2>4. /\ roomCompleted' \in [Channels -> SUBSET Workers]
          /\ \A d \in Channels : \A v \in roomCompleted'[d] :
               wpc[v] = "push" /\ carrying[v].channel = d
      BY <2>1, <2>2, <2>3
    <2> QED
      BY <1>3, <2>4 DEF TypeOK, WaitForRoom, rings, modes, threads, calls, history
  <1>4. CASE PushCompleted(w)
    <2> DEFINE c == carrying[w].channel
    <2>1. c \in Channels /\ carrying[w].job \in Jobs
      BY <1>4, BusyCarries DEF PushCompleted
    <2>2. \A d \in Channels : w \notin roomCompleted[d]
      BY <1>4 DEF TypeOK, PushCompleted
    <2>3. w \notin hasJobs
      BY <1>4 DEF TypeOK, PushCompleted
    <2>4. /\ completed' \in [Channels -> Seq(Jobs)]
          /\ \A d \in Channels : Len(completed'[d]) <= CompletedCapacity[d]
      <3>1. /\ completed \in [Channels -> Seq(Jobs)]
            /\ \A d \in Channels : Len(completed[d]) <= CompletedCapacity[d]
        BY DEF TypeOK
      <3>2. completed' = [completed EXCEPT ![c] = Append(@, carrying[w].job)]
            /\ Len(completed[c]) # CompletedCapacity[c]
        BY <1>4 DEF PushCompleted, RingFull
      <3>3. /\ Append(completed[c], carrying[w].job) \in Seq(Jobs)
            /\ Len(Append(completed[c], carrying[w].job)) = Len(completed[c]) + 1
            /\ Len(completed[c]) \in Nat /\ CompletedCapacity[c] \in Nat
        BY <2>1, <3>1, AppendFacts
      <3> QED
        BY <2>1, <3>1, <3>2, <3>3
    <2>5. /\ hasCompleted' \in [Channels -> SUBSET Clients]
          /\ \A d \in Channels : hasCompleted'[d] \subseteq hasCompleted[d]
      <3>1. PICK left \in Signal(hasCompleted[c]) :
              hasCompleted' = [hasCompleted EXCEPT ![c] = left]
        BY <1>4 DEF PushCompleted, WakeWaiter
      <3>2. left \subseteq hasCompleted[c]
        BY <3>1 DEF Signal
      <3>3. hasCompleted \in [Channels -> SUBSET Clients]
        BY DEF TypeOK
      <3> QED
        BY <2>1, <3>1, <3>2, <3>3
    <2>6. LoopTop(w)
      BY <1>4 DEF PushCompleted
    <2> QED
      BY <1>4, <2>2, <2>3, <2>4, <2>5, <2>6, LoopTopType
      DEF TypeOK, PushCompleted, modes, calls, history
  <1> QED
    BY <1>1, <1>2, <1>3, <1>4 DEF WorkerStep

LEMMA BeginStopType ==
  ASSUME TypeOK, NEW drain \in BOOLEAN, BeginStop(drain),
         owner' \in {"free", "stopping", "destroying"}
  PROVE  TypeOK'
  <1>1. pending' \in Seq(Entries) /\ Len(pending') <= PendingCapacity
    BY DEF BeginStop, DropUnlessDraining, TypeOK
  <1>2. PendingJobs \subseteq Jobs
    BY PendingJobsType
  <1>3. dropped' \subseteq Jobs
    BY <1>2 DEF BeginStop, DropUnlessDraining, TypeOK
  <1>4. stopping' \in BOOLEAN /\ drainMode' \in BOOLEAN
    BY Zenon DEF BeginStop
  <1>5. /\ hasCompleted' \in [Channels -> SUBSET Clients]
        /\ roomCompleted' \in [Channels -> SUBSET Workers]
        /\ \A c \in Channels : roomCompleted'[c] = {} /\ hasCompleted'[c] = {}
        /\ hasJobs' = {}
    BY DEF BeginStop, WakeEverybody
  <1>6. UNCHANGED <<completed, nChannels, freed, threads, waiting, accepted, taken,
                    discarded>>
    BY DEF BeginStop
  <1> QED
    BY <1>1, <1>3, <1>4, <1>5, <1>6 DEF TypeOK, threads

LEMMA FreeManagerType ==
  ASSUME TypeOK, FreeManager
  PROVE  TypeOK'
  <1>1. pending' \in Seq(Entries) /\ Len(pending') <= PendingCapacity
    BY DEF FreeManager
  <1>2. /\ completed' \in [Channels -> Seq(Jobs)]
        /\ \A c \in Channels : Len(completed'[c]) <= CompletedCapacity[c]
    BY DEF FreeManager
  <1>3. discarded' \subseteq Jobs
    BY DEF FreeManager, TypeOK
  <1>4. freed' \in BOOLEAN /\ owner' \in {"free", "stopping", "destroying"}
    BY Zenon DEF FreeManager
  <1>5. UNCHANGED <<nChannels, stopping, drainMode, threads, conds, waiting, accepted,
                    taken, dropped>>
    BY DEF FreeManager
  <1> QED
    BY <1>1, <1>2, <1>3, <1>4, <1>5 DEF TypeOK, threads, conds

LEMMA OwnerType ==
  ASSUME TypeOK, OwnerStep
  PROVE  TypeOK'
  <1>1. CASE InitChannel
    BY <1>1, InitChannelType
  <1>2. ASSUME NEW drain \in BOOLEAN, Stop(drain)
        PROVE  TypeOK'
    BY <1>2, BeginStopType DEF Stop
  <1>3. CASE StopReturns
    BY <1>3 DEF TypeOK, StopReturns, rings, modes, threads, conds, history
  <1>4. CASE Destroy
    BY <1>4, BeginStopType DEF Destroy
  <1>5. CASE DestroyReturns \/ DestroyStopped
    BY <1>5, FreeManagerType DEF DestroyReturns, DestroyStopped
  <1> QED
    BY <1>1, <1>2, <1>3, <1>4, <1>5 DEF OwnerStep

LEMMA SpuriousType ==
  ASSUME TypeOK, SpuriousWakeup
  PROVE  TypeOK'
  <1>1. /\ hasCompleted \in [Channels -> SUBSET Clients]
        /\ roomCompleted \in [Channels -> SUBSET Workers]
    BY DEF TypeOK
  <1>2. CASE /\ \E w \in hasJobs : hasJobs' = hasJobs \ {w}
             /\ UNCHANGED <<roomCompleted, hasCompleted>>
    BY <1>2 DEF TypeOK, SpuriousWakeup, rings, modes, threads, calls, history
  <1>3. CASE /\ \E c \in Channels : \E w \in roomCompleted[c] :
                  roomCompleted' = [roomCompleted EXCEPT ![c] = @ \ {w}]
             /\ UNCHANGED <<hasJobs, hasCompleted>>
    <2>1. /\ roomCompleted' \in [Channels -> SUBSET Workers]
          /\ \A c \in Channels : roomCompleted'[c] \subseteq roomCompleted[c]
      BY <1>1, <1>3
    <2> QED
      BY <1>3, <2>1 DEF TypeOK, SpuriousWakeup, rings, modes, threads, calls, history
  <1>4. CASE /\ \E c \in Channels : \E x \in hasCompleted[c] :
                  hasCompleted' = [hasCompleted EXCEPT ![c] = @ \ {x}]
             /\ UNCHANGED <<hasJobs, roomCompleted>>
    <2>1. /\ hasCompleted' \in [Channels -> SUBSET Clients]
          /\ \A c \in Channels : hasCompleted'[c] \subseteq hasCompleted[c]
      BY <1>1, <1>4
    <2> QED
      BY <1>4, <2>1 DEF TypeOK, SpuriousWakeup, rings, modes, threads, calls, history
  <1> QED
    BY <1>2, <1>3, <1>4 DEF SpuriousWakeup

\* Type correctness: no ring ever holds more than its capacity, a thread sleeps
\* in at most one condition variable and only where its loop waits on it, and
\* a worker holds a job exactly between popping it and pushing it.
THEOREM TypeCorrect == Spec => []TypeOK
  <1>1. TypeOK /\ [Next]_vars => TypeOK'
    <2> SUFFICES ASSUME TypeOK, [Next]_vars
                 PROVE  TypeOK'
      OBVIOUS
    <2>1. ASSUME NEW x \in Clients, ClientStep(x)
          PROVE  TypeOK'
      BY <2>1, SubmitType, PopCompletedType, PopCompletedWaitType DEF ClientStep
    <2>2. ASSUME NEW w \in Workers, WorkerStep(w)
          PROVE  TypeOK'
      BY <2>2, WorkerType
    <2>3. CASE OwnerStep
      BY <2>3, OwnerType
    <2>4. CASE SpuriousWakeup
      BY <2>4, SpuriousType
    <2>5. CASE UNCHANGED vars
      BY <2>5 DEF vars, rings, modes, threads, conds, calls, history, TypeOK
    <2> QED
      BY <2>1, <2>2, <2>3, <2>4, <2>5 DEF Next
  <1> QED
    BY <1>1, InitType, PTL DEF Spec

------------------------------------------------------------------------------
(* Conservation of jobs.                                                   *)

\* Popping the pending ring removes exactly its oldest job from it.
LEMMA PopPendingJobs ==
  ASSUME TypeOK, NoJobTwice, pending # <<>>, pending' = Tail(pending)
  PROVE  /\ Head(pending).job \in PendingJobs
         /\ PendingJobs' = PendingJobs \ {Head(pending).job}
         /\ \A i, k \in DOMAIN pending' : pending'[i].job = pending'[k].job => i = k
  <1>1. /\ pending \in Seq(Entries) /\ 1 \in DOMAIN pending /\ Head(pending) = pending[1]
        /\ \A i \in DOMAIN pending' : i + 1 \in DOMAIN pending /\ pending'[i] = pending[i + 1]
        /\ DOMAIN pending = 1 .. Len(pending) /\ DOMAIN pending' = 1 .. Len(pending) - 1
        /\ Len(pending) \in Nat
    BY TailFacts DEF TypeOK
  <1>2. \A i, k \in DOMAIN pending : pending[i].job = pending[k].job => i = k
    BY DEF NoJobTwice
  <1>3. \A i \in DOMAIN pending : i = 1 \/ (i - 1 \in DOMAIN pending' /\ pending'[i - 1] = pending[i])
    BY <1>1
  <1>4. ASSUME NEW i \in DOMAIN pending'
        PROVE  pending'[i].job # pending[1].job
    BY <1>1, <1>2
  <1>5. PendingJobs' = PendingJobs \ {Head(pending).job}
    <2>1. PendingJobs' \subseteq PendingJobs \ {Head(pending).job}
      BY <1>1, <1>4 DEF PendingJobs
    <2>2. PendingJobs \ {Head(pending).job} \subseteq PendingJobs'
      <3> SUFFICES ASSUME NEW i \in DOMAIN pending, pending[i].job # Head(pending).job
                   PROVE  pending[i].job \in PendingJobs'
        BY DEF PendingJobs
      <3>1. i # 1
        BY <1>1
      <3>2. i - 1 \in DOMAIN pending' /\ pending'[i - 1] = pending[i]
        BY <1>3, <3>1
      <3>3. PendingJobs' = {pending'[k].job : k \in DOMAIN pending'}
        BY DEF PendingJobs
      <3> QED
        BY <3>2, <3>3
    <2> QED
      BY <2>1, <2>2
  <1>6. ASSUME NEW i \in DOMAIN pending', NEW k \in DOMAIN pending',
               pending'[i].job = pending'[k].job
        PROVE  i = k
    BY <1>1, <1>2, <1>6
  <1> QED
    BY <1>1, <1>5, <1>6 DEF PendingJobs

\* The head of the worker's loop gives up the worker's job and moves at most
\* one job from the pending ring to the worker.
LEMMA LoopTopJobs ==
  ASSUME TypeOK, NoJobTwice, NEW w \in Workers, LoopTop(w)
  PROVE  /\ \A i, k \in DOMAIN pending' : pending'[i].job = pending'[k].job => i = k
         /\ \A u, v \in Workers :
              carrying'[u].job = carrying'[v].job /\ carrying'[u].job # NoJob => u = v
         /\ PendingJobs' \cap CarriedJobs' = {}
         /\ PendingJobs' \cup CarriedJobs' = (PendingJobs \cup CarriedJobs) \ {carrying[w].job}
         /\ \/ /\ PendingJobs' = PendingJobs
               /\ CarriedJobs' = CarriedJobs \ {carrying[w].job}
            \/ \E h \in PendingJobs :
                 /\ PendingJobs' = PendingJobs \ {h}
                 /\ CarriedJobs' = (CarriedJobs \ {carrying[w].job}) \cup {h}
  <1>1. /\ carrying \in [Workers -> Entries \cup {NoEntry}]
        /\ \A u, v \in Workers :
             carrying[u].job = carrying[v].job /\ carrying[u].job # NoJob => u = v
        /\ PendingJobs \cap CarriedJobs = {}
        /\ NoEntry.job = NoJob
        /\ PendingJobs \subseteq Jobs
        /\ CarriedJobs = {carrying[v].job : v \in Workers} \ {NoJob}
    BY PendingJobsType DEF TypeOK, NoJobTwice, NoEntry, CarriedJobs
  <1>2. carrying[w].job \notin PendingJobs
    BY <1>1
  <1>3. CASE pending' = pending /\ carrying' = [carrying EXCEPT ![w] = NoEntry]
    <2>1. PendingJobs' = PendingJobs
      BY <1>3 DEF PendingJobs
    <2>2. \A v \in Workers : carrying'[v].job = IF v = w THEN NoJob ELSE carrying[v].job
      BY <1>1, <1>3
    <2>3. CarriedJobs' = CarriedJobs \ {carrying[w].job}
      BY <1>1, <2>2 DEF CarriedJobs
    <2>4. \A i, k \in DOMAIN pending' : pending'[i].job = pending'[k].job => i = k
      BY <1>3 DEF NoJobTwice
    <2> QED
      BY <1>1, <1>2, <2>1, <2>2, <2>3, <2>4
  <1>4. CASE /\ pending # <<>> /\ pending' = Tail(pending)
             /\ carrying' = [carrying EXCEPT ![w] = Head(pending)]
    <2> DEFINE h == Head(pending).job
    <2>1. /\ h \in PendingJobs
          /\ PendingJobs' = PendingJobs \ {h}
          /\ \A i, k \in DOMAIN pending' : pending'[i].job = pending'[k].job => i = k
      BY <1>4, PopPendingJobs
    <2>2. h \notin CarriedJobs /\ h \in Jobs /\ h # NoJob /\ h # carrying[w].job
      BY <1>1, <1>2, <2>1
    <2>3. \A v \in Workers : carrying'[v].job = IF v = w THEN h ELSE carrying[v].job
      BY <1>1, <1>4
    <2> HIDE DEF h
    <2>4. CarriedJobs' = (CarriedJobs \ {carrying[w].job}) \cup {h}
      BY <1>1, <2>2, <2>3 DEF CarriedJobs
    <2>5. ASSUME NEW u \in Workers, NEW v \in Workers,
                 carrying'[u].job = carrying'[v].job, carrying'[u].job # NoJob
          PROVE  u = v
      BY <1>1, <2>2, <2>3, <2>5
    <2> QED
      BY <1>1, <1>2, <2>1, <2>2, <2>4, <2>5
  <1> QED
    BY <1>3, <1>4 DEF LoopTop, PendingAfterPop

\* The conjuncts of conservation that speak of the completed rings.
CompletedOnce ==
  \A c, d \in Channels : \A i \in DOMAIN completed[c], k \in DOMAIN completed[d] :
    completed[c][i] = completed[d][k] => c = d /\ i = k

\* Pushing a job that is in no completed ring adds exactly that job.
LEMMA PushCompletedJobs ==
  ASSUME TypeOK, CompletedOnce, NEW c \in Channels, NEW j \in Jobs, j \notin CompletedJobsOfAll,
         completed' = [completed EXCEPT ![c] = Append(@, j)]
  PROVE  /\ CompletedOnce'
         /\ CompletedJobsOfAll' = CompletedJobsOfAll \cup {j}
  <1> DEFINE n == Len(completed[c]) + 1
  <1>1. completed \in [Channels -> Seq(Jobs)]
    BY DEF TypeOK
  <1>2. /\ DOMAIN completed'[c] = DOMAIN completed[c] \cup {n}
        /\ completed'[c][n] = j
        /\ \A i \in DOMAIN completed[c] : completed'[c][i] = completed[c][i]
        /\ n \notin DOMAIN completed[c]
        /\ \A d \in Channels : d # c => completed'[d] = completed[d]
    BY <1>1, AppendFacts
  <1>3. \A d \in Channels : \A i \in DOMAIN completed[d] : completed[d][i] # j
    BY DEF CompletedJobsOfAll, CompletedJobs
  <1> HIDE DEF n
  <1>4. ASSUME NEW d \in Channels, NEW e \in Channels,
               NEW i \in DOMAIN completed'[d], NEW k \in DOMAIN completed'[e],
               completed'[d][i] = completed'[e][k]
        PROVE  d = e /\ i = k
    <2>1. (i \in DOMAIN completed[d] /\ completed'[d][i] = completed[d][i]) \/ (d = c /\ i = n)
      BY <1>2
    <2>2. (k \in DOMAIN completed[e] /\ completed'[e][k] = completed[e][k]) \/ (e = c /\ k = n)
      BY <1>2
    <2>3. \A f \in Channels, g \in Channels :
            \A a \in DOMAIN completed[f], b \in DOMAIN completed[g] :
              completed[f][a] = completed[g][b] => f = g /\ a = b
      BY DEF CompletedOnce
    <2> QED
      BY <1>2, <1>3, <1>4, <2>1, <2>2, <2>3
  <1>5. CompletedJobs(c)' = CompletedJobs(c) \cup {j}
    BY <1>2 DEF CompletedJobs
  <1>6. \A d \in Channels : d # c => CompletedJobs(d)' = CompletedJobs(d)
    BY <1>2 DEF CompletedJobs
  <1>7. CompletedJobsOfAll' = CompletedJobsOfAll \cup {j}
    BY <1>5, <1>6 DEF CompletedJobsOfAll
  <1> QED
    BY <1>4, <1>7 DEF CompletedOnce

\* Popping a completed ring removes exactly its oldest job.
LEMMA TakeCompletedJobs ==
  ASSUME TypeOK, CompletedOnce, NEW c \in Channels, completed[c] # <<>>,
         completed' = [completed EXCEPT ![c] = Tail(@)]
  PROVE  /\ CompletedOnce'
         /\ Head(completed[c]) \in CompletedJobsOfAll
         /\ CompletedJobsOfAll' = CompletedJobsOfAll \ {Head(completed[c])}
  <1> DEFINE h == Head(completed[c])
  <1>1. completed \in [Channels -> Seq(Jobs)]
    BY DEF TypeOK
  <1>2. /\ 1 \in DOMAIN completed[c] /\ h = completed[c][1]
        /\ \A i \in DOMAIN completed'[c] :
             /\ i + 1 \in DOMAIN completed[c] /\ i + 1 # 1 /\ i \in Nat
             /\ completed'[c][i] = completed[c][i + 1]
        /\ \A i \in DOMAIN completed[c] :
             i = 1 \/ (i - 1 \in DOMAIN completed'[c] /\ completed'[c][i - 1] = completed[c][i])
        /\ \A d \in Channels : d # c => completed'[d] = completed[d]
    <2>1. completed[c] \in Seq(Jobs) /\ completed'[c] = Tail(completed[c])
      BY <1>1
    <2> QED
      BY <1>1, <2>1, TailFacts
  <1>3. \A f \in Channels, g \in Channels :
          \A a \in DOMAIN completed[f], b \in DOMAIN completed[g] :
            completed[f][a] = completed[g][b] => f = g /\ a = b
    BY DEF CompletedOnce
  <1> HIDE DEF h
  <1>4. ASSUME NEW d \in Channels, NEW e \in Channels,
               NEW i \in DOMAIN completed'[d], NEW k \in DOMAIN completed'[e],
               completed'[d][i] = completed'[e][k]
        PROVE  d = e /\ i = k
    <2>1. CASE d = c /\ e = c
      BY <1>2, <1>3, <1>4, <2>1
    <2>2. CASE d = c /\ e # c
      BY <1>2, <1>3, <1>4, <2>2
    <2>3. CASE d # c /\ e = c
      BY <1>2, <1>3, <1>4, <2>3
    <2>4. CASE d # c /\ e # c
      BY <1>2, <1>3, <1>4, <2>4
    <2> QED
      BY <2>1, <2>2, <2>3, <2>4
  <1>5. CompletedJobs(c)' = CompletedJobs(c) \ {h}
    <2>1. ASSUME NEW i \in DOMAIN completed'[c]
          PROVE  completed'[c][i] \in CompletedJobs(c) \ {h}
      BY <1>2, <1>3 DEF CompletedJobs
    <2>2. ASSUME NEW i \in DOMAIN completed[c], completed[c][i] # h
          PROVE  completed[c][i] \in CompletedJobs(c)'
      <3>1. i - 1 \in DOMAIN completed'[c] /\ completed'[c][i - 1] = completed[c][i]
        BY <1>2, <2>2
      <3>2. CompletedJobs(c)' = {completed'[c][k] : k \in DOMAIN completed'[c]}
        BY DEF CompletedJobs
      <3> QED
        BY <3>1, <3>2
    <2> QED
      BY <2>1, <2>2 DEF CompletedJobs
  <1>6. \A d \in Channels : d # c => CompletedJobs(d)' = CompletedJobs(d) /\ h \notin CompletedJobs(d)
    BY <1>2, <1>3 DEF CompletedJobs
  <1>7. CompletedJobsOfAll' = CompletedJobsOfAll \ {h}
    BY <1>5, <1>6 DEF CompletedJobsOfAll
  <1>8. h \in CompletedJobsOfAll
    BY <1>2 DEF CompletedJobsOfAll, CompletedJobs
  <1> QED
    BY <1>4, <1>7, <1>8 DEF CompletedOnce, h

\* A step that moves no job.
LEMMA NothingMoves ==
  ASSUME JobsConserved,
         UNCHANGED <<pending, completed, carrying, accepted, taken, dropped, discarded>>
  PROVE  JobsConserved'
  <1>1. /\ PendingJobs' = PendingJobs /\ CarriedJobs' = CarriedJobs
        /\ CompletedJobsOfAll' = CompletedJobsOfAll /\ Gone' = Gone
    BY DEF PendingJobs, CarriedJobs, CompletedJobsOfAll, CompletedJobs, Gone
  <1>2. NoJobTwice'
    BY <1>1 DEF JobsConserved, NoJobTwice
  <1> QED
    BY <1>1, <1>2 DEF JobsConserved

\* A submitted job was nowhere before.
LEMMA SubmitConserves ==
  ASSUME TypeOK, JobsConserved, NEW x \in Clients, NEW j \in Jobs, NEW c \in Channels,
         Submit(x, j, c)
  PROVE  JobsConserved'
  <1> DEFINE e == [job |-> j, channel |-> c]
             n == Len(pending) + 1
  <1>1. e \in Entries /\ e.job = j
    BY DEF Entries
  <1>2. /\ DOMAIN pending' = DOMAIN pending \cup {n}
        /\ pending'[n] = e /\ n \notin DOMAIN pending
        /\ \A i \in DOMAIN pending : pending'[i] = pending[i]
    BY <1>1, AppendFacts DEF TypeOK, Submit
  <1> HIDE DEF e, n
  <1>3. PendingJobs' = PendingJobs \cup {j}
    BY <1>1, <1>2 DEF PendingJobs
  <1>4. UNCHANGED <<carrying, completed, taken, dropped, discarded>>
        /\ accepted' = accepted \cup {j} /\ j \notin accepted
    BY DEF Submit, threads
  <1>5. CarriedJobs' = CarriedJobs /\ CompletedJobsOfAll' = CompletedJobsOfAll /\ Gone' = Gone
    BY <1>4 DEF CarriedJobs, CompletedJobsOfAll, CompletedJobs, Gone
  <1>6. j \notin PendingJobs /\ j \notin CarriedJobs /\ j \notin CompletedJobsOfAll /\ j \notin Gone
    BY <1>4 DEF JobsConserved
  <1>7. \A i \in DOMAIN pending : pending[i].job # j
    BY <1>6 DEF PendingJobs
  <1>8. \A i, k \in DOMAIN pending' : pending'[i].job = pending'[k].job => i = k
    BY <1>1, <1>2, <1>7 DEF JobsConserved, NoJobTwice
  <1>9. NoJobTwice'
    BY <1>3, <1>4, <1>5, <1>6, <1>8 DEF JobsConserved, NoJobTwice
  <1> QED
    BY <1>3, <1>4, <1>5, <1>6, <1>9 DEF JobsConserved

LEMMA TakeConserves ==
  ASSUME TypeOK, JobsConserved, NEW c \in Channels, TakeCompleted(c),
         UNCHANGED <<pending, carrying, accepted, dropped, discarded>>
  PROVE  JobsConserved'
  <1> DEFINE h == Head(completed[c])
  <1>1. CompletedOnce
    BY DEF JobsConserved, NoJobTwice, CompletedOnce
  <1>2. /\ CompletedOnce'
        /\ h \in CompletedJobsOfAll
        /\ CompletedJobsOfAll' = CompletedJobsOfAll \ {h}
    BY <1>1, TakeCompletedJobs DEF TakeCompleted
  <1>3. taken' = taken \cup {h}
    BY DEF TakeCompleted
  <1> HIDE DEF h
  <1>4. PendingJobs' = PendingJobs /\ CarriedJobs' = CarriedJobs
    BY DEF PendingJobs, CarriedJobs
  <1>5. NoJobTwice'
    BY <1>2, <1>4 DEF JobsConserved, NoJobTwice, CompletedOnce
  <1>6. h \notin dropped /\ h \notin discarded /\ h \notin taken
        /\ h \notin PendingJobs \cup CarriedJobs
    BY <1>2 DEF JobsConserved, NoJobTwice, Gone
  <1>7. Gone' = Gone \cup {h}
    BY <1>3 DEF Gone
  <1>8. accepted' = PendingJobs' \cup CarriedJobs' \cup CompletedJobsOfAll' \cup Gone'
    BY <1>2, <1>4, <1>7 DEF JobsConserved
  <1>9. (PendingJobs' \cup CarriedJobs' \cup CompletedJobsOfAll') \cap Gone' = {}
    BY <1>2, <1>4, <1>6, <1>7 DEF JobsConserved
  <1>10. /\ taken' \cap dropped' = {} /\ taken' \cap discarded' = {}
         /\ dropped' \cap discarded' = {}
    BY <1>3, <1>6 DEF JobsConserved
  <1> QED
    BY <1>5, <1>8, <1>9, <1>10 DEF JobsConserved

\* The worker's job goes into the completed ring and the worker may take the
\* next one, in one step.
LEMMA WorkerConserves ==
  ASSUME TypeOK, JobsConserved, NEW w \in Workers, WorkerStep(w)
  PROVE  JobsConserved'
  <1> DEFINE e == carrying[w]
  <1>0. NoJobTwice /\ CompletedOnce
    BY DEF JobsConserved, NoJobTwice, CompletedOnce
  <1>1. CASE WorkerLoop(w)
    <2>1. carrying[w] = NoEntry /\ carrying[w].job = NoJob
      BY <1>1 DEF WorkerLoop, TypeOK, NoEntry
    <2>2. NoJob \notin PendingJobs \cup CarriedJobs
      BY PendingJobsType DEF CarriedJobs
    <2>3. PendingJobs' \cup CarriedJobs' = PendingJobs \cup CarriedJobs
      BY <1>0, <1>1, <2>1, <2>2, LoopTopJobs DEF WorkerLoop
    <2>4. UNCHANGED <<completed, accepted, taken, dropped, discarded>>
      BY <1>1 DEF WorkerLoop, history
    <2>5. CompletedJobsOfAll' = CompletedJobsOfAll /\ Gone' = Gone /\ CompletedOnce'
      BY <1>0, <2>4 DEF CompletedJobsOfAll, CompletedJobs, Gone, CompletedOnce
    <2>6. NoJobTwice'
      BY <1>0, <1>1, <2>3, <2>5, LoopTopJobs
      DEF WorkerLoop, JobsConserved, NoJobTwice, CompletedOnce
    <2> QED
      BY <2>3, <2>4, <2>5, <2>6 DEF JobsConserved
  <1>2. CASE JobReturns(w) \/ WaitForRoom(w)
    BY <1>2, NothingMoves DEF JobReturns, WaitForRoom, rings, threads, history
  <1>3. CASE PushCompleted(w)
    <2> DEFINE j == carrying[w].job
               c == carrying[w].channel
    <2>1. j \in Jobs /\ c \in Channels /\ j \in CarriedJobs
      BY <1>3, BusyCarries DEF PushCompleted, CarriedJobs
    <2>2. completed' = [completed EXCEPT ![c] = Append(@, j)]
      BY <1>3 DEF PushCompleted
    <2>3. j \notin CompletedJobsOfAll /\ j \notin PendingJobs
      BY <2>1 DEF JobsConserved, NoJobTwice
    <2>4. CompletedOnce' /\ CompletedJobsOfAll' = CompletedJobsOfAll \cup {j}
      BY <1>0, <2>1, <2>2, <2>3, PushCompletedJobs
    <2>5. /\ \A i, k \in DOMAIN pending' : pending'[i].job = pending'[k].job => i = k
          /\ \A u, v \in Workers :
               carrying'[u].job = carrying'[v].job /\ carrying'[u].job # NoJob => u = v
          /\ PendingJobs' \cap CarriedJobs' = {}
          /\ PendingJobs' \cup CarriedJobs' = (PendingJobs \cup CarriedJobs) \ {j}
      BY <1>0, <1>3, LoopTopJobs DEF PushCompleted
    <2> HIDE DEF j, c
    <2>6. UNCHANGED <<accepted, taken, dropped, discarded>> /\ Gone' = Gone
      BY <1>3 DEF PushCompleted, history, Gone
    <2>7. NoJobTwice'
      BY <2>4, <2>5 DEF JobsConserved, NoJobTwice, CompletedOnce
    <2> QED
      BY <2>1, <2>4, <2>5, <2>6, <2>7 DEF JobsConserved
  <1> QED
    BY <1>1, <1>2, <1>3 DEF WorkerStep

LEMMA ClientConserves ==
  ASSUME TypeOK, JobsConserved, NEW x \in Clients, ClientStep(x)
  PROVE  JobsConserved'
  <1>1. ASSUME NEW c \in Channels, PopCompleted(x, c)
        PROVE  JobsConserved'
    BY <1>1, TakeConserves DEF PopCompleted, threads
  <1>2. ASSUME NEW c \in Channels, PopCompletedWait(x, c)
        PROVE  JobsConserved'
    <2>1. UNCHANGED <<pending, carrying, accepted, dropped, discarded>>
      BY <1>2 DEF PopCompletedWait, threads
    <2>2. CASE TakeCompleted(c)
      BY <2>1, <2>2, TakeConserves
    <2>3. CASE ~TakeCompleted(c)
      <3>1. UNCHANGED <<completed, taken>>
        BY <1>2, <2>3 DEF PopCompletedWait
      <3> QED
        BY <2>1, <3>1, NothingMoves
    <2> QED
      BY <2>2, <2>3
  <1> QED
    BY <1>1, <1>2, SubmitConserves DEF ClientStep

\* A stop that does not drain moves the pending jobs, all of them, to the
\* dropped ones.
LEMMA BeginStopConserves ==
  ASSUME JobsConserved, NEW drain \in BOOLEAN, BeginStop(drain)
  PROVE  JobsConserved'
  <1>1. UNCHANGED <<completed, carrying, accepted, taken, discarded>>
    BY DEF BeginStop, threads
  <1>2. CASE drain
    BY <1>1, <1>2, NothingMoves DEF BeginStop, DropUnlessDraining
  <1>3. CASE ~drain
    <2>1. pending' = <<>> /\ dropped' = dropped \cup PendingJobs
      BY <1>3 DEF BeginStop, DropUnlessDraining
    <2>2. DOMAIN pending' = {} /\ PendingJobs' = {}
      BY <2>1 DEF PendingJobs
    <2>3. /\ CarriedJobs' = CarriedJobs /\ CompletedJobsOfAll' = CompletedJobsOfAll
          /\ Gone' = Gone \cup PendingJobs
      BY <1>1, <2>1 DEF CarriedJobs, CompletedJobsOfAll, CompletedJobs, Gone
    <2>4. NoJobTwice'
      BY <1>1, <2>2, <2>3 DEF JobsConserved, NoJobTwice
    <2>5. accepted' = PendingJobs' \cup CarriedJobs' \cup CompletedJobsOfAll' \cup Gone'
      BY <1>1, <2>2, <2>3 DEF JobsConserved
    <2>6. (PendingJobs' \cup CarriedJobs' \cup CompletedJobsOfAll') \cap Gone' = {}
      BY <2>2, <2>3 DEF JobsConserved, NoJobTwice
    <2>7. /\ taken' \cap dropped' = {} /\ taken' \cap discarded' = {}
          /\ dropped' \cap discarded' = {}
      BY <1>1, <2>1 DEF JobsConserved, Gone
    <2> QED
      BY <2>4, <2>5, <2>6, <2>7 DEF JobsConserved
  <1> QED
    BY <1>2, <1>3

------------------------------------------------------------------------------
(* The phases of a stop.                                                   *)

LEMMA WorkerPhases ==
  ASSUME TypeOK, StopPhases, NEW w \in Workers, WorkerStep(w)
  PROVE  StopPhases'
  <1>0. wpc \in [Workers -> {"loop", "run", "push", "exit"}]
    BY DEF TypeOK
  <1>1. CASE JobReturns(w) \/ WaitForRoom(w)
    BY <1>0, <1>1 DEF JobReturns, WaitForRoom, rings, modes, threads, conds, calls, history,
                StopPhases, AllExited
  <1>2. CASE WorkerLoop(w) \/ PushCompleted(w)
    <2>1. /\ LoopTop(w) /\ wpc[w] # "exit"
          /\ UNCHANGED <<stopping, drainMode, freed, owner, dropped>>
      BY <1>2 DEF WorkerLoop, PushCompleted, modes, calls, history
    <2>2. ~(stopping /\ owner = "free") /\ ~freed
      BY <2>1 DEF StopPhases, AllExited
    <2>3. CASE /\ pending = <<>> /\ ~stopping
               /\ wpc' = [wpc EXCEPT ![w] = "loop"]
               /\ UNCHANGED pending
      BY <1>0, <2>1, <2>2, <2>3 DEF StopPhases
    <2>4. CASE /\ MayExit
               /\ wpc' = [wpc EXCEPT ![w] = "exit"]
               /\ UNCHANGED <<pending, hasJobs>>
      BY <1>0, <2>1, <2>2, <2>4 DEF StopPhases, MayExit
    <2>5. CASE /\ pending # <<>>
               /\ wpc' = [wpc EXCEPT ![w] = "run"]
               /\ UNCHANGED hasJobs
      BY <1>0, <2>1, <2>2, <2>5 DEF StopPhases
    <2> QED
      BY <2>1, <2>3, <2>4, <2>5 DEF LoopTop
  <1> QED
    BY <1>1, <1>2 DEF WorkerStep

LEMMA ClientPhases ==
  ASSUME TypeOK, StopPhases, NEW x \in Clients, ClientStep(x)
  PROVE  StopPhases'
  <1>1. ASSUME NEW j \in Jobs, NEW c \in Channels, Submit(x, j, c)
        PROVE  StopPhases'
    <2>1. ~stopping /\ UNCHANGED <<stopping, drainMode, freed, owner, wpc, dropped>>
      BY <1>1 DEF Submit, modes, calls, threads
    <2> QED
      BY <2>1 DEF StopPhases
  <1>2. ASSUME NEW c \in Channels, PopCompleted(x, c) \/ PopCompletedWait(x, c)
        PROVE  StopPhases'
    BY <1>2 DEF PopCompleted, PopCompletedWait, modes, threads, calls, StopPhases, AllExited
  <1> QED
    BY <1>1, <1>2 DEF ClientStep

LEMMA OwnerPhases ==
  ASSUME TypeOK, StopPhases, OwnerStep
  PROVE  StopPhases'
  <1>1. CASE InitChannel
    BY <1>1 DEF InitChannel, rings, threads, conds, calls, history, StopPhases, AllExited
  <1>2. ASSUME NEW drain \in BOOLEAN, BeginStop(drain), owner' # "free"
        PROVE  StopPhases'
    <2>1. /\ ~stopping /\ stopping' = TRUE /\ drainMode' = drain /\ hasJobs' = {}
          /\ UNCHANGED <<freed, wpc>>
      BY <1>2 DEF BeginStop, WakeEverybody, threads
    <2>2. ~freed /\ \A w \in Workers : wpc[w] # "exit"
      BY <2>1 DEF StopPhases
    <2>3. drainMode' => dropped' = dropped
      BY <1>2, <2>1 DEF BeginStop, DropUnlessDraining
    <2>4. dropped' # {} => ~drainMode'
      BY <2>1, <2>3 DEF StopPhases
    <2> QED
      BY <1>2, <2>1, <2>2, <2>4 DEF StopPhases
  <1>3. CASE StopReturns
    BY <1>3 DEF StopReturns, rings, modes, threads, conds, history, StopPhases, AllExited
  <1>4. CASE DestroyReturns \/ DestroyStopped
    BY <1>4 DEF DestroyReturns, DestroyStopped, FreeManager, MayCall, threads, conds,
                StopPhases, AllExited
  <1> QED
    BY <1>1, <1>2, <1>3, <1>4 DEF OwnerStep, Stop, Destroy

\* When every worker has left no job is pending or with a worker.
LEMMA NothingLeft ==
  ASSUME TypeOK, StopPhases, AllExited
  PROVE  pending = <<>> /\ PendingJobs = {} /\ CarriedJobs = {}
  <1>1. pending = <<>>
    BY DEF StopPhases, AllExited
  <1>2. \A w \in Workers : carrying[w] = NoEntry
    BY DEF TypeOK, AllExited
  <1> QED
    BY <1>1, <1>2 DEF PendingJobs, CarriedJobs, NoEntry

LEMMA FreeConserves ==
  ASSUME TypeOK, StopPhases, JobsConserved, AllExited, FreeManager
  PROVE  JobsConserved'
  <1>1. PendingJobs = {} /\ CarriedJobs = {}
    BY NothingLeft
  <1>2. /\ pending' = <<>> /\ completed' = [c \in Channels |-> <<>>]
        /\ discarded' = discarded \cup CompletedJobsOfAll
        /\ UNCHANGED <<carrying, accepted, taken, dropped>>
    BY DEF FreeManager, threads, CompletedJobsOfAll, CompletedJobs
  <1>3. DOMAIN pending' = {} /\ \A c \in Channels : DOMAIN completed'[c] = {}
    BY <1>2
  <1>4. PendingJobs' = {} /\ CarriedJobs' = {} /\ CompletedJobsOfAll' = {}
        /\ Gone' = Gone \cup CompletedJobsOfAll
    <2>1. PendingJobs' = {}
      BY <1>3 DEF PendingJobs
    <2>2. CarriedJobs' = {}
      BY <1>1, <1>2 DEF CarriedJobs
    <2>3. \A c \in Channels : CompletedJobs(c)' = {}
      BY <1>3 DEF CompletedJobs
    <2>4. CompletedJobsOfAll' = {}
      BY <2>3 DEF CompletedJobsOfAll
    <2>5. Gone' = Gone \cup CompletedJobsOfAll
      BY <1>2 DEF Gone
    <2> QED
      BY <2>1, <2>2, <2>4, <2>5
  <1>5. NoJobTwice'
    BY <1>2, <1>3, <1>4 DEF JobsConserved, NoJobTwice
  <1>6. accepted' = PendingJobs' \cup CarriedJobs' \cup CompletedJobsOfAll' \cup Gone'
    BY <1>1, <1>2, <1>4 DEF JobsConserved
  <1>7. /\ taken' \cap dropped' = {} /\ taken' \cap discarded' = {}
        /\ dropped' \cap discarded' = {}
    BY <1>2 DEF JobsConserved, Gone
  <1> QED
    BY <1>4, <1>5, <1>6, <1>7 DEF JobsConserved

LEMMA OwnerConserves ==
  ASSUME TypeOK, StopPhases, JobsConserved, OwnerStep
  PROVE  JobsConserved'
  <1>1. CASE InitChannel \/ StopReturns
    BY <1>1, NothingMoves DEF InitChannel, StopReturns, rings, threads, history
  <1>2. CASE Destroy \/ \E drain \in BOOLEAN : Stop(drain)
    BY <1>2, BeginStopConserves DEF Destroy, Stop
  <1>3. CASE DestroyReturns \/ DestroyStopped
    <2>1. AllExited /\ FreeManager
      BY <1>3 DEF DestroyReturns, DestroyStopped, MayCall, StopPhases
    <2> QED
      BY <2>1, FreeConserves
  <1> QED
    BY <1>1, <1>2, <1>3 DEF OwnerStep

\* The inductive invariant: conservation needs to know that nothing is left
\* to do when the memory is freed, which is what the phases of a stop say.
Conserving == StopPhases /\ JobsConserved

LEMMA ConservingInvariant == Spec => []Conserving
  <1>1. Init => Conserving
    <2> SUFFICES ASSUME Init
                 PROVE  Conserving
      OBVIOUS
    <2>1. /\ DOMAIN pending = {} /\ \A c \in Channels : DOMAIN completed[c] = {}
          /\ \A w \in Workers : carrying[w].job = NoJob /\ wpc[w] = "loop"
      BY DEF Init, NoEntry
    <2>2. PendingJobs = {} /\ CarriedJobs = {} /\ CompletedJobsOfAll = {} /\ Gone = {}
      BY <2>1 DEF PendingJobs, CarriedJobs, CompletedJobsOfAll, CompletedJobs, Gone, Init
    <2>3. NoJobTwice
      BY <2>1, <2>2 DEF NoJobTwice
    <2>4. JobsConserved
      BY <2>2, <2>3 DEF JobsConserved, Init
    <2>5. StopPhases
      BY <2>1 DEF StopPhases, Init
    <2> QED
      BY <2>4, <2>5 DEF Conserving
  <1>2. TypeOK /\ Conserving /\ [Next]_vars => Conserving'
    <2> SUFFICES ASSUME TypeOK, StopPhases, JobsConserved, [Next]_vars
                 PROVE  StopPhases' /\ JobsConserved'
      BY DEF Conserving
    <2>1. CASE \E x \in Clients : ClientStep(x)
      BY <2>1, ClientPhases, ClientConserves
    <2>2. CASE \E w \in Workers : WorkerStep(w)
      BY <2>2, WorkerPhases, WorkerConserves
    <2>3. CASE OwnerStep
      BY <2>3, OwnerPhases, OwnerConserves
    <2>4. CASE SpuriousWakeup
      <3>1. JobsConserved'
        BY <2>4, NothingMoves DEF SpuriousWakeup, rings, threads, history
      <3>2. /\ UNCHANGED <<rings, modes, threads, calls, history>>
            /\ hasJobs' \subseteq hasJobs
        BY <2>4 DEF SpuriousWakeup
      <3>3. StopPhases'
        BY <3>2 DEF rings, modes, threads, calls, history, StopPhases, AllExited
      <3> QED
        BY <3>1, <3>3
    <2>5. CASE UNCHANGED vars
      <3>1. JobsConserved'
        BY <2>5, NothingMoves DEF vars, rings, threads, history
      <3>2. StopPhases'
        BY <2>5 DEF vars, rings, modes, threads, conds, calls, history, StopPhases, AllExited
      <3> QED
        BY <3>1, <3>2
    <2> QED
      BY <2>1, <2>2, <2>3, <2>4, <2>5 DEF Next
  <1> QED
    BY <1>1, <1>2, TypeCorrect, PTL DEF Spec

\* However many workers, clients, channels and jobs there are and however
\* they interleave, an accepted job is in exactly one place: nothing is
\* executed twice, handed back twice or lost on the way.
THEOREM Conservation == Spec => []JobsConserved
  BY ConservingInvariant, PTL DEF Conserving

\* The manager's memory is not freed while a worker is left, a worker leaves
\* only when nothing is or will be pending, and none sleeps through a stop.
THEOREM Phases == Spec => []StopPhases
  BY ConservingInvariant, PTL DEF Conserving

\* When the workers have left, a draining stop has lost nothing.
THEOREM Drained == Spec => []StopDrains
  <1>1. TypeOK /\ Conserving => StopDrains
    <2> SUFFICES ASSUME TypeOK, StopPhases, JobsConserved
                 PROVE  StopDrains
      BY DEF Conserving
    <2>1. ASSUME AllExited
          PROVE  /\ pending = <<>>
                 /\ drainMode => dropped = {}
                 /\ accepted = CompletedJobsOfAll \cup Gone
      BY <2>1, NothingLeft DEF StopPhases, JobsConserved
    <2>2. freed => AllExited
      BY DEF StopPhases
    <2> QED
      BY <2>1, <2>2 DEF StopDrains
  <1> QED
    BY <1>1, ConservingInvariant, TypeCorrect, PTL

------------------------------------------------------------------------------
(***************************************************************************)
(* JobManager implements JobLifecycle, for all constants.  Conservation    *)
(* puts each job in one place, which is its status; each step moves one    *)
(* job, or one job out of a worker and the next one into it, or all the    *)
(* jobs of a place at once.                                                *)
(***************************************************************************)

\* The place of a job is its status.
LEMMA StatusIsPlace ==
  ASSUME JobsConserved, NEW j \in Jobs
  PROVE  /\ StatusOf(j) = "new" <=> j \notin accepted
         /\ StatusOf(j) = "queued" <=> j \in PendingJobs
         /\ StatusOf(j) = "running" <=> j \in CarriedJobs
         /\ StatusOf(j) = "done" <=> j \in CompletedJobsOfAll
  BY DEF JobsConserved, NoJobTwice, StatusOf, Gone

\* A step that leaves every place as it was.
LEMMA SameStatus ==
  ASSUME UNCHANGED <<PendingJobs, CarriedJobs, CompletedJobsOfAll, accepted, taken, dropped>>
  PROVE  \A j \in Jobs : StatusOf(j)' = StatusOf(j)
  BY DEF StatusOf

LEMMA SamePlaces ==
  ASSUME UNCHANGED <<pending, carrying, completed>>
  PROVE  UNCHANGED <<PendingJobs, CarriedJobs, CompletedJobsOfAll>>
  BY DEF PendingJobs, CarriedJobs, CompletedJobsOfAll, CompletedJobs

LEMMA SubmitAccepts ==
  ASSUME TypeOK, JobsConserved, NEW x \in Clients, NEW j \in Jobs, NEW c \in Channels,
         Submit(x, j, c)
  PROVE  Lifecycle!Accept(j)
  <1> DEFINE e == [job |-> j, channel |-> c]
             n == Len(pending) + 1
  <1>1. e \in Entries /\ e.job = j
    BY DEF Entries
  <1>2. /\ DOMAIN pending' = DOMAIN pending \cup {n}
        /\ pending'[n] = e /\ n \notin DOMAIN pending
        /\ \A i \in DOMAIN pending : pending'[i] = pending[i]
    BY <1>1, AppendFacts DEF TypeOK, Submit
  <1> HIDE DEF e, n
  <1>3. PendingJobs' = PendingJobs \cup {j}
    BY <1>1, <1>2 DEF PendingJobs
  <1>4. UNCHANGED <<carrying, completed, taken, dropped>>
        /\ accepted' = accepted \cup {j} /\ j \notin accepted
    BY DEF Submit, threads
  <1>5. CarriedJobs' = CarriedJobs /\ CompletedJobsOfAll' = CompletedJobsOfAll
    BY <1>4 DEF CarriedJobs, CompletedJobsOfAll, CompletedJobs
  <1>6. \A k \in Jobs : StatusOf(k)' = IF k = j THEN "queued" ELSE StatusOf(k)
    BY <1>3, <1>4, <1>5 DEF StatusOf
  <1>7. StatusOf(j) = "new"
    BY <1>4 DEF StatusOf
  <1> QED
    BY <1>6, <1>7 DEF Lifecycle!Accept, Lifecycle!Move

LEMMA TakeTakes ==
  ASSUME TypeOK, JobsConserved, NEW c \in Channels, TakeCompleted(c),
         UNCHANGED <<pending, carrying, accepted, dropped>>
  PROVE  \E j \in Jobs : Lifecycle!Take(j)
  <1> DEFINE h == Head(completed[c])
  <1>1. /\ h \in CompletedJobsOfAll
        /\ CompletedJobsOfAll' = CompletedJobsOfAll \ {h}
        /\ taken' = taken \cup {h}
    BY TakeCompletedJobs DEF TakeCompleted, JobsConserved, NoJobTwice, CompletedOnce
  <1>2. h \in Jobs
    BY TailFacts DEF TypeOK, TakeCompleted
  <1> HIDE DEF h
  <1>3. PendingJobs' = PendingJobs /\ CarriedJobs' = CarriedJobs
    BY DEF PendingJobs, CarriedJobs
  <1>4. h \in accepted /\ h \notin PendingJobs /\ h \notin CarriedJobs
    BY <1>1 DEF JobsConserved, NoJobTwice
  <1>5. \A k \in Jobs : StatusOf(k)' = IF k = h THEN "taken" ELSE StatusOf(k)
    BY <1>1, <1>3, <1>4 DEF StatusOf
  <1>6. StatusOf(h) = "done"
    BY <1>1, <1>2, StatusIsPlace
  <1>7. Lifecycle!Take(h)
    BY <1>2, <1>5, <1>6 DEF Lifecycle!Take, Lifecycle!Move
  <1> QED
    BY <1>2, <1>7

LEMMA LoopStarts ==
  ASSUME TypeOK, JobsConserved, NEW w \in Workers, WorkerLoop(w)
  PROVE  \/ \A j \in Jobs : StatusOf(j)' = StatusOf(j)
         \/ \E j \in Jobs : Lifecycle!Start(j)
  <1>1. /\ UNCHANGED <<completed, accepted, taken, dropped>>
        /\ carrying[w].job = NoJob /\ NoJob \notin CarriedJobs
        /\ PendingJobs \subseteq Jobs
        /\ NoJobTwice
    BY PendingJobsType
    DEF WorkerLoop, history, TypeOK, NoEntry, CarriedJobs, JobsConserved
  <1>2. CompletedJobsOfAll' = CompletedJobsOfAll
    BY <1>1 DEF CompletedJobsOfAll, CompletedJobs
  <1>3. CarriedJobs \ {carrying[w].job} = CarriedJobs
    BY <1>1
  <1>4. CASE PendingJobs' = PendingJobs /\ CarriedJobs' = CarriedJobs
    BY <1>1, <1>2, <1>4, SameStatus
  <1>5. ASSUME NEW h \in PendingJobs,
               PendingJobs' = PendingJobs \ {h}, CarriedJobs' = CarriedJobs \cup {h}
        PROVE  \E j \in Jobs : Lifecycle!Start(j)
    <2>1. h \in Jobs /\ h \in accepted
      BY <1>1 DEF JobsConserved
    <2>2. \A k \in Jobs : StatusOf(k)' = IF k = h THEN "running" ELSE StatusOf(k)
      BY <1>1, <1>2, <1>5, <2>1 DEF StatusOf
    <2>3. StatusOf(h) = "queued"
      BY <2>1, StatusIsPlace
    <2>4. Lifecycle!Start(h)
      BY <2>1, <2>2, <2>3 DEF Lifecycle!Start, Lifecycle!Move
    <2> QED
      BY <2>1, <2>4
  <1> QED
    BY <1>1, <1>3, <1>4, <1>5, LoopTopJobs DEF WorkerLoop

LEMMA PushFinishes ==
  ASSUME TypeOK, JobsConserved, NEW w \in Workers, PushCompleted(w)
  PROVE  \/ \E j \in Jobs : Lifecycle!Finish(j)
         \/ \E j, k \in Jobs : Lifecycle!FinishAndStart(j, k)
  <1> DEFINE j == carrying[w].job
             c == carrying[w].channel
  <1>1. j \in Jobs /\ c \in Channels /\ j \in CarriedJobs
    BY BusyCarries DEF PushCompleted, CarriedJobs
  <1>2. completed' = [completed EXCEPT ![c] = Append(@, j)]
    BY DEF PushCompleted
  <1>3. j \notin CompletedJobsOfAll /\ j \notin PendingJobs /\ j \in accepted
        /\ NoJobTwice /\ CompletedOnce
    BY <1>1 DEF JobsConserved, NoJobTwice, CompletedOnce
  <1>4. CompletedJobsOfAll' = CompletedJobsOfAll \cup {j}
    BY <1>1, <1>2, <1>3, PushCompletedJobs
  <1>5. UNCHANGED <<accepted, taken, dropped>>
    BY DEF PushCompleted, history
  <1>6. PendingJobs \subseteq Jobs /\ PendingJobs \subseteq accepted
        /\ PendingJobs \cap CompletedJobsOfAll = {} /\ PendingJobs \cap CarriedJobs = {}
    BY PendingJobsType DEF JobsConserved, NoJobTwice
  <1>7. StatusOf(j) = "running"
    BY <1>1, StatusIsPlace
  <1>8. CASE PendingJobs' = PendingJobs /\ CarriedJobs' = CarriedJobs \ {j}
    <2> PICK i \in Jobs : i = j
      BY <1>1
    <2>1. \A k \in Jobs : StatusOf(k)' = IF k = i THEN "done" ELSE StatusOf(k)
      BY <1>3, <1>4, <1>5, <1>8 DEF StatusOf
    <2>2. Lifecycle!Finish(i)
      BY <1>7, <2>1 DEF Lifecycle!Finish, Lifecycle!Move
    <2> QED
      BY <2>2
  <1>9. ASSUME NEW h \in PendingJobs,
               PendingJobs' = PendingJobs \ {h}, CarriedJobs' = (CarriedJobs \ {j}) \cup {h}
        PROVE  \E i, k \in Jobs : Lifecycle!FinishAndStart(i, k)
    <2> PICK i \in Jobs : i = j
      BY <1>1
    <2>1. h \in Jobs /\ h # i
      BY <1>3, <1>6
    <2>2. \A k \in Jobs : StatusOf(k)' = IF k = i THEN "done"
                                         ELSE IF k = h THEN "running" ELSE StatusOf(k)
      BY <1>3, <1>4, <1>5, <1>6, <1>9, <2>1 DEF StatusOf
    <2>3. StatusOf(h) = "queued"
      BY <2>1, StatusIsPlace
    <2>4. Lifecycle!FinishAndStart(i, h)
      BY <1>7, <2>1, <2>2, <2>3 DEF Lifecycle!FinishAndStart
    <2> QED
      BY <2>1, <2>4
  <1> QED
    BY <1>3, <1>8, <1>9, LoopTopJobs DEF PushCompleted
\* Either nothing pending is lost or all of it is.
LEMMA StopDrops ==
  ASSUME TypeOK, JobsConserved, NEW drain \in BOOLEAN, BeginStop(drain)
  PROVE  \/ \A j \in Jobs : StatusOf(j)' = StatusOf(j)
         \/ Lifecycle!DropQueued
  <1>1. UNCHANGED <<completed, carrying, accepted, taken>>
    BY DEF BeginStop, threads
  <1>2. CarriedJobs' = CarriedJobs /\ CompletedJobsOfAll' = CompletedJobsOfAll
    BY <1>1 DEF CarriedJobs, CompletedJobsOfAll, CompletedJobs
  <1>3. CASE drain
    <2>1. UNCHANGED <<pending, dropped>>
      BY <1>3 DEF BeginStop, DropUnlessDraining
    <2>2. PendingJobs' = PendingJobs
      BY <2>1 DEF PendingJobs
    <2> QED
      BY <1>1, <1>2, <2>1, <2>2, SameStatus
  <1>4. CASE ~drain
    <2>1. pending' = <<>> /\ dropped' = dropped \cup PendingJobs
      BY <1>4 DEF BeginStop, DropUnlessDraining
    <2>2. PendingJobs' = {}
      BY <2>1 DEF PendingJobs
    <2>3. \A j \in Jobs : StatusOf(j) = "queued" <=> j \in PendingJobs
      BY StatusIsPlace
    <2>4. /\ PendingJobs \cap CarriedJobs = {}
          /\ PendingJobs \cap CompletedJobsOfAll = {}
          /\ PendingJobs \cap taken = {} /\ PendingJobs \subseteq accepted
      BY DEF JobsConserved, NoJobTwice, Gone
    <2>5. \A j \in Jobs : StatusOf(j)' =
            IF StatusOf(j) = "queued" THEN "dropped" ELSE StatusOf(j)
      BY <1>1, <1>2, <2>1, <2>2, <2>3, <2>4 DEF StatusOf
    <2> QED
      BY <2>5 DEF Lifecycle!DropQueued, Lifecycle!MoveAll
  <1> QED
    BY <1>3, <1>4

\* What is freed with the manager was executed, and only that.
LEMMA FreeDiscards ==
  ASSUME TypeOK, JobsConserved, StopPhases, AllExited, FreeManager
  PROVE  Lifecycle!DiscardDone
  <1>1. PendingJobs = {} /\ CarriedJobs = {}
    BY NothingLeft
  <1>2. UNCHANGED <<carrying, accepted, taken, dropped>> /\ pending' = <<>>
        /\ completed' = [c \in Channels |-> <<>>]
    BY DEF FreeManager, threads
  <1>3. CarriedJobs' = {} /\ PendingJobs' = {} /\ CompletedJobsOfAll' = {}
    BY <1>1, <1>2 DEF CarriedJobs, PendingJobs, CompletedJobsOfAll, CompletedJobs
  <1>4. CompletedJobsOfAll \cap (taken \cup dropped) = {}
        /\ CompletedJobsOfAll \subseteq accepted
    BY DEF JobsConserved, Gone
  <1>5. \A j \in Jobs : /\ StatusOf(j) = "queued" <=> j \in PendingJobs
                        /\ StatusOf(j) = "running" <=> j \in CarriedJobs
                        /\ StatusOf(j) = "done" <=> j \in CompletedJobsOfAll
    BY StatusIsPlace
  <1>6. \A j \in Jobs : StatusOf(j)' =
          IF StatusOf(j) = "done" THEN "discarded" ELSE StatusOf(j)
    BY <1>1, <1>2, <1>3, <1>4, <1>5 DEF StatusOf
  <1> QED
    BY <1>1, <1>5, <1>6 DEF Lifecycle!DiscardDone, Lifecycle!MoveAll

LEMMA OwnerImplements ==
  ASSUME TypeOK, JobsConserved, StopPhases, OwnerStep
  PROVE  \/ \A j \in Jobs : StatusOf(j)' = StatusOf(j)
         \/ Lifecycle!DropQueued
         \/ Lifecycle!DiscardDone
  <1>1. CASE InitChannel \/ StopReturns
    <2>1. UNCHANGED <<pending, completed, carrying, accepted, taken, dropped>>
      BY <1>1 DEF InitChannel, StopReturns, rings, threads, history
    <2> QED
      BY <2>1, SamePlaces, SameStatus
  <1>2. ASSUME NEW drain \in BOOLEAN, Stop(drain)
        PROVE  (\A j \in Jobs : StatusOf(j)' = StatusOf(j)) \/ Lifecycle!DropQueued
    BY <1>2, StopDrops DEF Stop
  <1>3. CASE Destroy
    BY <1>3, StopDrops DEF Destroy
  <1>4. CASE DestroyReturns \/ DestroyStopped
    <2>1. AllExited /\ FreeManager
      BY <1>4 DEF DestroyReturns, DestroyStopped, MayCall, StopPhases
    <2> QED
      BY <2>1, FreeDiscards
  <1> QED
    BY <1>1, <1>2, <1>3, <1>4 DEF OwnerStep

LEMMA ClientImplements ==
  ASSUME TypeOK, JobsConserved, NEW x \in Clients, ClientStep(x)
  PROVE  \/ \A j \in Jobs : StatusOf(j)' = StatusOf(j)
         \/ \E j \in Jobs : Lifecycle!Accept(j) \/ Lifecycle!Take(j)
  <1>1. ASSUME NEW j \in Jobs, NEW c \in Channels, Submit(x, j, c)
        PROVE  Lifecycle!Accept(j)
    BY <1>1, SubmitAccepts
  <1>2. ASSUME NEW c \in Channels, PopCompleted(x, c)
        PROVE  \E j \in Jobs : Lifecycle!Take(j)
    BY <1>2, TakeTakes DEF PopCompleted, threads
  <1>3. ASSUME NEW c \in Channels, PopCompletedWait(x, c)
        PROVE  \/ \A j \in Jobs : StatusOf(j)' = StatusOf(j)
               \/ \E j \in Jobs : Lifecycle!Take(j)
    <2>1. UNCHANGED <<pending, carrying, accepted, dropped>>
      BY <1>3 DEF PopCompletedWait, threads
    <2>2. CASE TakeCompleted(c)
      BY <2>1, <2>2, TakeTakes
    <2>3. CASE UNCHANGED <<completed, taken>>
      BY <2>1, <2>3, SamePlaces, SameStatus
    <2> QED
      BY <1>3, <2>2, <2>3 DEF PopCompletedWait
  <1> QED
    BY <1>1, <1>2, <1>3 DEF ClientStep

LEMMA WorkerImplements ==
  ASSUME TypeOK, JobsConserved, NEW w \in Workers, WorkerStep(w)
  PROVE  \/ \A j \in Jobs : StatusOf(j)' = StatusOf(j)
         \/ \E j \in Jobs : Lifecycle!Start(j) \/ Lifecycle!Finish(j)
         \/ \E j, k \in Jobs : Lifecycle!FinishAndStart(j, k)
  <1>1. CASE JobReturns(w) \/ WaitForRoom(w)
    <2>1. UNCHANGED <<pending, completed, carrying, accepted, taken, dropped>>
      BY <1>1 DEF JobReturns, WaitForRoom, rings, threads, history
    <2> QED
      BY <2>1, SamePlaces, SameStatus
  <1> QED
    BY <1>1, LoopStarts, PushFinishes DEF WorkerStep

\* Whatever the threads do, each job goes through the life JobLifecycle
\* promises: accepted, started, finished and taken once each, and lost only to
\* a stop that does not drain or to the end of the manager.
THEOREM JobManagerImplementsLifecycle == Spec => ImplementsLifecycle
  <1>1. Init => Lifecycle!Init
    BY DEF Init, Lifecycle!Init, StatusOf
  <1>2. TypeOK /\ Conserving /\ [Next]_vars
          => [Lifecycle!Next]_([j \in Jobs |-> StatusOf(j)])
    <2> SUFFICES ASSUME TypeOK, StopPhases, JobsConserved, [Next]_vars
                 PROVE  \/ \A j \in Jobs : StatusOf(j)' = StatusOf(j)
                        \/ Lifecycle!Next
      BY DEF Conserving
    <2>1. CASE \E x \in Clients : ClientStep(x)
      BY <2>1, ClientImplements DEF Lifecycle!Next
    <2>2. CASE \E w \in Workers : WorkerStep(w)
      BY <2>2, WorkerImplements DEF Lifecycle!Next
    <2>3. CASE OwnerStep
      BY <2>3, OwnerImplements DEF Lifecycle!Next
    <2>4. CASE SpuriousWakeup \/ UNCHANGED vars
      <3>1. UNCHANGED <<pending, completed, carrying, accepted, taken, dropped>>
        BY <2>4 DEF SpuriousWakeup, vars, rings, threads, history
      <3> QED
        BY <3>1, SamePlaces, SameStatus
    <2> QED
      BY <2>1, <2>2, <2>3, <2>4 DEF Next
  <1> QED
    BY <1>1, <1>2, TypeCorrect, ConservingInvariant, PTL
    DEF Spec, Lifecycle!Spec, ImplementsLifecycle

------------------------------------------------------------------------------
(* No signal is lost: although each uv_cond_signal wakes one thread only, a *)
(* thread never sleeps while there are more jobs, free slots or completed  *)
(* jobs than threads on their way to them.                                 *)

\* The cardinality of a set of threads, of a smaller one and of one that lost
\* or gained a thread.
LEMMA ThreadCount ==
  ASSUME NEW T, IsFiniteSet(T), NEW S \in SUBSET T
  PROVE  /\ IsFiniteSet(S)
         /\ Cardinality(S) \in Nat
         /\ \A R \in SUBSET S : Cardinality(R) \in Nat /\ Cardinality(R) <= Cardinality(S)
         /\ \A t \in T \ S : Cardinality(S \cup {t}) = Cardinality(S) + 1
         /\ \A t \in S : Cardinality(S \ {t}) = Cardinality(S) - 1
         /\ Cardinality(S) > 0 => S # {}
  <1>1. IsFiniteSet(S)
    BY FS_Subset
  <1>2. Cardinality(S) \in Nat
    BY <1>1, FS_CardinalityType
  <1>3. ASSUME NEW R \in SUBSET S
        PROVE  Cardinality(R) \in Nat /\ Cardinality(R) <= Cardinality(S)
    BY <1>1, FS_Subset, FS_CardinalityType
  <1>4. ASSUME NEW t \in T \ S
        PROVE  Cardinality(S \cup {t}) = Cardinality(S) + 1
    BY <1>1, FS_AddElement
  <1>5. ASSUME NEW t \in S
        PROVE  Cardinality(S \ {t}) = Cardinality(S) - 1
    BY <1>1, FS_RemoveElement
  <1>6. Cardinality(S) > 0 => S # {}
    BY FS_EmptySet
  <1> QED
    BY <1>1, <1>2, <1>3, <1>4, <1>5, <1>6

\* What uv_cond_signal does to the sleepers.
LEMMA SignalFacts ==
  ASSUME NEW sleepers, NEW left \in Signal(sleepers)
  PROVE  left = {} \/ \E t \in sleepers : left = sleepers \ {t}
  BY DEF Signal

LEMMA AwakeTypes ==
  /\ AwakeForJobs \in SUBSET Workers
  /\ \A c \in Channels : AwakeForRoom(c) \in SUBSET Workers
  /\ \A c \in Channels : AwakeForCompleted(c) \in SUBSET Clients
  BY DEF AwakeForJobs, AwakeForRoom, AwakeForCompleted

------------------------------------------------------------------------------
(* m_has_jobs.                                                             *)

\* Nobody who was awake fell asleep and no job came.
LEMMA JobSignalKept ==
  ASSUME TypeOK, TypeOK', NoLostJobSignal,
         hasJobs' # {} => hasJobs # {},
         AwakeForJobs \subseteq AwakeForJobs',
         Len(pending') <= Len(pending)
  PROVE  NoLostJobSignal'
  <1>1. AwakeForJobs' \in SUBSET Workers
    BY AwakeTypes DEF AwakeForJobs
  <1>2. Cardinality(AwakeForJobs) <= Cardinality(AwakeForJobs')
        /\ Cardinality(AwakeForJobs) \in Nat /\ Cardinality(AwakeForJobs') \in Nat
    BY <1>1, ThreadCount
  <1>3. Len(pending) \in Nat /\ Len(pending') \in Nat
    BY DEF TypeOK
  <1> QED
    BY <1>2, <1>3 DEF NoLostJobSignal

LEMMA NothingPendingKept ==
  ASSUME pending' = <<>>
  PROVE  NoLostJobSignal'
  <1>1. AwakeForJobs' \in SUBSET Workers
    BY DEF AwakeForJobs
  <1>2. Cardinality(AwakeForJobs') >= 0
    BY <1>1, ThreadCount
  <1> QED
    BY <1>2 DEF NoLostJobSignal

LEMMA SubmitKeepsJobSignal ==
  ASSUME TypeOK, TypeOK', NoLostJobSignal, NEW x \in Clients, NEW j \in Jobs,
         NEW c \in Channels, Submit(x, j, c)
  PROVE  NoLostJobSignal'
  <1>1. wpc' = wpc /\ hasJobs' \in Signal(hasJobs)
    BY DEF Submit, WakeWorker, threads
  <1>2. Len(pending') = Len(pending) + 1 /\ Len(pending) \in Nat
    <2>1. [job |-> j, channel |-> c] \in Entries
      BY DEF Entries
    <2> QED
      BY <2>1, AppendFacts DEF Submit, TypeOK
  <1>3. CASE hasJobs' = {}
    BY <1>3 DEF NoLostJobSignal
  <1>4. CASE hasJobs' # {}
    <2>1. PICK t \in hasJobs : hasJobs' = hasJobs \ {t}
      BY <1>1, <1>4, SignalFacts
    <2>2. t \in Workers \ AwakeForJobs /\ AwakeForJobs' = AwakeForJobs \cup {t}
      BY <1>1, <2>1 DEF AwakeForJobs, TypeOK
    <2>3. Cardinality(AwakeForJobs') = Cardinality(AwakeForJobs) + 1
          /\ Cardinality(AwakeForJobs) \in Nat
      BY <2>2, AwakeTypes, ThreadCount
    <2> QED
      BY <1>2, <2>1, <2>3 DEF NoLostJobSignal
  <1> QED
    BY <1>3, <1>4

LEMMA WorkerKeepsJobSignal ==
  ASSUME TypeOK, TypeOK', NoLostJobSignal, NEW w \in Workers, WorkerStep(w)
  PROVE  NoLostJobSignal'
  <1>0. wpc \in [Workers -> {"loop", "run", "push", "exit"}]
    BY DEF TypeOK
  <1>1. CASE JobReturns(w) \/ WaitForRoom(w)
    <2>1. AwakeForJobs' = AwakeForJobs
      BY <1>0, <1>1 DEF JobReturns, WaitForRoom, threads, conds, AwakeForJobs
    <2>2. pending' = pending /\ hasJobs' = hasJobs
      BY <1>1 DEF JobReturns, WaitForRoom, rings, conds
    <2> QED
      BY <2>1, <2>2, JobSignalKept DEF TypeOK
  <1>2. CASE WorkerLoop(w) \/ PushCompleted(w)
    <2>1. LoopTop(w)
      BY <1>2 DEF WorkerLoop, PushCompleted
    <2>2. CASE pending = <<>> /\ pending' = pending
      BY <2>2, NothingPendingKept
    <2>3. CASE /\ pending # <<>>
               /\ pending' = PendingAfterPop
               /\ wpc' = [wpc EXCEPT ![w] = "run"]
               /\ UNCHANGED hasJobs
      <3>1. Len(pending') = Len(pending) - 1 /\ Len(pending) \in Nat
        BY <2>3, TailFacts DEF PendingAfterPop, TypeOK
      <3>2. AwakeForJobs' = AwakeForJobs \ {w}
        BY <1>0, <2>3 DEF AwakeForJobs
      <3>3. Cardinality(AwakeForJobs') >= Cardinality(AwakeForJobs) - 1
            /\ Cardinality(AwakeForJobs) \in Nat /\ Cardinality(AwakeForJobs') \in Nat
        <4>1. CASE w \in AwakeForJobs
          BY <3>2, <4>1, AwakeTypes, ThreadCount
        <4>2. CASE w \notin AwakeForJobs
          <5>1. AwakeForJobs' = AwakeForJobs
            BY <3>2, <4>2
          <5> QED
            BY <5>1, AwakeTypes, ThreadCount
        <4> QED
          BY <4>1, <4>2
      <3> QED
        BY <2>3, <3>1, <3>3 DEF NoLostJobSignal
    <2> QED
      BY <2>1, <2>2, <2>3 DEF LoopTop, MayExit
  <1> QED
    BY <1>1, <1>2 DEF WorkerStep

\* A worker never sleeps in m_has_jobs while more jobs are pending than
\* workers are on their way to the pending ring.
THEOREM NoJobSignalLost == Spec => []NoLostJobSignal
  <1>1. Init => NoLostJobSignal
    BY DEF Init, NoLostJobSignal
  <1>2. TypeOK /\ TypeOK' /\ NoLostJobSignal /\ [Next]_vars => NoLostJobSignal'
    <2> SUFFICES ASSUME TypeOK, TypeOK', NoLostJobSignal, [Next]_vars
                 PROVE  NoLostJobSignal'
      OBVIOUS
    <2>0. ASSUME pending' = pending, wpc' = wpc, hasJobs' \subseteq hasJobs
          PROVE  NoLostJobSignal'
      <3>1. AwakeForJobs \subseteq AwakeForJobs'
        BY <2>0 DEF AwakeForJobs
      <3>2. Len(pending') <= Len(pending)
        BY <2>0 DEF TypeOK
      <3> QED
        BY <2>0, <3>1, <3>2, JobSignalKept
    <2>1. ASSUME NEW x \in Clients, ClientStep(x)
          PROVE  NoLostJobSignal'
      <3>1. CASE \E j \in Jobs, c \in Channels : Submit(x, j, c)
        BY <3>1, SubmitKeepsJobSignal
      <3>2. CASE \E c \in Channels : PopCompleted(x, c) \/ PopCompletedWait(x, c)
        BY <2>0, <3>2 DEF PopCompleted, PopCompletedWait, threads
      <3> QED
        BY <2>1, <3>1, <3>2 DEF ClientStep
    <2>2. CASE \E w \in Workers : WorkerStep(w)
      BY <2>2, WorkerKeepsJobSignal
    <2>3. CASE OwnerStep
      <3>1. CASE InitChannel \/ StopReturns
        BY <2>0, <3>1 DEF InitChannel, StopReturns, rings, threads, conds
      <3>2. CASE Destroy \/ \E drain \in BOOLEAN : Stop(drain)
        BY <3>2 DEF Destroy, Stop, BeginStop, WakeEverybody, NoLostJobSignal
      <3>3. CASE DestroyReturns \/ DestroyStopped
        BY <3>3, NothingPendingKept DEF DestroyReturns, DestroyStopped, FreeManager
      <3> QED
        BY <2>3, <3>1, <3>2, <3>3 DEF OwnerStep
    <2>4. CASE SpuriousWakeup
      <3>1. hasJobs' \subseteq hasJobs
        BY <2>4 DEF SpuriousWakeup
      <3> QED
        BY <2>0, <2>4, <3>1 DEF SpuriousWakeup, rings, threads
    <2>5. CASE UNCHANGED vars
      BY <2>0, <2>5 DEF vars, rings, threads, conds
    <2> QED
      BY <2>1, <2>2, <2>3, <2>4, <2>5 DEF Next
  <1> QED
    BY <1>1, <1>2, TypeCorrect, PTL DEF Spec

------------------------------------------------------------------------------
(* m_room_completed.                                                       *)

\* The condition for one channel.
RoomSignal(c) ==
  roomCompleted[c] # {} =>
    Cardinality(AwakeForRoom(c)) >= CompletedCapacity[c] - Len(completed[c])

LEMMA RoomSignalKept ==
  ASSUME TypeOK, TypeOK', NEW c \in Channels, RoomSignal(c),
         roomCompleted'[c] # {} => roomCompleted[c] # {},
         AwakeForRoom(c) \subseteq AwakeForRoom(c)',
         Len(completed'[c]) >= Len(completed[c])
  PROVE  RoomSignal(c)'
  <1>1. AwakeForRoom(c)' \in SUBSET Workers
    BY DEF AwakeForRoom
  <1>2. Cardinality(AwakeForRoom(c)) <= Cardinality(AwakeForRoom(c)')
        /\ Cardinality(AwakeForRoom(c)) \in Nat /\ Cardinality(AwakeForRoom(c)') \in Nat
    BY <1>1, ThreadCount
  <1>3. Len(completed[c]) \in Nat /\ Len(completed'[c]) \in Nat /\ CompletedCapacity[c] \in Nat
    BY DEF TypeOK
  <1> QED
    BY <1>2, <1>3 DEF RoomSignal

LEMMA TakeKeepsRoomSignal ==
  ASSUME TypeOK, TypeOK', NoLostRoomSignal, NEW c \in Channels, TakeCompleted(c),
         UNCHANGED <<wpc, carrying>>
  PROVE  NoLostRoomSignal'
  <1> SUFFICES ASSUME NEW d \in Channels
               PROVE  RoomSignal(d)'
    BY DEF NoLostRoomSignal, RoomSignal
  <1>1. RoomSignal(d)
    BY DEF NoLostRoomSignal, RoomSignal
  <1>2. /\ completed \in [Channels -> Seq(Jobs)]
        /\ roomCompleted \in [Channels -> SUBSET Workers]
    BY DEF TypeOK
  <1>3. PICK left \in Signal(roomCompleted[c]) : roomCompleted' = [roomCompleted EXCEPT ![c] = left]
    BY DEF TakeCompleted, WakePusher
  <1>4. CASE d # c
    <2>1. completed'[d] = completed[d] /\ roomCompleted'[d] = roomCompleted[d]
      BY <1>2, <1>3, <1>4 DEF TakeCompleted
    <2>2. AwakeForRoom(d)' = AwakeForRoom(d)
      BY <2>1 DEF AwakeForRoom
    <2> QED
      BY <1>1, <2>1, <2>2 DEF RoomSignal
  <1>5. CASE d = c /\ left = {}
    BY <1>2, <1>3, <1>5 DEF RoomSignal
  <1>6. CASE d = c /\ left # {}
    <2>1. PICK t \in roomCompleted[c] : left = roomCompleted[c] \ {t}
      BY <1>6, <1>3, SignalFacts
    <2>2. roomCompleted'[c] = roomCompleted[c] \ {t}
      BY <1>2, <1>3, <2>1
    <2>3. t \in Workers \ AwakeForRoom(c) /\ AwakeForRoom(c)' = AwakeForRoom(c) \cup {t}
      BY <1>2, <2>1, <2>2 DEF AwakeForRoom, TypeOK
    <2>4. Cardinality(AwakeForRoom(c)') = Cardinality(AwakeForRoom(c)) + 1
          /\ Cardinality(AwakeForRoom(c)) \in Nat
      BY <2>3, AwakeTypes, ThreadCount
    <2>5. completed[c] \in Seq(Jobs) /\ completed'[c] = Tail(completed[c]) /\ completed[c] # <<>>
      BY <1>2 DEF TakeCompleted
    <2>6. Len(completed'[c]) = Len(completed[c]) - 1 /\ Len(completed[c]) \in Nat
      BY <2>5, TailFacts
    <2>7. CompletedCapacity[c] \in Nat
      OBVIOUS
    <2> QED
      BY <1>1, <1>6, <2>1, <2>4, <2>6, <2>7 DEF RoomSignal
  <1> QED
    BY <1>4, <1>5, <1>6

LEMMA WorkerKeepsRoomSignal ==
  ASSUME TypeOK, TypeOK', NoLostRoomSignal, NEW w \in Workers, WorkerStep(w)
  PROVE  NoLostRoomSignal'
  <1> SUFFICES ASSUME NEW d \in Channels
               PROVE  RoomSignal(d)'
    BY DEF NoLostRoomSignal, RoomSignal
  <1>0. /\ RoomSignal(d)
        /\ wpc \in [Workers -> {"loop", "run", "push", "exit"}]
        /\ carrying \in [Workers -> Entries \cup {NoEntry}]
        /\ completed \in [Channels -> Seq(Jobs)]
        /\ roomCompleted \in [Channels -> SUBSET Workers]
        /\ Len(completed[d]) \in Nat /\ CompletedCapacity[d] \in Nat
    BY DEF NoLostRoomSignal, RoomSignal, TypeOK
  <1>1. CASE WorkerLoop(w)
    <2>1. AwakeForRoom(d) \subseteq AwakeForRoom(d)'
      BY <1>0, <1>1 DEF WorkerLoop, LoopTop, AwakeForRoom
    <2>2. UNCHANGED <<completed, roomCompleted>>
      BY <1>1 DEF WorkerLoop
    <2> QED
      BY <1>0, <2>1, <2>2, RoomSignalKept
  <1>2. CASE JobReturns(w)
    <2>1. AwakeForRoom(d) \subseteq AwakeForRoom(d)'
      BY <1>0, <1>2 DEF JobReturns, conds, AwakeForRoom
    <2>2. UNCHANGED <<completed, roomCompleted>>
      BY <1>2 DEF JobReturns, rings, conds
    <2> QED
      BY <1>0, <2>1, <2>2, RoomSignalKept
  <1>3. CASE WaitForRoom(w)
    <2> DEFINE c == carrying[w].channel
    <2>1. c \in Channels
      BY <1>3, BusyCarries DEF WaitForRoom
    <2>2. /\ roomCompleted' = [roomCompleted EXCEPT ![c] = @ \cup {w}]
          /\ Len(completed[c]) = CompletedCapacity[c]
          /\ UNCHANGED <<completed, wpc, carrying>>
      BY <1>3 DEF WaitForRoom, RingFull, rings, threads
    <2> HIDE DEF c
    <2>3. CASE d = c
      <3>1. AwakeForRoom(d)' \in SUBSET Workers
        BY DEF AwakeForRoom
      <3>2. Cardinality(AwakeForRoom(d)') >= 0
        BY <3>1, ThreadCount
      <3> QED
        BY <1>0, <2>2, <2>3, <3>2 DEF RoomSignal
    <2>4. CASE d # c
      <3>1. roomCompleted'[d] = roomCompleted[d]
        BY <1>0, <2>1, <2>2, <2>4
      <3>2. AwakeForRoom(d)' = AwakeForRoom(d)
        BY <2>2, <3>1 DEF AwakeForRoom
      <3> QED
        BY <1>0, <2>2, <3>1, <3>2 DEF RoomSignal
    <2> QED
      BY <2>3, <2>4
  <1>4. CASE PushCompleted(w)
    <2> DEFINE c == carrying[w].channel
    <2>1. c \in Channels /\ carrying[w].job \in Jobs
      BY <1>4, BusyCarries DEF PushCompleted
    <2>2. /\ completed' = [completed EXCEPT ![c] = Append(@, carrying[w].job)]
          /\ roomCompleted' = roomCompleted
          /\ wpc[w] = "push"
      BY <1>4 DEF PushCompleted
    <2>3. /\ \A v \in Workers : v # w => wpc'[v] = wpc[v] /\ carrying'[v] = carrying[v]
          /\ wpc'[w] # "push"
      BY <1>0, <1>4 DEF PushCompleted, LoopTop
    <2>4. AwakeForRoom(d)' = AwakeForRoom(d) \ {w}
      BY <2>2, <2>3 DEF AwakeForRoom
    <2>5. CASE d # c
      <3>1. w \notin AwakeForRoom(d)
        BY <2>5 DEF AwakeForRoom
      <3>2. AwakeForRoom(d)' = AwakeForRoom(d)
        BY <2>4, <3>1
      <3>3. completed'[d] = completed[d]
        BY <1>0, <2>1, <2>2, <2>5
      <3> QED
        BY <1>0, <2>2, <3>2, <3>3 DEF RoomSignal
    <2>6. CASE d = c
      <3>1. Len(completed'[d]) = Len(completed[d]) + 1
        BY <1>0, <2>1, <2>2, <2>6, AppendFacts
      <3>2. Cardinality(AwakeForRoom(d)') >= Cardinality(AwakeForRoom(d)) - 1
            /\ Cardinality(AwakeForRoom(d)) \in Nat /\ Cardinality(AwakeForRoom(d)') \in Nat
        <4>1. CASE w \in AwakeForRoom(d)
          BY <2>4, <4>1, AwakeTypes, ThreadCount
        <4>2. CASE w \notin AwakeForRoom(d)
          <5>1. AwakeForRoom(d)' = AwakeForRoom(d)
            BY <2>4, <4>2
          <5> QED
            BY <5>1, AwakeTypes, ThreadCount
        <4> QED
          BY <4>1, <4>2
      <3> QED
        BY <1>0, <2>2, <3>1, <3>2 DEF RoomSignal
    <2> QED
      BY <2>5, <2>6
  <1> QED
    BY <1>1, <1>2, <1>3, <1>4 DEF WorkerStep

\* A worker never sleeps in m_room_completed of a channel while the channel's
\* ring has more free slots than workers on their way to it.
THEOREM NoRoomSignalLost == Spec => []NoLostRoomSignal
  <1>1. Init => NoLostRoomSignal
    BY DEF Init, NoLostRoomSignal
  <1>2. TypeOK /\ TypeOK' /\ StopPhases /\ NoLostRoomSignal /\ [Next]_vars => NoLostRoomSignal'
    <2> SUFFICES ASSUME TypeOK, TypeOK', StopPhases, NoLostRoomSignal, [Next]_vars
                 PROVE  NoLostRoomSignal'
      OBVIOUS
    <2>0. ASSUME UNCHANGED <<completed, wpc, carrying>>,
                 \A c \in Channels : roomCompleted'[c] \subseteq roomCompleted[c]
          PROVE  NoLostRoomSignal'
      <3> SUFFICES ASSUME NEW c \in Channels
                   PROVE  RoomSignal(c)'
        BY DEF NoLostRoomSignal, RoomSignal
      <3>1. AwakeForRoom(c) \subseteq AwakeForRoom(c)' /\ RoomSignal(c)
        BY <2>0 DEF AwakeForRoom, NoLostRoomSignal, RoomSignal
      <3>2. Len(completed'[c]) >= Len(completed[c])
        BY <2>0 DEF TypeOK
      <3> QED
        BY <2>0, <3>1, <3>2, RoomSignalKept
    <2>1. ASSUME NEW x \in Clients, ClientStep(x)
          PROVE  NoLostRoomSignal'
      <3>1. ASSUME NEW j \in Jobs, NEW c \in Channels, Submit(x, j, c)
            PROVE  NoLostRoomSignal'
        BY <2>0, <3>1 DEF Submit, threads
      <3>2. ASSUME NEW c \in Channels, PopCompleted(x, c) \/ PopCompletedWait(x, c)
            PROVE  NoLostRoomSignal'
        <4>1. UNCHANGED <<wpc, carrying>>
          BY <3>2 DEF PopCompleted, PopCompletedWait, threads
        <4>2. CASE TakeCompleted(c)
          BY <4>1, <4>2, TakeKeepsRoomSignal
        <4>3. CASE ~TakeCompleted(c)
          <5>1. UNCHANGED <<completed, roomCompleted>>
            BY <3>2, <4>3 DEF PopCompleted, PopCompletedWait
          <5> QED
            BY <2>0, <4>1, <5>1
        <4> QED
          BY <4>2, <4>3
      <3> QED
        BY <2>1, <3>1, <3>2 DEF ClientStep
    <2>2. CASE \E w \in Workers : WorkerStep(w)
      BY <2>2, WorkerKeepsRoomSignal
    <2>3. CASE OwnerStep
      <3>1. CASE InitChannel \/ StopReturns
        BY <2>0, <3>1 DEF InitChannel, StopReturns, rings, threads, conds
      <3>2. CASE Destroy \/ \E drain \in BOOLEAN : Stop(drain)
        BY <3>2 DEF Destroy, Stop, BeginStop, WakeEverybody, NoLostRoomSignal
      <3>3. CASE DestroyReturns \/ DestroyStopped
        <4>1. AllExited
          BY <3>3 DEF DestroyReturns, DestroyStopped, StopPhases, MayCall
        <4>2. \A c \in Channels : roomCompleted[c] = {}
          BY <4>1 DEF AllExited, TypeOK
        <4>3. roomCompleted' = roomCompleted
          BY <3>3 DEF DestroyReturns, DestroyStopped, FreeManager, conds
        <4> QED
          BY <4>2, <4>3 DEF NoLostRoomSignal
      <3> QED
        BY <2>3, <3>1, <3>2, <3>3 DEF OwnerStep
    <2>4. CASE SpuriousWakeup
      <3>1. UNCHANGED <<completed, wpc, carrying>>
        BY <2>4 DEF SpuriousWakeup, rings, threads
      <3>2. roomCompleted \in [Channels -> SUBSET Workers]
        BY DEF TypeOK
      <3>3. \A c \in Channels : roomCompleted'[c] \subseteq roomCompleted[c]
        BY <2>4, <3>2 DEF SpuriousWakeup
      <3> QED
        BY <2>0, <3>1, <3>3
    <2>5. CASE UNCHANGED vars
      BY <2>0, <2>5 DEF vars, rings, threads, conds
    <2> QED
      BY <2>1, <2>2, <2>3, <2>4, <2>5 DEF Next
  <1> QED
    BY <1>1, <1>2, TypeCorrect, Phases, PTL DEF Spec

\* A stop or a destroy that waits although no thread can run waits for room in
\* a full completed ring: nothing else can hold it up.
THEOREM HeldUpOnlyByFullRing == Spec => []StopHeldUpOnlyByFullRing
  <1>1. TypeOK /\ StopPhases /\ NoLostRoomSignal => StopHeldUpOnlyByFullRing
    <2> SUFFICES ASSUME TypeOK, StopPhases, NoLostRoomSignal, owner # "free",
                        NEW w \in Workers, wpc[w] # "exit"
                 PROVE  \/ \E v \in Workers : wpc[v] \in {"loop", "run"} /\ v \notin hasJobs
                        \/ \E c \in Channels : AwakeForRoom(c) # {}
                        \/ \E c \in Channels : RingFull(c) /\ roomCompleted[c] # {}
      BY DEF StopHeldUpOnlyByFullRing, AllExited
    <2>1. CASE wpc[w] \in {"loop", "run"}
      BY <2>1 DEF StopPhases
    <2>2. CASE wpc[w] \notin {"loop", "run"}
      <3> DEFINE c == carrying[w].channel
      <3>1. wpc[w] = "push" /\ c \in Channels
        BY <2>2, BusyCarries DEF TypeOK
      <3>2. CASE w \notin roomCompleted[c]
        BY <3>1, <3>2 DEF AwakeForRoom
      <3>3. CASE w \in roomCompleted[c] /\ RingFull(c)
        BY <3>1, <3>3
      <3>4. CASE w \in roomCompleted[c] /\ ~RingFull(c)
        <4> HIDE DEF c
        <4>1. Len(completed[c]) \in Nat /\ Len(completed[c]) <= CompletedCapacity[c]
              /\ CompletedCapacity[c] \in Nat
          BY <3>1 DEF TypeOK
        <4>2. CompletedCapacity[c] - Len(completed[c]) > 0
          BY <3>4, <4>1 DEF RingFull
        <4>3. Cardinality(AwakeForRoom(c)) >= CompletedCapacity[c] - Len(completed[c])
          BY <3>1, <3>4 DEF NoLostRoomSignal
        <4>4. AwakeForRoom(c) \in SUBSET Workers
          BY <3>1, AwakeTypes
        <4>5. Cardinality(AwakeForRoom(c)) \in Nat
          BY <4>4, ThreadCount
        <4>6. Cardinality(AwakeForRoom(c)) > 0
          BY <4>1, <4>2, <4>3, <4>5
        <4>7. AwakeForRoom(c) # {}
          BY <4>4, <4>6, ThreadCount
        <4> QED
          BY <3>1, <4>7
      <3> QED
        BY <3>2, <3>3, <3>4
    <2> QED
      BY <2>1, <2>2
  <1> QED
    BY <1>1, TypeCorrect, Phases, NoRoomSignalLost, PTL

------------------------------------------------------------------------------
(* m_has_completed.                                                        *)

CompletedSignal(c) ==
  hasCompleted[c] # {} => Cardinality(AwakeForCompleted(c)) >= Len(completed[c])

LEMMA CompletedSignalKept ==
  ASSUME TypeOK, TypeOK', NEW c \in Channels, CompletedSignal(c),
         hasCompleted'[c] # {} => hasCompleted[c] # {},
         AwakeForCompleted(c) \subseteq AwakeForCompleted(c)',
         Len(completed'[c]) <= Len(completed[c])
  PROVE  CompletedSignal(c)'
  <1>1. AwakeForCompleted(c)' \in SUBSET Clients
    BY DEF AwakeForCompleted
  <1>2. Cardinality(AwakeForCompleted(c)) <= Cardinality(AwakeForCompleted(c)')
        /\ Cardinality(AwakeForCompleted(c)) \in Nat /\ Cardinality(AwakeForCompleted(c)') \in Nat
    BY <1>1, ThreadCount
  <1>3. Len(completed[c]) \in Nat /\ Len(completed'[c]) \in Nat
    BY DEF TypeOK
  <1> QED
    BY <1>2, <1>3 DEF CompletedSignal

LEMMA EmptyKeepsCompletedSignal ==
  ASSUME NEW c \in Channels, completed'[c] = <<>>
  PROVE  CompletedSignal(c)'
  <1>1. AwakeForCompleted(c)' \in SUBSET Clients
    BY DEF AwakeForCompleted
  <1>2. Cardinality(AwakeForCompleted(c)') >= 0
    BY <1>1, ThreadCount
  <1> QED
    BY <1>2 DEF CompletedSignal

\* One job was taken from c and at most one client that was awake for c left.
LEMMA TakeKeepsCompletedSignal ==
  ASSUME TypeOK, TypeOK', NoLostCompletedSignal, NEW c \in Channels, TakeCompleted(c),
         hasCompleted' = hasCompleted, NEW x,
         \A d \in Channels : AwakeForCompleted(d) \ {x} \subseteq AwakeForCompleted(d)',
         \A d \in Channels : d # c => AwakeForCompleted(d) \subseteq AwakeForCompleted(d)'
  PROVE  NoLostCompletedSignal'
  <1> SUFFICES ASSUME NEW d \in Channels
               PROVE  CompletedSignal(d)'
    BY DEF NoLostCompletedSignal, CompletedSignal
  <1>1. /\ CompletedSignal(d)
        /\ completed \in [Channels -> Seq(Jobs)]
        /\ completed' = [completed EXCEPT ![c] = Tail(@)]
        /\ completed[c] # <<>>
    BY DEF NoLostCompletedSignal, CompletedSignal, TypeOK, TakeCompleted
  <1>2. CASE d # c
    <2>1. completed'[d] = completed[d] /\ Len(completed[d]) \in Nat
      BY <1>1, <1>2
    <2>2. AwakeForCompleted(d) \subseteq AwakeForCompleted(d)'
      BY <1>2 DEF AwakeForCompleted
    <2>3. Len(completed'[d]) <= Len(completed[d])
      BY <2>1
    <2> QED
      BY <1>1, <2>2, <2>3, CompletedSignalKept
  <1>3. CASE d = c
    <2>1. completed[d] \in Seq(Jobs) /\ completed'[d] = Tail(completed[d])
      BY <1>1, <1>3
    <2>2. Len(completed'[d]) = Len(completed[d]) - 1 /\ Len(completed[d]) \in Nat
      BY <1>1, <1>3, <2>1, TailFacts
    <2> DEFINE A == AwakeForCompleted(d)
    <2>3. A \in SUBSET Clients /\ AwakeForCompleted(d)' \in SUBSET Clients
      BY DEF AwakeForCompleted
    <2>4. A \ {x} \in SUBSET AwakeForCompleted(d)'
      OBVIOUS
    <2> HIDE DEF A
    <2>5. Cardinality(A \ {x}) >= Cardinality(A) - 1 /\ Cardinality(A) \in Nat
          /\ Cardinality(A \ {x}) \in Nat
      <3>1. CASE x \in A
        BY <2>3, <3>1, ThreadCount
      <3>2. CASE x \notin A
        <4>1. A \ {x} = A
          BY <3>2
        <4> QED
          BY <2>3, <4>1, ThreadCount
      <3> QED
        BY <3>1, <3>2
    <2>6. Cardinality(A \ {x}) <= Cardinality(AwakeForCompleted(d)')
          /\ Cardinality(AwakeForCompleted(d)') \in Nat
      BY <2>3, <2>4, ThreadCount
    <2>8. hasCompleted[d] # {} => Cardinality(A) >= Len(completed[d])
      BY <1>1 DEF CompletedSignal, A
    <2>9. hasCompleted'[d] # {} => Cardinality(AwakeForCompleted(d)') >= Len(completed'[d])
      BY <2>2, <2>5, <2>6, <2>8
    <2> QED
      BY <2>9 DEF CompletedSignal
  <1> QED
    BY <1>2, <1>3

LEMMA WaitKeepsCompletedSignal ==
  ASSUME TypeOK, TypeOK', NoLostCompletedSignal, NEW x \in Clients, NEW c \in Channels,
         PopCompletedWait(x, c)
  PROVE  NoLostCompletedSignal'
  <1>0. /\ waiting \in [Clients -> Channels \cup {NoChannel}]
        /\ hasCompleted \in [Channels -> SUBSET Clients]
        /\ completed \in [Channels -> Seq(Jobs)]
        /\ waiting[x] \in {NoChannel, c}
        /\ NoChannel \notin Channels
    BY DEF TypeOK, PopCompletedWait, TestsCompleted, MayCall
  <1>1. CASE TakeCompleted(c)
    <2>1. hasCompleted' = hasCompleted /\ waiting' = [waiting EXCEPT ![x] = NoChannel]
      BY <1>1 DEF PopCompletedWait, TakeCompleted
    <2>2. \A d \in Channels : AwakeForCompleted(d) \ {x} \subseteq AwakeForCompleted(d)'
      BY <1>0, <2>1 DEF AwakeForCompleted
    <2>3. \A d \in Channels : d # c => AwakeForCompleted(d) \subseteq AwakeForCompleted(d)'
      BY <1>0, <2>1 DEF AwakeForCompleted
    <2> QED
      BY <1>1, <2>1, <2>2, <2>3, TakeKeepsCompletedSignal
  <1>2. CASE ~TakeCompleted(c)
    <2> SUFFICES ASSUME NEW d \in Channels
                 PROVE  CompletedSignal(d)'
      BY DEF NoLostCompletedSignal, CompletedSignal
    <2>1. completed' = completed /\ completed[c] = <<>>
      BY <1>2 DEF PopCompletedWait
    <2>2. CASE d = c
      BY <2>1, <2>2, EmptyKeepsCompletedSignal
    <2>3. CASE d # c
      <3>1. \/ hasCompleted' = hasCompleted
            \/ hasCompleted' = [hasCompleted EXCEPT ![c] = @ \cup {x}]
        BY <1>2 DEF PopCompletedWait
      <3>2. \E v \in {NoChannel, c} : waiting' = [waiting EXCEPT ![x] = v]
        BY <1>2 DEF PopCompletedWait
      <3>3. hasCompleted'[d] = hasCompleted[d]
        BY <1>0, <2>3, <3>1
      <3>4. AwakeForCompleted(d) \subseteq AwakeForCompleted(d)'
        BY <1>0, <2>3, <3>2, <3>3 DEF AwakeForCompleted
      <3>5. CompletedSignal(d) /\ Len(completed'[d]) <= Len(completed[d])
        BY <1>0, <2>1 DEF NoLostCompletedSignal, CompletedSignal
      <3> QED
        BY <3>3, <3>4, <3>5, CompletedSignalKept
    <2> QED
      BY <2>2, <2>3
  <1> QED
    BY <1>1, <1>2

LEMMA PushKeepsCompletedSignal ==
  ASSUME TypeOK, TypeOK', NoLostCompletedSignal, NEW w \in Workers, PushCompleted(w)
  PROVE  NoLostCompletedSignal'
  <1> SUFFICES ASSUME NEW d \in Channels
               PROVE  CompletedSignal(d)'
    BY DEF NoLostCompletedSignal, CompletedSignal
  <1> DEFINE c == carrying[w].channel
  <1>1. c \in Channels /\ carrying[w].job \in Jobs
    BY BusyCarries DEF PushCompleted
  <1>2. /\ CompletedSignal(d)
        /\ completed \in [Channels -> Seq(Jobs)]
        /\ hasCompleted \in [Channels -> SUBSET Clients]
    BY DEF NoLostCompletedSignal, CompletedSignal, TypeOK
  <1>3. /\ completed' = [completed EXCEPT ![c] = Append(@, carrying[w].job)]
        /\ waiting' = waiting
    BY DEF PushCompleted, calls
  <1>4. PICK left \in Signal(hasCompleted[c]) : hasCompleted' = [hasCompleted EXCEPT ![c] = left]
    BY DEF PushCompleted, WakeWaiter
  <1>5. CASE d # c
    <2>1. completed'[d] = completed[d] /\ hasCompleted'[d] = hasCompleted[d]
      BY <1>1, <1>2, <1>3, <1>4, <1>5
    <2>2. AwakeForCompleted(d)' = AwakeForCompleted(d)
      BY <1>3, <2>1 DEF AwakeForCompleted
    <2> QED
      BY <1>2, <2>1, <2>2 DEF CompletedSignal
  <1>6. CASE d = c /\ left = {}
    BY <1>1, <1>2, <1>4, <1>6 DEF CompletedSignal
  <1>7. CASE d = c /\ left # {}
    <2>1. PICK t \in hasCompleted[d] : left = hasCompleted[d] \ {t}
      BY <1>4, <1>7, SignalFacts
    <2>2. hasCompleted'[d] = hasCompleted[d] \ {t}
      BY <1>1, <1>2, <1>4, <1>7, <2>1
    <2>3. t \in Clients /\ waiting[t] = d
      BY <2>1 DEF TypeOK
    <2>4. t \in Clients \ AwakeForCompleted(d)
          /\ AwakeForCompleted(d)' = AwakeForCompleted(d) \cup {t}
      BY <1>3, <2>1, <2>2, <2>3 DEF AwakeForCompleted
    <2>5. Cardinality(AwakeForCompleted(d)') = Cardinality(AwakeForCompleted(d)) + 1
          /\ Cardinality(AwakeForCompleted(d)) \in Nat
      BY <2>4, AwakeTypes, ThreadCount
    <2>6. Len(completed'[d]) = Len(completed[d]) + 1 /\ Len(completed[d]) \in Nat
      BY <1>1, <1>2, <1>3, <1>7, AppendFacts
    <2> QED
      BY <1>2, <2>1, <2>5, <2>6 DEF CompletedSignal
  <1> QED
    BY <1>5, <1>6, <1>7

\* A client never sleeps in pop_completed_wait while its channel holds more
\* completed jobs than clients are on their way to them.
THEOREM NoCompletedSignalLost == Spec => []NoLostCompletedSignal
  <1>1. Init => NoLostCompletedSignal
    BY DEF Init, NoLostCompletedSignal
  <1>2. TypeOK /\ TypeOK' /\ NoLostCompletedSignal /\ [Next]_vars => NoLostCompletedSignal'
    <2> SUFFICES ASSUME TypeOK, TypeOK', NoLostCompletedSignal, [Next]_vars
                 PROVE  NoLostCompletedSignal'
      OBVIOUS
    <2>0. ASSUME UNCHANGED <<completed, waiting>>,
                 \A c \in Channels : hasCompleted'[c] \subseteq hasCompleted[c]
          PROVE  NoLostCompletedSignal'
      <3> SUFFICES ASSUME NEW c \in Channels
                   PROVE  CompletedSignal(c)'
        BY DEF NoLostCompletedSignal, CompletedSignal
      <3>1. AwakeForCompleted(c) \subseteq AwakeForCompleted(c)' /\ CompletedSignal(c)
        BY <2>0 DEF AwakeForCompleted, NoLostCompletedSignal, CompletedSignal
      <3>2. Len(completed'[c]) <= Len(completed[c])
        BY <2>0 DEF TypeOK
      <3> QED
        BY <2>0, <3>1, <3>2, CompletedSignalKept
    <2>1. ASSUME NEW x \in Clients, ClientStep(x)
          PROVE  NoLostCompletedSignal'
      <3>1. ASSUME NEW j \in Jobs, NEW c \in Channels, Submit(x, j, c)
            PROVE  NoLostCompletedSignal'
        BY <2>0, <3>1 DEF Submit, calls
      <3>2. ASSUME NEW c \in Channels, PopCompleted(x, c)
            PROVE  NoLostCompletedSignal'
        <4>1. TakeCompleted(c) /\ hasCompleted' = hasCompleted /\ waiting' = waiting
          BY <3>2 DEF PopCompleted, calls
        <4>2. \A d \in Channels : AwakeForCompleted(d)' = AwakeForCompleted(d)
          BY <4>1 DEF AwakeForCompleted
        <4> QED
          BY <4>1, <4>2, TakeKeepsCompletedSignal
      <3>3. ASSUME NEW c \in Channels, PopCompletedWait(x, c)
            PROVE  NoLostCompletedSignal'
        BY <3>3, WaitKeepsCompletedSignal
      <3> QED
        BY <2>1, <3>1, <3>2, <3>3 DEF ClientStep
    <2>2. ASSUME NEW w \in Workers, WorkerStep(w)
          PROVE  NoLostCompletedSignal'
      <3>1. CASE PushCompleted(w)
        BY <3>1, PushKeepsCompletedSignal
      <3>2. CASE WorkerLoop(w) \/ JobReturns(w) \/ WaitForRoom(w)
        <4>1. UNCHANGED <<completed, waiting, hasCompleted>>
          BY <3>2 DEF WorkerLoop, JobReturns, WaitForRoom, rings, conds, calls
        <4> QED
          BY <2>0, <4>1
      <3> QED
        BY <2>2, <3>1, <3>2 DEF WorkerStep
    <2>3. CASE OwnerStep
      <3>1. CASE InitChannel \/ StopReturns
        BY <2>0, <3>1 DEF InitChannel, StopReturns, rings, conds, calls
      <3>2. CASE Destroy \/ \E drain \in BOOLEAN : Stop(drain)
        BY <3>2 DEF Destroy, Stop, BeginStop, WakeEverybody, NoLostCompletedSignal
      <3>3. CASE DestroyReturns \/ DestroyStopped
        <4>1. \A c \in Channels : completed'[c] = <<>>
          BY <3>3 DEF DestroyReturns, DestroyStopped, FreeManager
        <4>2. \A c \in Channels : CompletedSignal(c)'
          BY <4>1, EmptyKeepsCompletedSignal
        <4> QED
          BY <4>2 DEF NoLostCompletedSignal, CompletedSignal
      <3> QED
        BY <2>3, <3>1, <3>2, <3>3 DEF OwnerStep
    <2>4. CASE SpuriousWakeup
      <3>1. UNCHANGED <<completed, waiting>>
        BY <2>4 DEF SpuriousWakeup, rings, calls
      <3>2. hasCompleted \in [Channels -> SUBSET Clients]
        BY DEF TypeOK
      <3>3. \A c \in Channels : hasCompleted'[c] \subseteq hasCompleted[c]
        BY <2>4, <3>2 DEF SpuriousWakeup
      <3> QED
        BY <2>0, <3>1, <3>3
    <2>5. CASE UNCHANGED vars
      BY <2>0, <2>5 DEF vars, rings, conds, calls
    <2> QED
      BY <2>1, <2>2, <2>3, <2>4, <2>5 DEF Next
  <1> QED
    BY <1>1, <1>2, TypeCorrect, PTL DEF Spec

==============================================================================
