------------------------------ MODULE JobManager ------------------------------
(***************************************************************************)
(* job_manager_t of job_manager.cpp: worker threads that take jobs from    *)
(* one pending ring and push them, executed, into the completed ring of    *)
(* the job's channel, from which clients pop them.                         *)
(*                                                                         *)
(* All shared state is guarded by m_mutex.  A step of the model is one     *)
(* critical section, up to the unlock or up to a uv_cond_wait, so that the *)
(* steps of the threads interleave as the mutex lets them.  A condition    *)
(* variable is the set of the threads that sleep in it; a thread that      *)
(* leaves the set still has to get the mutex and test its condition again. *)
(*                                                                         *)
(* A ring is the sequence of its jobs (module Ring shows that this is what *)
(* ring_t implements); the user pointers are left to that module.          *)
(***************************************************************************)
EXTENDS Naturals, Sequences, FiniteSets

CONSTANTS Workers,          \* m_threads
          Clients,          \* the threads that call the manager
          Owner,            \* the client that creates, stops and destroys it
          Waiters,          \* the clients that use pop_completed_wait
          Jobs,             \* the jobs that are ever submitted, each once
          MaxChannels,      \* m_max_channels
          PendingCapacity,  \* m_pending.m_capacity
          CompletedCapacity,\* the capacity each channel is initialised with
          NoJob,            \* no job
          NoChannel         \* no channel

Channels == 0 .. MaxChannels - 1

\* The constructor and init_channel replace what is <= 0 by 1.
ASSUME ConstantsAssumption ==
  /\ Workers # {} /\ IsFiniteSet(Workers)
  /\ IsFiniteSet(Clients)
  /\ Owner \in Clients
  /\ Waiters \subseteq Clients
  /\ MaxChannels \in Nat \ {0}
  /\ PendingCapacity \in Nat \ {0}
  /\ CompletedCapacity \in [Channels -> Nat \ {0}]
  /\ NoJob \notin Jobs
  /\ NoChannel \notin Channels

Entries == [job : Jobs, channel : Channels]

NoEntry == [job |-> NoJob, channel |-> NoChannel]

VARIABLES
  pending,        \* m_pending, oldest first
  completed,      \* m_completed, per channel, oldest first
  nChannels,      \* m_n_channels
  stopping,       \* m_stopping
  drainMode,      \* m_drain_mode
  freed,          \* the manager was destroyed
  wpc,            \* where a worker is in worker_loop
  carrying,       \* the local variables of worker_loop
  hasJobs,        \* the workers asleep in m_has_jobs
  roomCompleted,  \* the workers asleep in m_room_completed[c]
  hasCompleted,   \* the clients asleep in m_has_completed[c]
  waiting,        \* the channel a client is inside pop_completed_wait for
  owner,          \* whether the owner is inside stop or destroy
  accepted, taken, dropped, discarded  \* history: what became of each job

rings == <<pending, completed>>
modes == <<nChannels, stopping, drainMode, freed>>
threads == <<wpc, carrying>>
conds == <<hasJobs, roomCompleted, hasCompleted>>
calls == <<waiting, owner>>
history == <<accepted, taken, dropped, discarded>>
vars == <<rings, modes, threads, conds, calls, history>>

TypeOK ==
  /\ pending \in Seq(Entries) /\ Len(pending) <= PendingCapacity
  /\ completed \in [Channels -> Seq(Jobs)]
  /\ \A c \in Channels : Len(completed[c]) <= CompletedCapacity[c]
  /\ nChannels \in 0 .. MaxChannels
  /\ stopping \in BOOLEAN /\ drainMode \in BOOLEAN /\ freed \in BOOLEAN
  /\ wpc \in [Workers -> {"loop", "run", "push", "exit"}]
  /\ carrying \in [Workers -> Entries \cup {NoEntry}]
  /\ \A w \in Workers : carrying[w] = NoEntry <=> wpc[w] \in {"loop", "exit"}
  /\ hasJobs \subseteq {w \in Workers : wpc[w] = "loop"}
  /\ roomCompleted \in [Channels -> SUBSET Workers]
  /\ \A c \in Channels : \A w \in roomCompleted[c] :
       wpc[w] = "push" /\ carrying[w].channel = c
  /\ waiting \in [Clients -> Channels \cup {NoChannel}]
  /\ hasCompleted \in [Channels -> SUBSET Clients]
  /\ \A c \in Channels : \A x \in hasCompleted[c] : waiting[x] = c
  /\ owner \in {"free", "stopping", "destroying"}
  /\ accepted \subseteq Jobs /\ taken \subseteq Jobs
  /\ dropped \subseteq Jobs /\ discarded \subseteq Jobs

\* intialize: the workers exist before any channel does.
Init ==
  /\ pending = <<>>
  /\ completed = [c \in Channels |-> <<>>]
  /\ nChannels = 0
  /\ stopping = FALSE /\ drainMode = TRUE /\ freed = FALSE
  /\ wpc = [w \in Workers |-> "loop"]
  /\ carrying = [w \in Workers |-> NoEntry]
  /\ hasJobs = {}
  /\ roomCompleted = [c \in Channels |-> {}]
  /\ hasCompleted = [c \in Channels |-> {}]
  /\ waiting = [x \in Clients |-> NoChannel]
  /\ owner = "free"
  /\ accepted = {} /\ taken = {} /\ dropped = {} /\ discarded = {}

------------------------------------------------------------------------------
(* Condition variables.                                                    *)

\* What uv_cond_signal can leave of the set of sleepers: one of them wakes.
Signal(sleepers) ==
  IF sleepers = {} THEN {{}} ELSE {sleepers \ {t} : t \in sleepers}

\* A client calls the manager only while it is in no other call, and nobody
\* but the owner once the owner destroys it.
MayCall(x) ==
  /\ ~freed
  /\ waiting[x] = NoChannel
  /\ owner # "destroying"
  /\ x = Owner => owner = "free"

------------------------------------------------------------------------------
(* The clients.                                                            *)

\* init_channel takes no lock; the owner calls it before it hands the channel
\* to anybody.  It returns -1 when all channels are in use.
InitChannel ==
  /\ MayCall(Owner)
  /\ nChannels < MaxChannels
  /\ nChannels' = nChannels + 1
  /\ UNCHANGED <<rings, stopping, drainMode, freed, threads, conds, calls, history>>

\* Mutant: a signal saved when the ring already held a job.
WakeWorkerIfFirst ==
  hasJobs' \in IF pending = <<>> THEN Signal(hasJobs) ELSE {hasJobs}

\* Mutant: a submit without its signal.
WakeNobody == UNCHANGED hasJobs

WakeWorker == hasJobs' \in Signal(hasJobs)

PendingHasRoom == Len(pending) < PendingCapacity

\* submit returns -1 when it has no function or no data, when the manager is
\* stopping and when the pending ring is full; otherwise it wakes one worker.
Submit(x, j, c) ==
  /\ MayCall(x)
  /\ c < nChannels
  /\ j \notin accepted
  /\ ~stopping
  /\ PendingHasRoom
  /\ pending' = Append(pending, [job |-> j, channel |-> c])
  /\ accepted' = accepted \cup {j}
  /\ WakeWorker
  /\ UNCHANGED <<completed, modes, threads, roomCompleted, hasCompleted, calls,
                 taken, dropped, discarded>>

\* Mutant: a signal saved when the ring was not full.
WakePusherIfFull(c) ==
  \E left \in IF Len(completed[c]) = CompletedCapacity[c]
              THEN Signal(roomCompleted[c]) ELSE {roomCompleted[c]} :
    roomCompleted' = [roomCompleted EXCEPT ![c] = left]

\* Both pops wake one worker that waits for room in the ring of the channel.
WakePusher(c) ==
  \E left \in Signal(roomCompleted[c]) :
    roomCompleted' = [roomCompleted EXCEPT ![c] = left]

TakeCompleted(c) ==
  /\ completed[c] # <<>>
  /\ completed' = [completed EXCEPT ![c] = Tail(@)]
  /\ taken' = taken \cup {Head(completed[c])}
  /\ WakePusher(c)

\* pop_completed returns -1 when the ring of the channel is empty.
PopCompleted(x, c) ==
  /\ MayCall(x)
  /\ c < nChannels
  /\ TakeCompleted(c)
  /\ UNCHANGED <<pending, modes, threads, hasJobs, hasCompleted, calls,
                 accepted, dropped, discarded>>

\* x is about to test the condition of pop_completed_wait: it just called it
\* or was woken inside it.
TestsCompleted(x, c) ==
  \/ MayCall(x) /\ c < nChannels
  \/ waiting[x] = c /\ x \notin hasCompleted[c]

PopCompletedWait(x, c) ==
  /\ TestsCompleted(x, c)
  /\ \/ /\ TakeCompleted(c)
        /\ waiting' = [waiting EXCEPT ![x] = NoChannel]
        /\ UNCHANGED hasCompleted
     \/ /\ completed[c] = <<>> /\ stopping /\ pending = <<>>
        /\ waiting' = [waiting EXCEPT ![x] = NoChannel]
        /\ UNCHANGED <<completed, taken, roomCompleted, hasCompleted>>
     \/ /\ completed[c] = <<>> /\ ~(stopping /\ pending = <<>>)
        /\ waiting' = [waiting EXCEPT ![x] = c]
        /\ hasCompleted' = [hasCompleted EXCEPT ![c] = @ \cup {x}]
        /\ UNCHANGED <<completed, taken, roomCompleted>>
  /\ UNCHANGED <<pending, modes, threads, hasJobs, owner, accepted, dropped, discarded>>

------------------------------------------------------------------------------
(* The workers.                                                            *)

\* Mutant: a worker that leaves as soon as the manager stops.
MayExitAtOnce == stopping

MayExit == stopping /\ pending = <<>>

\* Mutant: a pop that leaves the job in the ring.
PendingAfterPeek == pending

PendingAfterPop == Tail(pending)

\* The head of the loop of worker_loop, reached with the mutex held: wait,
\* leave, or take the oldest pending job.
LoopTop(w) ==
  \/ /\ pending = <<>> /\ ~stopping
     /\ hasJobs' = hasJobs \cup {w}
     /\ wpc' = [wpc EXCEPT ![w] = "loop"]
     /\ carrying' = [carrying EXCEPT ![w] = NoEntry]
     /\ UNCHANGED pending
  \/ /\ MayExit
     /\ wpc' = [wpc EXCEPT ![w] = "exit"]
     /\ carrying' = [carrying EXCEPT ![w] = NoEntry]
     /\ UNCHANGED <<pending, hasJobs>>
  \/ /\ pending # <<>>
     /\ pending' = PendingAfterPop
     /\ wpc' = [wpc EXCEPT ![w] = "run"]
     /\ carrying' = [carrying EXCEPT ![w] = Head(pending)]
     /\ UNCHANGED hasJobs

\* A worker that just started or was woken in m_has_jobs gets the mutex.
WorkerLoop(w) ==
  /\ wpc[w] = "loop" /\ w \notin hasJobs
  /\ LoopTop(w)
  /\ UNCHANGED <<completed, modes, roomCompleted, hasCompleted, calls, history>>

\* The job's function returns; it ran without the mutex.
JobReturns(w) ==
  /\ wpc[w] = "run"
  /\ wpc' = [wpc EXCEPT ![w] = "push"]
  /\ UNCHANGED <<rings, modes, carrying, conds, calls, history>>

RingFull(c) == Len(completed[c]) = CompletedCapacity[c]

\* The worker's channel has no room: it sleeps in m_room_completed.
WaitForRoom(w) ==
  LET c == carrying[w].channel IN
  /\ wpc[w] = "push" /\ w \notin roomCompleted[c]
  /\ RingFull(c)
  /\ roomCompleted' = [roomCompleted EXCEPT ![c] = @ \cup {w}]
  /\ UNCHANGED <<rings, modes, threads, hasJobs, hasCompleted, calls, history>>

\* Mutant: a signal saved when the ring already held a completed job.
WakeWaiterIfFirst(c) ==
  \E left \in IF completed[c] = <<>> THEN Signal(hasCompleted[c]) ELSE {hasCompleted[c]} :
    hasCompleted' = [hasCompleted EXCEPT ![c] = left]

WakeWaiter(c) ==
  \E left \in Signal(hasCompleted[c]) :
    hasCompleted' = [hasCompleted EXCEPT ![c] = left]

\* The worker hands back its job and goes, in the same critical section, to
\* the head of its loop.
PushCompleted(w) ==
  LET c == carrying[w].channel IN
  /\ wpc[w] = "push" /\ w \notin roomCompleted[c]
  /\ ~RingFull(c)
  /\ completed' = [completed EXCEPT ![c] = Append(@, carrying[w].job)]
  /\ WakeWaiter(c)
  /\ LoopTop(w)
  /\ UNCHANGED <<modes, roomCompleted, calls, history>>

------------------------------------------------------------------------------
(* Stopping and destroying.                                                *)

\* Mutant: a stop that forgets the workers without a job.
WakeOnlyClients ==
  /\ hasCompleted' = [c \in Channels |-> {}]
  /\ roomCompleted' = [c \in Channels |-> {}]
  /\ UNCHANGED hasJobs

\* The broadcasts of stop; nobody can sleep on a channel that was not
\* initialised.
WakeEverybody ==
  /\ hasJobs' = {}
  /\ hasCompleted' = [c \in Channels |-> {}]
  /\ roomCompleted' = [c \in Channels |-> {}]

PendingJobs == {pending[i].job : i \in DOMAIN pending}

\* Mutant: a stop that empties the pending ring whatever its argument.
DropPending(drain) ==
  /\ pending' = <<>>
  /\ dropped' = dropped \cup PendingJobs

\* stop(0) empties the pending ring; its jobs remain with the caller.
DropUnlessDraining(drain) ==
  /\ pending' = IF drain THEN pending ELSE <<>>
  /\ dropped' = IF drain THEN dropped ELSE dropped \cup PendingJobs

\* The critical section of the first call of stop; joining follows.
BeginStop(drain) ==
  /\ ~stopping
  /\ stopping' = TRUE
  /\ drainMode' = drain
  /\ DropUnlessDraining(drain)
  /\ WakeEverybody
  /\ UNCHANGED <<completed, nChannels, freed, threads, waiting, accepted, taken,
                 discarded>>

\* stop(drain).  A second call returns at once.
Stop(drain) ==
  /\ MayCall(Owner)
  /\ BeginStop(drain)
  /\ owner' = "stopping"

\* destroy_job_manager stops and drains; no other client may be in a call.
Destroy ==
  /\ MayCall(Owner)
  /\ \A x \in Clients : waiting[x] = NoChannel
  /\ BeginStop(TRUE)
  /\ owner' = "destroying"

AllExited == \A w \in Workers : wpc[w] = "exit"

\* The last worker was joined and stop returns.
StopReturns ==
  /\ owner = "stopping"
  /\ AllExited
  /\ owner' = "free"
  /\ UNCHANGED <<rings, modes, threads, conds, waiting, history>>

\* shutdown destroys the rings, and what nobody popped goes with them.
FreeManager ==
  /\ freed' = TRUE
  /\ owner' = "free"
  /\ pending' = <<>>
  /\ completed' = [c \in Channels |-> <<>>]
  /\ discarded' = discarded \cup
       UNION {{completed[c][i] : i \in DOMAIN completed[c]} : c \in Channels}
  /\ UNCHANGED <<nChannels, stopping, drainMode, threads, conds, waiting, accepted,
                 taken, dropped>>

\* The destroying owner joined the last worker.
DestroyReturns ==
  /\ owner = "destroying"
  /\ AllExited
  /\ FreeManager

\* destroy_job_manager after a stop: the second stop joins nobody.
DestroyStopped ==
  /\ MayCall(Owner)
  /\ stopping
  /\ \A x \in Clients : waiting[x] = NoChannel
  /\ FreeManager

------------------------------------------------------------------------------

\* uv_cond_wait may return without a signal.
SpuriousWakeup ==
  /\ \/ /\ \E w \in hasJobs : hasJobs' = hasJobs \ {w}
        /\ UNCHANGED <<roomCompleted, hasCompleted>>
     \/ /\ \E c \in Channels : \E w \in roomCompleted[c] :
             roomCompleted' = [roomCompleted EXCEPT ![c] = @ \ {w}]
        /\ UNCHANGED <<hasJobs, hasCompleted>>
     \/ /\ \E c \in Channels : \E x \in hasCompleted[c] :
             hasCompleted' = [hasCompleted EXCEPT ![c] = @ \ {x}]
        /\ UNCHANGED <<hasJobs, roomCompleted>>
  /\ UNCHANGED <<rings, modes, threads, calls, history>>

ClientStep(x) ==
  \/ \E j \in Jobs, c \in Channels : Submit(x, j, c)
  \/ \E c \in Channels : PopCompleted(x, c)
  \/ x \in Waiters /\ \E c \in Channels : PopCompletedWait(x, c)

WorkerStep(w) == WorkerLoop(w) \/ JobReturns(w) \/ WaitForRoom(w) \/ PushCompleted(w)

OwnerStep ==
  \/ InitChannel
  \/ \E drain \in BOOLEAN : Stop(drain)
  \/ StopReturns \/ Destroy \/ DestroyReturns \/ DestroyStopped

Next ==
  \/ \E x \in Clients : ClientStep(x)
  \/ \E w \in Workers : WorkerStep(w)
  \/ OwnerStep
  \/ SpuriousWakeup

Spec == Init /\ [][Next]_vars

\* What the threads are scheduled to do: a worker that can go on does so, its
\* job's function returns, a join ends when the thread has ended, and a woken
\* client gets the mutex.  Every channel is polled by some client.
Fairness ==
  /\ \A w \in Workers : WF_vars(WorkerStep(w))
  /\ WF_vars(StopReturns \/ DestroyReturns)
  /\ \A x \in Waiters, c \in Channels : WF_vars(waiting[x] = c /\ PopCompletedWait(x, c))
  /\ \A c \in Channels : WF_vars(\E x \in Clients \ Waiters : PopCompleted(x, c))

FairSpec == Spec /\ Fairness

------------------------------------------------------------------------------
(* Where the jobs are.                                                     *)

CarriedJobs == {carrying[w].job : w \in Workers} \ {NoJob}

CompletedJobs(c) == {completed[c][i] : i \in DOMAIN completed[c]}

CompletedJobsOfAll == UNION {CompletedJobs(c) : c \in Channels}

\* No job is in two places of the manager.
NoJobTwice ==
  /\ \A i, k \in DOMAIN pending : pending[i].job = pending[k].job => i = k
  /\ \A v, w \in Workers :
       carrying[v].job = carrying[w].job /\ carrying[v].job # NoJob => v = w
  /\ \A c, d \in Channels : \A i \in DOMAIN completed[c], k \in DOMAIN completed[d] :
       completed[c][i] = completed[d][k] => c = d /\ i = k
  /\ PendingJobs \cap CarriedJobs = {}
  /\ (PendingJobs \cup CarriedJobs) \cap CompletedJobsOfAll = {}

\* The jobs that left the manager.
Gone == taken \cup dropped \cup discarded

\* Every accepted job is in exactly one place: in the pending ring, with one
\* worker, in one completed ring, or gone in one way.  In particular no job is
\* executed twice, handed back twice, or lost between the rings.
JobsConserved ==
  /\ NoJobTwice
  /\ accepted = PendingJobs \cup CarriedJobs \cup CompletedJobsOfAll \cup Gone
  /\ (PendingJobs \cup CarriedJobs \cup CompletedJobsOfAll) \cap Gone = {}
  /\ taken \cap dropped = {} /\ taken \cap discarded = {} /\ dropped \cap discarded = {}

------------------------------------------------------------------------------
(* No signal is lost.                                                      *)

AwakeForJobs == {w \in Workers : wpc[w] = "loop"} \ hasJobs

\* While a worker sleeps for want of a job, a worker is on its way for each
\* pending job: uv_cond_signal in submit is enough, although it wakes one
\* worker only and a worker may take a job without having slept.
NoLostJobSignal == hasJobs # {} => Cardinality(AwakeForJobs) >= Len(pending)

AwakeForRoom(c) ==
  {w \in Workers : wpc[w] = "push" /\ carrying[w].channel = c} \ roomCompleted[c]

\* While a worker sleeps for want of room in a completed ring, a worker is on
\* its way for each free slot of that ring.
NoLostRoomSignal ==
  \A c \in Channels : roomCompleted[c] # {} =>
    Cardinality(AwakeForRoom(c)) >= CompletedCapacity[c] - Len(completed[c])

AwakeForCompleted(c) == {x \in Clients : waiting[x] = c} \ hasCompleted[c]

\* While a client sleeps in pop_completed_wait, a client is on its way for
\* each completed job of that channel.
NoLostCompletedSignal ==
  \A c \in Channels : hasCompleted[c] # {} =>
    Cardinality(AwakeForCompleted(c)) >= Len(completed[c])

------------------------------------------------------------------------------
(* Stopping.                                                               *)

\* The phases of a stop: the owner is in stop or destroy only while stopping,
\* a worker leaves only when nothing is or will be pending, no worker sleeps
\* for want of a job once the stop has begun, and the memory is freed, and
\* stop has returned, only when every worker has left.  Only a stop that does
\* not drain drops jobs.
StopPhases ==
  /\ owner # "free" => stopping
  /\ \A w \in Workers : wpc[w] = "exit" => stopping /\ pending = <<>>
  /\ stopping => hasJobs = {}
  /\ stopping /\ owner = "free" => AllExited
  /\ freed => stopping /\ owner = "free"
  /\ dropped # {} => stopping /\ ~drainMode

\* When the workers have left, nothing is pending, and a draining stop has
\* dropped nothing: all that was accepted was executed and handed back, or
\* waits to be popped.
StopDrains ==
  /\ AllExited =>
       /\ pending = <<>>
       /\ drainMode => dropped = {}
       /\ accepted = CompletedJobsOfAll \cup Gone
  /\ freed => AllExited

\* A stop or a destroy that cannot end for lack of a thread that runs is held
\* up by a completed ring that is full and that a worker must push into: no
\* worker is left asleep in m_has_jobs, and none asleep although it has room.
StopHeldUpOnlyByFullRing ==
  owner # "free" /\ ~AllExited =>
    \/ \E w \in Workers : wpc[w] \in {"loop", "run"} /\ w \notin hasJobs
    \/ \E c \in Channels : AwakeForRoom(c) # {}
    \/ \E c \in Channels : RingFull(c) /\ roomCompleted[c] # {}

------------------------------------------------------------------------------
(* The life of each job.                                                   *)

StatusOf(j) ==
  IF j \notin accepted THEN "new"
  ELSE IF j \in PendingJobs THEN "queued"
  ELSE IF j \in CarriedJobs THEN "running"
  ELSE IF j \in CompletedJobsOfAll THEN "done"
  ELSE IF j \in taken THEN "taken"
  ELSE IF j \in dropped THEN "dropped"
  ELSE "discarded"

Lifecycle == INSTANCE JobLifecycle WITH status <- [j \in Jobs |-> StatusOf(j)]

\* However the threads interleave, each job goes through the life that
\* JobLifecycle promises.
ImplementsLifecycle == Lifecycle!Spec

------------------------------------------------------------------------------
(* Liveness, under FairSpec.                                               *)

\* An accepted job is handed back, unless it is dropped by a stop that does
\* not drain or the owner destroys the manager before.
JobsDelivered ==
  \A j \in Jobs : j \in accepted ~> j \in Gone \/ owner = "destroying"

StopEnds == owner = "stopping" ~> owner = "free"

\* The completed rings can take all that is still to be pushed.
RoomForAll ==
  \A c \in Channels :
    Len(completed[c]) + Cardinality({i \in DOMAIN pending : pending[i].channel = c})
      + Cardinality({w \in Workers : carrying[w].channel = c}) <= CompletedCapacity[c]

DestroyEnds == owner = "destroying" /\ RoomForAll ~> freed

\* While the channels are polled, stop returns.  A destroy that finds room for
\* all that is still to be executed returns, although nobody pops any more.
OwnerReturns == StopEnds /\ DestroyEnds

\* "blocking until one is available or until the manager is stopped and no
\* more completions will arrive": once stop has returned, every client leaves
\* pop_completed_wait.
WaitersReturn ==
  \A x \in Clients :
    AllExited /\ waiting[x] # NoChannel ~> waiting[x] = NoChannel

==============================================================================
