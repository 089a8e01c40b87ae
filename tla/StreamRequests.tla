---------------------------- MODULE StreamRequests ----------------------------
(***************************************************************************)
(* The stream request manager of stream_request.cpp.  The event loop asks  *)
(* a worker of the job manager, every ten seconds, to read the mappings    *)
(* file into a buffer (m_loaded_mappings) and adds what came back to the   *)
(* mappings it searches (m_mappings).  The buffer travels with the job: in *)
(* the meantime the manager holds a null pointer.                          *)
(*                                                                         *)
(* The job manager is what JobLifecycle promises of it: a push is refused  *)
(* or the job is queued, executed and handed back once, or dropped by a    *)
(* stop that does not drain.  A mapping is its user id; its name travels   *)
(* with it.  push_stream_request finds the list of free requests empty and *)
(* returns, so no request exists that the rest of the file could serve.    *)
(***************************************************************************)
EXTENDS Naturals, Sequences, SequencesExt, FiniteSets

CONSTANTS Ids,               \* the user ids
          Contents,          \* what the mappings file may hold: sequences of Ids
          TooLarge,          \* a file of more than m_file_content_capacity bytes
          Missing,           \* no file
          MappingsCapacity,  \* m_mappings_capacity
          JobWorkers,        \* the threads of the job manager
          PendingCapacity,   \* the capacity of its pending ring
          MaxTime            \* bound: the last second on the clock

VARIABLES
  loaded,      \* m_loaded_mappings points to the buffer
  buffer,      \* the user ids in the buffer
  remembered,  \* m_mappings_file_stat.st_mtime of the buffer, 0 at first
  mappings,    \* the user ids in m_mappings
  indices,     \* what the allocator left in m_mappings_sorted
  due,         \* ten seconds have passed since m_last_mappings_check_time
  loop,        \* where the event loop is in update_stream_requests
  fate,        \* "up", "destroyed", or "astray" after an undefined access
  queued,      \* the jobs with the buffer in the pending ring
  others,      \* the other jobs there
  finished,    \* the jobs with the buffer in the completed ring
  stopped,     \* the job manager was stopped
  worker,      \* where each worker is in update_mappings_job_fn
  found,       \* its current_stat.st_mtime
  file,        \* the mappings file: its content and st_mtime
  now,         \* the second on the clock
  examined     \* history: the second in which the file was last found changed

manager == <<loaded, buffer, remembered, mappings, indices, due, loop, fate>>
jobs == <<queued, others, finished, stopped>>
threads == <<worker, found, examined>>
world == <<file, now>>
requestVars == <<manager, jobs, threads, world>>

TypeOK ==
  /\ loaded \in BOOLEAN /\ due \in BOOLEAN /\ stopped \in BOOLEAN
  /\ buffer \in Contents \cup {<<>>}
  /\ remembered \in 0 .. MaxTime /\ now \in 1 .. MaxTime
  /\ mappings \in Seq(Ids) /\ Len(mappings) <= MappingsCapacity
  /\ indices \in {"zeros", "garbage"}
  /\ loop \in {"idle", "collect"}
  /\ fate \in {"up", "destroyed", "astray"}
  /\ queued \in Nat /\ others \in Nat /\ queued + others <= PendingCapacity
  /\ finished \in Nat
  /\ worker \in [JobWorkers -> {"idle", "examine", "load"}]
  /\ found \in [JobWorkers -> 0 .. MaxTime]
  /\ file \in [content : Contents \cup {TooLarge, Missing}, mtime : 1 .. MaxTime]
  /\ examined \in 0 .. MaxTime

\* create_stream_request_manager; m_mappings_sorted is not written.
Init ==
  /\ loaded = TRUE /\ buffer = <<>> /\ remembered = 0
  /\ mappings = <<>>
  /\ indices \in {"zeros", "garbage"}
  /\ due = FALSE /\ loop = "idle" /\ fate = "up"
  /\ queued = 0 /\ others = 0 /\ finished = 0 /\ stopped = FALSE
  /\ worker = [w \in JobWorkers |-> "idle"]
  /\ found = [w \in JobWorkers |-> 0]
  /\ file \in [content : Contents \cup {TooLarge, Missing}, mtime : {1}]
  /\ now = 1
  /\ examined = 0

------------------------------------------------------------------------------
(* The event loop.                                                         *)

\* Mutant: the buffer stays with the manager while the job has it.
KeepLoaded == UNCHANGED loaded

GiveAway == loaded' = FALSE

\* Mutant: a full ring takes one more.
PushOverfull == IF ~stopped THEN queued' = queued + 1 ELSE UNCHANGED queued

\* push_job refuses when the ring is full or the manager stopped; the result
\* is not looked at.
PushJob ==
  IF queued + others < PendingCapacity /\ ~stopped
  THEN queued' = queued + 1 ELSE UNCHANGED queued

\* The first half of update_stream_requests: every ten seconds the buffer is
\* given to a job.
CheckMappings ==
  /\ fate = "up" /\ loop = "idle"
  /\ loop' = "collect"
  /\ IF loaded /\ due
     THEN due' = FALSE /\ GiveAway /\ PushJob
     ELSE UNCHANGED <<due, loaded, queued>>
  /\ UNCHANGED <<buffer, remembered, mappings, indices, fate, others, finished,
                 stopped, threads, world>>

\* Mutant: a search that finds what is not there.
AddIfFirst(ids, id) == IF ids # <<>> THEN ids ELSE Append(ids, id)

\* find_mapping over an index array of zeros looks at the first mapping only;
\* sorting zeros leaves zeros.
AddUnlessFirst(ids, id) ==
  IF ids # <<>> /\ Head(ids) = id THEN ids ELSE Append(ids, id)

\* What the search and add_mapping make of m_mappings, one mapping after the
\* other.  An index array of garbage may by luck find mappings that are there.
Merged ==
  IF indices = "zeros" \/ mappings = <<>>
  THEN {FoldLeft(AddUnlessFirst, mappings, buffer)}
  ELSE {FoldLeft(LAMBDA ids, id : IF id \in lucky THEN ids ELSE Append(ids, id),
                 mappings, buffer) : lucky \in SUBSET ToSet(mappings)}

\* pop_job leaves job_data1 unwritten, and the pointer to the buffer is taken
\* from it: it is the pointer only if the stack still holds it.  A garbage
\* index may be any address; add_mapping does not look at the capacity.
TakeBuffer ==
  \/ /\ loaded' = TRUE
     /\ \E ids \in Merged :
          IF Len(ids) <= MappingsCapacity
          THEN mappings' = ids /\ UNCHANGED fate
          ELSE fate' = "astray" /\ UNCHANGED mappings
  \/ fate' = "astray" /\ UNCHANGED <<loaded, mappings>>

\* Mutant: the result of pop_job is not looked at either.
JobUnchecked == TRUE

\* pop_job returns 0.
JobIsBack == finished > 0

\* The second half: the jobs that are handed back.
CollectMappings ==
  /\ fate = "up" /\ loop = "collect"
  /\ loop' = "idle"
  /\ IF JobIsBack
     THEN finished' = finished - 1 /\ TakeBuffer
     ELSE UNCHANGED <<finished, loaded, mappings, fate>>
  /\ UNCHANGED <<buffer, remembered, indices, due, queued, others, stopped,
                 threads, world>>

\* Mutant: a destroy that does without the buffer.
DestroyWithout == fate' = "destroyed"

\* destroy_stream_request_manager frees through both pointers, null or not.
FreeBoth == fate' = IF loaded THEN "destroyed" ELSE "astray"

Destroy ==
  /\ fate = "up" /\ loop = "idle"
  /\ FreeBoth
  /\ UNCHANGED <<loaded, buffer, remembered, mappings, indices, due, loop, jobs,
                 threads, world>>

------------------------------------------------------------------------------
(* The job manager and its workers.                                        *)

\* Somebody else's jobs come and go.
OtherJobs ==
  /\ \/ queued + others < PendingCapacity /\ ~stopped /\ others' = others + 1
     \/ others > 0 /\ others' = others - 1
  /\ UNCHANGED <<manager, queued, finished, stopped, threads, world>>

\* A stop that drains leaves the queued job, one that does not drops it.
StopJobs ==
  /\ ~stopped
  /\ stopped' = TRUE
  /\ queued' \in {0, queued}
  /\ UNCHANGED <<manager, others, finished, threads, world>>

TakeJob(w) ==
  /\ worker[w] = "idle" /\ queued > 0
  /\ queued' = queued - 1
  /\ worker' = [worker EXCEPT ![w] = "examine"]
  /\ UNCHANGED <<manager, others, finished, stopped, found, examined, world>>

\* The job returns and the worker pushes it into the completed ring.
JobDone(w) ==
  /\ worker' = [worker EXCEPT ![w] = "idle"]
  /\ found' = [found EXCEPT ![w] = 0]
  /\ finished' = finished + 1

\* fopen, stat and the comparison of the times.
Examine(w) ==
  /\ worker[w] = "examine"
  /\ IF file.content = Missing \/ file.mtime = remembered
     THEN JobDone(w) /\ UNCHANGED examined
     ELSE /\ worker' = [worker EXCEPT ![w] = "load"]
          /\ found' = [found EXCEPT ![w] = file.mtime]
          /\ examined' = now
          /\ UNCHANGED finished
  /\ UNCHANGED <<manager, queued, others, stopped, world>>

\* Mutant: the time of the reading instead of the time of the file.
RememberNow(w) == remembered' = now

Remember(w) == remembered' = found[w]

\* The size, the content and the lines.  A file that is too large is left as
\* it is; the lines are not counted against the capacity.
Load(w) ==
  /\ worker[w] = "load"
  /\ IF file.content = TooLarge
     THEN UNCHANGED <<buffer, remembered, fate>>
     ELSE IF Len(file.content) > MappingsCapacity
     THEN fate' = "astray" /\ UNCHANGED <<buffer, remembered>>
     ELSE buffer' = file.content /\ Remember(w) /\ UNCHANGED fate
  /\ JobDone(w)
  /\ UNCHANGED <<loaded, mappings, indices, due, loop, queued, others, stopped,
                 examined, world>>

------------------------------------------------------------------------------
(* The world.                                                              *)

\* Somebody writes the mappings file, which gets the current second as its
\* time.
EditFile ==
  /\ \E c \in Contents \cup {TooLarge} : file' = [content |-> c, mtime |-> now]
  /\ UNCHANGED <<manager, jobs, threads, now>>

\* A second passes.
SecondPasses ==
  /\ now < MaxTime
  /\ now' = now + 1
  /\ UNCHANGED <<manager, jobs, threads, file>>

\* Ten seconds pass.
TenSecondsPass ==
  /\ due' = TRUE
  /\ now' = IF now < MaxTime THEN now + 1 ELSE now
  /\ UNCHANGED <<loaded, buffer, remembered, mappings, indices, loop, fate, jobs,
                 threads, file>>

Work(w) == TakeJob(w) \/ Examine(w) \/ Load(w)

EventLoop == CheckMappings \/ CollectMappings

Next ==
  \/ EventLoop \/ Destroy
  \/ OtherJobs \/ StopJobs \/ (\E w \in JobWorkers : Work(w))
  \/ EditFile \/ SecondPasses \/ TenSecondsPass

Spec == Init /\ [][Next]_requestVars

\* The event loop runs, the workers work and time passes.
Fairness ==
  /\ WF_requestVars(EventLoop)
  /\ \A w \in JobWorkers : WF_requestVars(Work(w))
  /\ WF_requestVars(TenSecondsPass)

FairSpec == Spec /\ Fairness

------------------------------------------------------------------------------

Running == {w \in JobWorkers : worker[w] # "idle"}

\* The places from which somebody can reach the buffer.
Holders ==
  queued + Cardinality(Running) + finished + (IF loaded THEN 1 ELSE 0)

\* The buffer has one user at a time: the event loop, a job in a ring, or one
\* worker.  No two workers write it, and the event loop does not read it while
\* a worker writes.  A manager is destroyed, and the buffer with it, only while
\* no worker has the buffer or will get it.
BufferHasOneUser ==
  /\ Holders <= 1
  /\ fate = "destroyed" => loaded /\ Holders = 1

\* The buffer was given away and nobody has it.
Lost == Holders = 0

LostForGood == [][fate = "up" /\ Lost => Lost' /\ UNCHANGED mappings]_requestVars

\* The buffer differs from a file that will be taken for unchanged.
Overlooked ==
  /\ file.mtime = remembered
  /\ file.content # buffer

\* A change of the file is overlooked only if it came in the very second in
\* which an earlier change was found: the time is taken before the content,
\* so that a change in between shows as a new time at the next check.
OverlookedInItsSecond ==
  fate = "up" /\ loaded /\ Overlooked => examined = file.mtime

\* What excuses the manager.
Excused == fate # "up" \/ Lost \/ stopped \/ Overlooked

FileIds == IF file.content \in Contents THEN ToSet(file.content) ELSE {}

\* A user id that stays in the file is known in the end, unless the manager or
\* the job manager ends, the buffer is lost or the change is overlooked.  A
\* buffer that was lost, by one refused or dropped push, is lost for good and
\* the mappings stay as they are.
MappingsArrive ==
  /\ \A id \in Ids :
       id \in FileIds ~> id \in ToSet(mappings) \/ id \notin FileIds \/ Excused
  /\ LostForGood

==============================================================================
