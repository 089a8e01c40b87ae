----------------------------- MODULE JobLifecycle -----------------------------
(***************************************************************************)
(* What the job manager promises about each job, without threads, locks,   *)
(* condition variables or rings: a job that was accepted is executed at    *)
(* most once and handed back at most once, and it is lost only when the    *)
(* owner asks for that.                                                    *)
(***************************************************************************)
CONSTANT Jobs

VARIABLE status

Statuses == {"new",        \* never accepted by push_job
             "queued",     \* accepted, not started
             "running",    \* taken by a worker, not yet handed back to the manager
             "done",       \* waits for pop_job
             "taken",      \* handed back to the caller
             "dropped",    \* dropped by a stop that does not drain
             "discarded"}  \* executed, never taken before the manager was destroyed

Init == status = [j \in Jobs |-> "new"]

Move(j, from, to) == status[j] = from /\ status' = [status EXCEPT ![j] = to]

Accept(j) == Move(j, "new", "queued")

Start(j) == Move(j, "queued", "running")

Finish(j) == Move(j, "running", "done")

\* A worker that hands back a job may take the next one in the same step.
FinishAndStart(j, k) ==
  /\ status[j] = "running"
  /\ status[k] = "queued"
  /\ status' = [status EXCEPT ![j] = "done", ![k] = "running"]

Take(j) == Move(j, "done", "taken")

\* All the jobs in one status move to another one at once.
MoveAll(from, to) ==
  status' = [j \in Jobs |-> IF status[j] = from THEN to ELSE status[j]]

DropQueued == MoveAll("queued", "dropped")

\* Nothing that was accepted is still to be executed when the manager goes.
DiscardDone ==
  /\ \A j \in Jobs : status[j] \notin {"queued", "running"}
  /\ MoveAll("done", "discarded")

Next ==
  \/ \E j \in Jobs : Accept(j) \/ Start(j) \/ Finish(j) \/ Take(j)
  \/ \E j, k \in Jobs : FinishAndStart(j, k)
  \/ DropQueued
  \/ DiscardDone

Spec == Init /\ [][Next]_status

==============================================================================
