----------------------------- MODULE MCJobManager -----------------------------
(***************************************************************************)
(* Small instances of JobManager for TLC.                                  *)
(***************************************************************************)
EXTENDS JobManager, TLC

CONSTANTS Capacity0, Capacity1    \* the capacities of the first two channels

MCCompletedCapacity == [c \in Channels |-> IF c = 0 THEN Capacity0 ELSE Capacity1]

\* The workers are alike, and so are the jobs and the clients that wait.
Symmetry == Permutations(Workers) \cup Permutations(Jobs) \cup Permutations(Waiters)

==============================================================================
