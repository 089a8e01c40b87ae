----------------------------- MODULE BoundedFifo -----------------------------
(***************************************************************************)
(* What a bounded first-in first-out store promises, whatever it is built  *)
(* from: values leave in the order in which they were put, at most         *)
(* Capacity of them are stored, and a store may be emptied at once.  The   *)
(* ring of the job manager (Ring) and the linked list of the channel       *)
(* (Channel) are shown to implement it.                                    *)
(***************************************************************************)
EXTENDS Naturals, Sequences

CONSTANTS Values,     \* what can be stored
          Capacity    \* the most values stored at a time

VARIABLES queue,      \* the stored values, oldest first
          last        \* the value handed out most recently

vars == <<queue, last>>

Init == queue = <<>> /\ last \in Values

Put(v) ==
  /\ Len(queue) < Capacity
  /\ queue' = Append(queue, v)
  /\ UNCHANGED last

Take ==
  /\ queue # <<>>
  /\ last' = Head(queue)
  /\ queue' = Tail(queue)

Clear ==
  /\ queue' = <<>>
  /\ UNCHANGED last

Next == (\E v \in Values : Put(v)) \/ Take \/ Clear

Spec == Init /\ [][Next]_vars

==============================================================================
