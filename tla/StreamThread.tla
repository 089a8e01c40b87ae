----------------------------- MODULE StreamThread -----------------------------
(***************************************************************************)
(* The stream thread of stream_manager.cpp.  The event loop pushes         *)
(* pointers to stream requests into one channel; the thread copies each    *)
(* request into its array of active ones, and when the mappings file knows *)
(* the user id of an active request it creates the stream's file and       *)
(* pushes a pointer to the request into the other channel.                 *)
(*                                                                         *)
(* The channels are the bounded FIFOs that module Channel shows them to    *)
(* be.  What the thread pushes back is a pointer into its array: the event *)
(* loop reads the slot when it takes the pointer out.  The array is longer *)
(* than the number of requests ever made here; the thread does not check.  *)
(***************************************************************************)
EXTENDS Naturals, Sequences, FiniteSets

CONSTANTS Requests,         \* the requests the event loop makes, each once
          Ids,              \* the user ids
          UserId,           \* m_user_id of each request
          ActiveCapacity,   \* m_active_requests_capacity
          ChannelCapacity,  \* the capacity of both channels
          NoRequest,        \* what an unused slot holds
          NoFile            \* m_mmfile is null

ASSUME StreamThreadAssumption ==
  /\ UserId \in [Requests -> Ids]
  /\ IsFiniteSet(Requests)
  /\ ActiveCapacity \in Nat \ {0} /\ Cardinality(Requests) <= ActiveCapacity
  /\ ChannelCapacity \in Nat \ {0}
  /\ NoRequest \notin Requests
  /\ NoFile \notin Ids

Slots == 0 .. ActiveCapacity - 1

\* m_user_id, m_stream_id and m_mmfile_size are those of the request; a file
\* is known by the id whose mapping named it.
SlotContents == [request : Requests \cup {NoRequest}, file : Ids \cup {NoFile}]

VARIABLES
  requests,     \* m_channel_requests
  responses,    \* m_channel_responses: pointers to slots
  slots,        \* m_active_requests
  nActive,      \* m_active_requests_size
  mapped,       \* m_mappings
  saved,         \* the ids in the mappings file
  newTime,      \* its st_mtime differs from m_mappings_file_stat
  pc,           \* where the thread is
  reply,        \* known_request
  asked,        \* history: the requests made
  answers,      \* history: what the event loop read, in order
  overlapped    \* history: a request was made before the last was answered

file == <<saved, newTime>>
thread == <<slots, nActive, mapped, pc, reply>>
history == <<asked, answers, overlapped>>
threadVars == <<requests, responses, thread, file, history>>

ThreadTypeOK ==
  /\ requests \in Seq(Requests) /\ Len(requests) <= ChannelCapacity
  /\ responses \in Seq(Slots) /\ Len(responses) <= ChannelCapacity
  /\ slots \in [Slots -> SlotContents]
  /\ nActive \in 0 .. ActiveCapacity
  /\ \A s \in Slots : s < nActive => slots[s].request # NoRequest
  /\ mapped \subseteq Ids /\ saved \subseteq Ids
  /\ newTime \in BOOLEAN
  /\ pc \in {"receive", "update", "serve", "respond"}
  /\ reply \in Slots
  /\ asked \subseteq Requests
  /\ answers \in Seq(SlotContents)
  /\ overlapped \in BOOLEAN

\* init_stream_thread clears the remembered time of the file.
ThreadInit ==
  /\ requests = <<>> /\ responses = <<>>
  /\ slots = [s \in Slots |-> [request |-> NoRequest, file |-> NoFile]]
  /\ nActive = 0
  /\ mapped = {}
  /\ saved \in SUBSET Ids
  /\ newTime = TRUE
  /\ pc = "receive"
  /\ reply = 0
  /\ asked = {} /\ answers = <<>> /\ overlapped = FALSE

------------------------------------------------------------------------------
(* The event loop, and whoever edits the mappings file.                    *)

\* The event loop asks for a stream; m_mmfile starts out null.
Ask(r) ==
  /\ r \notin asked
  /\ Len(requests) < ChannelCapacity
  /\ requests' = Append(requests, r)
  /\ asked' = asked \cup {r}
  /\ overlapped' = (overlapped \/ Cardinality(asked) > Len(answers))
  /\ UNCHANGED <<responses, thread, file, answers>>

\* The event loop polls the responses and reads the request it is pointed to.
Receive ==
  /\ responses # <<>>
  /\ responses' = Tail(responses)
  /\ answers' = Append(answers, slots[Head(responses)])
  /\ UNCHANGED <<requests, thread, file, asked, overlapped>>

\* The file is written.  st_mtime counts seconds: a second write in the
\* second of the first one does not change it.
EditMappings(ids) ==
  /\ saved' = ids
  /\ newTime' \in {newTime, TRUE}
  /\ UNCHANGED <<requests, responses, thread, history>>

------------------------------------------------------------------------------
(* The thread: one round of stream_thread_function.                        *)

\* Mutant: a request goes into the slot behind the free one.
SlotBehind == nActive + 1

FreeSlot == nActive

Activate(r) ==
  /\ slots' = [slots EXCEPT ![FreeSlot] = [request |-> r, file |-> NoFile]]
  /\ nActive' = nActive + 1

\* Without active requests the thread blocks in channel_pop; otherwise it
\* polls with channel_pop_nowait.
TakeRequest ==
  /\ pc = "receive"
  /\ \/ /\ requests # <<>>
        /\ requests' = Tail(requests)
        /\ Activate(Head(requests))
     \/ /\ requests = <<>> /\ nActive # 0
        /\ UNCHANGED <<requests, slots, nActive>>
  /\ pc' = "update"
  /\ UNCHANGED <<responses, mapped, reply, file, history>>

\* update_mappings reads the file again when its time is not the remembered
\* one.
UpdateMappings ==
  /\ pc = "update"
  /\ mapped' = IF newTime THEN saved ELSE mapped
  /\ newTime' = FALSE
  /\ pc' = "serve"
  /\ UNCHANGED <<requests, responses, slots, nActive, reply, saved, history>>

\* Mutant: a search that stops one short.
KnownBeforeLast(s) == s + 1 < nActive /\ UserId[slots[s].request] \in mapped

Known(s) == s < nActive /\ UserId[slots[s].request] \in mapped

\* Mutant: the active request is answered and stays active.
ActiveAfterCopy == nActive

ActiveAfterRemoval == nActive - 1

\* pop_known_request moves the last active request into the slot of the first
\* known one and returns the address of that slot; the file that the mapping
\* names is created or not, and the result goes into the same slot.
ServeRequest ==
  /\ pc = "serve"
  /\ \E s \in Slots :
       /\ Known(s)
       /\ \A t \in Slots : t < s => ~Known(t)
       /\ \E made \in {UserId[slots[s].request], NoFile} :
            slots' = [slots EXCEPT ![s] = [slots[nActive - 1] EXCEPT !.file = made]]
       /\ reply' = s
  /\ nActive' = ActiveAfterRemoval
  /\ pc' = "respond"
  /\ UNCHANGED <<requests, responses, mapped, file, history>>

NothingKnown ==
  /\ pc = "serve"
  /\ \A s \in Slots : ~Known(s)
  /\ pc' = "receive"
  /\ UNCHANGED <<requests, responses, slots, nActive, mapped, reply, file, history>>

\* Mutant: a push that does not wait for room.
HaveRoom == TRUE

ResponsesHaveRoom == Len(responses) < ChannelCapacity

\* channel_push blocks while the responses are full.
Respond ==
  /\ pc = "respond"
  /\ ResponsesHaveRoom
  /\ responses' = Append(responses, reply)
  /\ pc' = "serve"
  /\ UNCHANGED <<requests, slots, nActive, mapped, reply, file, history>>

ThreadStep == TakeRequest \/ UpdateMappings \/ ServeRequest \/ NothingKnown \/ Respond

ThreadNext ==
  \/ \E r \in Requests : Ask(r)
  \/ Receive
  \/ \E ids \in SUBSET Ids : EditMappings(ids)
  \/ ThreadStep

ThreadSpec == ThreadInit /\ [][ThreadNext]_threadVars

\* The thread runs for ever, and the event loop polls the responses.
FairThreadSpec == ThreadSpec /\ WF_threadVars(ThreadStep) /\ WF_threadVars(Receive)

------------------------------------------------------------------------------

InFlight == IF pc = "respond" THEN 1 ELSE 0

\* Each request is in exactly one place, counted: waiting, active, about to be
\* answered, answered or received.  So there are never more answers than
\* requests, and no channel or array needs more room than the requests made.
AnswersAreCounted ==
  /\ ThreadTypeOK
  /\ Cardinality(asked) =
       Len(requests) + nActive + InFlight + Len(responses) + Len(answers)

Answered(r) == \E i \in DOMAIN answers : answers[i].request = r

\* "a pointer to a stream request that contains the user-id, stream-id, and
\* resulting mappedfile": each request is answered once, with the file that
\* the mapping of its own user id names, or with none.
AnswersMatch ==
  /\ \A i \in DOMAIN answers :
       answers[i].file \in {NoFile, UserId[answers[i].request]}
  /\ \A i, k \in DOMAIN answers : answers[i].request = answers[k].request => i = k

\* That holds as long as the event loop waits for each answer before it makes
\* the next request, whatever the editor of the mappings file does meanwhile.
SingleAnswersMatch == ~overlapped => AnswersMatch

\* A request whose id the thread knows for good is answered, if the event loop
\* has always waited for its answers.
KnownRequestsAnswered ==
  \A r \in Requests :
    <>[](r \in asked /\ UserId[r] \in mapped /\ ~overlapped) => <>Answered(r)

==============================================================================
