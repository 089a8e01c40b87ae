----------------------------- MODULE StreamProofs -----------------------------
(***************************************************************************)
(* The stream thread and the stream store, which share only the files the  *)
(* one creates and the other fills; each is proved by itself.              *)
(*                                                                         *)
(* The thread, for every number of requests and every capacity of the      *)
(* channels: AnswersAreCounted is inductive, each step moves one request   *)
(* from one place to the next, and the count bounds the array that the     *)
(* thread fills without looking at its capacity.  SingleAnswersMatch       *)
(* follows from SingleInv, which says where the one open request is.       *)
(*                                                                         *)
(* The store, for every set of files, sizes and times: headers agree with  *)
(* the items, what was flushed survives a loss of power, times can be      *)
(* computed back, and checked writes stay inside the file.                 *)
(***************************************************************************)
EXTENDS StreamThread, StreamStore, FiniteSetTheorems, TLAPS

------------------------------------------------------------------------------
(* The stream thread.                                                        *)

USE StreamThreadAssumption

LEMMA AskedFinite ==
  ASSUME NEW S \in SUBSET Requests
  PROVE  /\ IsFiniteSet(S) /\ Cardinality(S) \in Nat
         /\ Cardinality(S) <= ActiveCapacity
<1>1. IsFiniteSet(S) /\ Cardinality(S) <= Cardinality(Requests)
  BY FS_Subset
<1> QED
  BY <1>1, FS_CardinalityType

LEMMA CountInit == ThreadInit => AnswersAreCounted
<1> SUFFICES ASSUME ThreadInit PROVE AnswersAreCounted
  OBVIOUS
<1>1. ThreadTypeOK
  <2>1. slots \in [Slots -> SlotContents]
    BY DEF ThreadInit, SlotContents
  <2>2. reply \in Slots
    BY DEF ThreadInit, Slots
  <2>3. \A s \in Slots : ~(s < nActive)
    BY DEF ThreadInit, Slots
  <2>4. requests \in Seq(Requests) /\ responses \in Seq(Slots) /\ answers \in Seq(SlotContents)
    BY DEF ThreadInit
  <2>5. Len(requests) <= ChannelCapacity /\ Len(responses) <= ChannelCapacity
    BY DEF ThreadInit
  <2>6. nActive \in 0 .. ActiveCapacity
    BY DEF ThreadInit
  <2> QED
    BY <2>1, <2>2, <2>3, <2>4, <2>5, <2>6, Zenon DEF ThreadInit, ThreadTypeOK
<1>2. Cardinality(asked) = 0
  BY FS_EmptySet DEF ThreadInit
<1> QED
  BY <1>1, <1>2 DEF AnswersAreCounted, ThreadInit, InFlight

LEMMA AskCounted ==
  ASSUME AnswersAreCounted, NEW r \in Requests, Ask(r)
  PROVE  AnswersAreCounted'
<1> USE DEF AnswersAreCounted
<1>1. Cardinality(asked') = Cardinality(asked) + 1
  BY AskedFinite, FS_AddElement DEF ThreadTypeOK, Ask
<1>2. Len(requests') = Len(requests) + 1 /\ requests' \in Seq(Requests)
  BY DEF ThreadTypeOK, Ask
<1>3. Len(requests') <= ChannelCapacity
  BY <1>2 DEF ThreadTypeOK, Ask
<1>4. ThreadTypeOK'
  BY <1>2, <1>3, Zenon DEF ThreadTypeOK, Ask, thread, file
<1> QED
  BY <1>1, <1>2, <1>4 DEF ThreadTypeOK, Ask, thread, InFlight

LEMMA ReceiveCounted ==
  ASSUME AnswersAreCounted, Receive
  PROVE  AnswersAreCounted'
<1> USE DEF AnswersAreCounted
<1>1. /\ Len(responses') = Len(responses) - 1 /\ responses' \in Seq(Slots)
      /\ Head(responses) \in Slots
  BY DEF ThreadTypeOK, Receive
<1>2. Len(answers') = Len(answers) + 1 /\ answers' \in Seq(SlotContents)
  BY <1>1 DEF ThreadTypeOK, Receive
<1>3. ThreadTypeOK'
  BY <1>1, <1>2 DEF ThreadTypeOK, Receive, thread, file
<1> QED
  BY <1>1, <1>2, <1>3 DEF ThreadTypeOK, Receive, thread, InFlight

LEMMA EditCounted ==
  ASSUME AnswersAreCounted, NEW ids \in SUBSET Ids, EditMappings(ids)
  PROVE  AnswersAreCounted'
<1>1. ThreadTypeOK'
  BY Zenon DEF AnswersAreCounted, ThreadTypeOK, EditMappings, thread, history
<1> QED
  BY <1>1 DEF AnswersAreCounted, EditMappings, thread, history, InFlight

LEMMA TakeRequestCounted ==
  ASSUME AnswersAreCounted, TakeRequest
  PROVE  AnswersAreCounted'
<1> USE DEF AnswersAreCounted
<1>1. CASE requests # <<>> /\ requests' = Tail(requests) /\ Activate(Head(requests))
  <2>1. /\ Len(requests') = Len(requests) - 1 /\ requests' \in Seq(Requests)
        /\ Head(requests) \in Requests
    BY <1>1 DEF ThreadTypeOK
  <2>2. nActive < ActiveCapacity /\ nActive \in Slots
    <3>1. Cardinality(asked) <= ActiveCapacity /\ Cardinality(asked) \in Nat
      BY AskedFinite DEF ThreadTypeOK
    <3>2. Len(requests) >= 1 /\ Len(responses) \in Nat /\ Len(answers) \in Nat /\ InFlight \in Nat
      BY <1>1 DEF ThreadTypeOK, InFlight
    <3> QED
      BY <3>1, <3>2 DEF ThreadTypeOK, Slots
  <2>3. slots' \in [Slots -> SlotContents]
    BY <1>1, <2>1, <2>2 DEF ThreadTypeOK, Activate, FreeSlot, SlotContents
  <2>4. \A s \in Slots : s < nActive' => slots'[s].request # NoRequest
    BY <1>1, <2>1, <2>2 DEF ThreadTypeOK, Activate, FreeSlot, Slots
  <2>5. Len(requests') <= ChannelCapacity /\ nActive' \in 0 .. ActiveCapacity
    BY <1>1, <2>1, <2>2 DEF ThreadTypeOK, Activate, Slots
  <2>6. ThreadTypeOK'
    BY <2>1, <2>3, <2>4, <2>5, Zenon DEF ThreadTypeOK, TakeRequest, file, history
  <2>7. /\ nActive' = nActive + 1 /\ responses' = responses
        /\ answers' = answers /\ asked' = asked /\ InFlight' = InFlight
    BY <1>1 DEF Activate, TakeRequest, history, InFlight
  <2>8. /\ Len(requests) \in Nat /\ Len(responses) \in Nat /\ Len(answers) \in Nat
        /\ InFlight \in Nat /\ nActive \in Nat
    BY DEF ThreadTypeOK, InFlight
  <2> QED
    BY <2>1, <2>6, <2>7, <2>8
<1>2. CASE requests = <<>> /\ nActive # 0 /\ UNCHANGED <<requests, slots, nActive>>
  <2>1. ThreadTypeOK'
    BY <1>2, Zenon DEF ThreadTypeOK, TakeRequest, file, history
  <2>2. /\ requests' = requests /\ nActive' = nActive /\ responses' = responses
        /\ answers' = answers /\ asked' = asked
    BY <1>2 DEF TakeRequest, history
  <2>3. InFlight' = InFlight
    BY DEF TakeRequest, InFlight
  <2> QED
    BY <2>1, <2>2, <2>3
<1> QED
  BY <1>1, <1>2 DEF TakeRequest

LEMMA UpdateCounted ==
  ASSUME AnswersAreCounted, UpdateMappings
  PROVE  AnswersAreCounted'
<1>1. ThreadTypeOK'
  BY DEF AnswersAreCounted, ThreadTypeOK, UpdateMappings, history
<1> QED
  BY <1>1 DEF AnswersAreCounted, UpdateMappings, history, InFlight

LEMMA ServeCounted ==
  ASSUME AnswersAreCounted, ServeRequest
  PROVE  AnswersAreCounted'
<1> USE DEF AnswersAreCounted
<1>1. PICK s \in Slots :
        /\ Known(s)
        /\ \E made \in {UserId[slots[s].request], NoFile} :
             slots' = [slots EXCEPT ![s] = [slots[nActive - 1] EXCEPT !.file = made]]
        /\ reply' = s
  BY DEF ServeRequest
<1>2. PICK made \in {UserId[slots[s].request], NoFile} :
        slots' = [slots EXCEPT ![s] = [slots[nActive - 1] EXCEPT !.file = made]]
  BY <1>1
<1>3. nActive - 1 \in Slots /\ s <= nActive - 1 /\ nActive' = nActive - 1
  BY <1>1 DEF ThreadTypeOK, Known, Slots, ServeRequest, ActiveAfterRemoval
<1>4. made \in Ids \cup {NoFile}
  BY <1>1 DEF ThreadTypeOK, SlotContents, Known
<1>5. slots' \in [Slots -> SlotContents]
  BY <1>2, <1>3, <1>4 DEF ThreadTypeOK, SlotContents
<1>6. \A t \in Slots : t < nActive' => slots'[t].request # NoRequest
  BY <1>2, <1>3, <1>4 DEF ThreadTypeOK, SlotContents, Slots
<1>7. ThreadTypeOK'
  BY <1>1, <1>3, <1>5, <1>6 DEF ThreadTypeOK, ServeRequest, Slots, file, history
<1> QED
  BY <1>3, <1>7 DEF ThreadTypeOK, ServeRequest, history, InFlight

LEMMA NothingKnownCounted ==
  ASSUME AnswersAreCounted, NothingKnown
  PROVE  AnswersAreCounted'
<1>1. ThreadTypeOK'
  BY DEF AnswersAreCounted, ThreadTypeOK, NothingKnown, file, history
<1> QED
  BY <1>1 DEF AnswersAreCounted, NothingKnown, history, InFlight

LEMMA RespondCounted ==
  ASSUME AnswersAreCounted, Respond
  PROVE  AnswersAreCounted'
<1> USE DEF AnswersAreCounted
<1>1. /\ Len(responses') = Len(responses) + 1 /\ responses' \in Seq(Slots)
      /\ Len(responses') <= ChannelCapacity
  BY DEF ThreadTypeOK, Respond, ResponsesHaveRoom
<1>2. ThreadTypeOK'
  BY <1>1 DEF ThreadTypeOK, Respond, file, history
<1> QED
  BY <1>1, <1>2 DEF ThreadTypeOK, Respond, history, InFlight

LEMMA CountStep == AnswersAreCounted /\ [ThreadNext]_threadVars => AnswersAreCounted'
<1> SUFFICES ASSUME AnswersAreCounted, [ThreadNext]_threadVars PROVE AnswersAreCounted'
  OBVIOUS
<1>1. CASE \E r \in Requests : Ask(r)
  BY <1>1, AskCounted
<1>2. CASE Receive
  BY <1>2, ReceiveCounted
<1>3. CASE \E ids \in SUBSET Ids : EditMappings(ids)
  BY <1>3, EditCounted
<1>4. CASE ThreadStep
  BY <1>4, TakeRequestCounted, UpdateCounted, ServeCounted, NothingKnownCounted,
     RespondCounted DEF ThreadStep
<1>5. CASE UNCHANGED threadVars
  BY <1>5 DEF AnswersAreCounted, ThreadTypeOK, InFlight, threadVars, thread, file, history
<1> QED
  BY <1>1, <1>2, <1>3, <1>4, <1>5 DEF ThreadNext

(***************************************************************************)
(* Every request is in one place, and the array of the thread, whose       *)
(* capacity stream_thread_function does not look at, is never exceeded     *)
(* (stream_manager.cpp 663-715).                                           *)
(***************************************************************************)
THEOREM RequestsCounted == ThreadSpec => []AnswersAreCounted
  BY CountInit, CountStep, PTL DEF ThreadSpec

------------------------------------------------------------------------------
(* While the event loop waits for each answer there is one open request,   *)
(* and it is in one of four places.                                        *)

OpenCount == Len(requests) + nActive + InFlight + Len(responses)

OpenRequests ==
  {r \in Requests :
     \/ requests # <<>> /\ r = Head(requests)
     \/ nActive = 1 /\ r = slots[0].request
     \/ pc = "respond" /\ r = slots[reply].request
     \/ responses # <<>> /\ r = slots[Head(responses)].request}

Proper(contents) ==
  /\ contents.request \in asked
  /\ contents.file \in {NoFile, UserId[contents.request]}

OpenIsUnanswered ==
  /\ OpenRequests \subseteq asked
  /\ \A r \in OpenRequests : \A i \in DOMAIN answers : answers[i].request # r

AnswersDistinct ==
  \A i, k \in DOMAIN answers : answers[i].request = answers[k].request => i = k

SingleInv ==
  /\ OpenCount <= 1
  /\ OpenIsUnanswered
  /\ AnswersDistinct
  /\ \A i \in DOMAIN answers : Proper(answers[i])
  /\ pc = "respond" => Proper(slots[reply])
  /\ responses # <<>> => Proper(slots[Head(responses)])

LEMMA Lengths ==
  ASSUME ThreadTypeOK
  PROVE  /\ Len(requests) \in Nat /\ Len(responses) \in Nat /\ Len(answers) \in Nat
         /\ nActive \in Nat /\ InFlight \in {0, 1}
         /\ requests = <<>> <=> Len(requests) = 0
         /\ responses = <<>> <=> Len(responses) = 0
         /\ pc = "respond" <=> InFlight = 1
BY DEF ThreadTypeOK, InFlight

LEMMA OnlyOne ==
  ASSUME NEW a \in Nat, NEW b \in Nat, NEW c \in Nat, NEW d \in Nat, a + b + c + d <= 1
  PROVE  (a # 0 => a = 1) /\ (d # 0 => d = 1)
OBVIOUS

LEMMA SeqEqual ==
  ASSUME NEW S, NEW q \in Seq(S), NEW u \in Seq(S), Len(q) = Len(u),
         \A i \in 1 .. Len(q) : q[i] = u[i]
  PROVE  q = u
OBVIOUS

LEMMA Singleton ==
  ASSUME NEW S, NEW q \in Seq(S), Len(q) = 1
  PROVE  q = <<Head(q)>> /\ Head(q) \in S /\ Tail(q) = <<>>
<1>1. q # <<>> /\ Head(q) = q[1] /\ q[1] \in S
  OBVIOUS
<1>2. q = <<q[1]>>
  <2>1. <<q[1]>> \in Seq(S) /\ Len(<<q[1]>>) = 1
    BY <1>1
  <2>2. \A i \in 1 .. 1 : q[i] = <<q[1]>>[i]
    OBVIOUS
  <2> QED
    BY <2>1, <2>2, SeqEqual
<1>3. Tail(q) = <<>>
  <2>1. Tail(q) \in Seq(S) /\ Len(Tail(q)) = 0 /\ Len(<<>>) = 0 /\ <<>> \in Seq(S)
    BY <1>1
  <2>2. \A i \in 1 .. 0 : Tail(q)[i] = <<>>[i]
    OBVIOUS
  <2> QED
    BY <2>1, <2>2, SeqEqual
<1> QED
  BY <1>1, <1>2, <1>3

LEMMA SingleAsk ==
  ASSUME AnswersAreCounted, ~overlapped => SingleInv, NEW r \in Requests, Ask(r),
         ~overlapped'
  PROVE  SingleInv'
<1>1. ThreadTypeOK /\ SingleInv
  BY Zenon DEF Ask, AnswersAreCounted
<1>2. ~(Cardinality(asked) > Len(answers))
  BY Zenon DEF Ask
<1>3. Cardinality(asked) \in Nat
  BY <1>1, AskedFinite DEF ThreadTypeOK
<1>4. requests = <<>> /\ nActive = 0 /\ pc # "respond" /\ responses = <<>>
  BY <1>1, <1>2, <1>3, Lengths DEF AnswersAreCounted
<1>5. /\ requests' = <<r>> /\ responses' = <<>> /\ nActive' = 0 /\ pc' = pc
      /\ asked' = asked \cup {r} /\ answers' = answers /\ slots' = slots
      /\ reply' = reply /\ r \notin asked
  BY <1>1, <1>4 DEF Ask, thread, ThreadTypeOK
<1>6. OpenCount' <= 1
  BY <1>4, <1>5 DEF OpenCount, InFlight
<1>7. OpenRequests' = {r}
  BY <1>4, <1>5 DEF OpenRequests
<1>8. \A i \in DOMAIN answers : answers[i].request # r /\ Proper(answers[i])'
  BY <1>1, <1>5 DEF SingleInv, Proper
<1> QED
  BY <1>1, <1>4, <1>5, <1>6, <1>7, <1>8 DEF SingleInv, OpenIsUnanswered, AnswersDistinct

LEMMA SingleReceive ==
  ASSUME AnswersAreCounted, SingleInv, Receive
  PROVE  SingleInv'
<1>1. ThreadTypeOK
  BY DEF AnswersAreCounted
<1>2. PICK s \in Slots : responses = <<s>>
  <2>1. OpenCount <= 1 /\ responses # <<>>
    BY DEF SingleInv, Receive
  <2>2. Len(responses) = 1
    <3>1. Len(responses) # 0
      BY <1>1, <2>1, Lengths
    <3>2. /\ Len(responses) \in Nat /\ Len(requests) \in Nat /\ nActive \in Nat
          /\ InFlight \in Nat
      BY <1>1, Lengths
    <3> QED
      BY <2>1, <3>1, <3>2, OnlyOne DEF OpenCount
  <2> QED
    BY <1>1, <2>2, Singleton DEF ThreadTypeOK
<1>3. requests = <<>> /\ nActive = 0 /\ pc # "respond"
  BY <1>1, <1>2, Lengths DEF SingleInv, OpenCount
<1>4. /\ requests' = <<>> /\ responses' = <<>> /\ nActive' = 0 /\ pc' = pc
      /\ asked' = asked /\ slots' = slots /\ answers' = Append(answers, slots[s])
  BY <1>2, <1>3 DEF Receive, thread
<1>5. OpenCount' <= 1
  BY <1>3, <1>4 DEF OpenCount, InFlight
<1>6. OpenRequests' = {}
  BY <1>3, <1>4 DEF OpenRequests
<1>7. Proper(slots[s])
  BY <1>2 DEF SingleInv
<1>8. \A i \in DOMAIN answers : answers[i].request # slots[s].request
  BY <1>1, <1>2, <1>7 DEF SingleInv, OpenIsUnanswered, OpenRequests, Proper, ThreadTypeOK
<1>9. /\ Len(answers') = Len(answers) + 1 /\ answers'[Len(answers) + 1] = slots[s]
      /\ \A i \in 1 .. Len(answers) : answers'[i] = answers[i]
      /\ DOMAIN answers = 1 .. Len(answers) /\ DOMAIN answers' = 1 .. Len(answers) + 1
  BY <1>1, <1>2, <1>4 DEF ThreadTypeOK
<1>10. AnswersDistinct'
  BY <1>1, <1>8, <1>9, Lengths DEF SingleInv, AnswersDistinct
<1>11. (\A i \in DOMAIN answers : Proper(answers[i]))'
  <2>1. \A i \in DOMAIN answers' :
          answers'[i].request \in asked /\ answers'[i].file \in {NoFile, UserId[answers'[i].request]}
    BY <1>1, <1>7, <1>9, Lengths DEF SingleInv, Proper
  <2> QED
    BY <1>4, <2>1 DEF Proper
<1> QED
  BY <1>3, <1>4, <1>5, <1>6, <1>10, <1>11 DEF SingleInv, OpenIsUnanswered

LEMMA SingleKeeps ==
  ASSUME SingleInv, requests' = requests, responses' = responses, nActive' = nActive,
         slots' = slots, reply' = reply, answers' = answers, asked' = asked,
         pc' # "respond", pc # "respond"
  PROVE  SingleInv'
<1>1. OpenCount' = OpenCount
  BY DEF OpenCount, InFlight
<1>2. OpenRequests' = OpenRequests
  BY DEF OpenRequests
<1>3. \A c : Proper(c)' = Proper(c)
  BY DEF Proper
<1> QED
  BY <1>1, <1>2 DEF SingleInv, OpenIsUnanswered, AnswersDistinct, Proper

LEMMA SingleTake ==
  ASSUME AnswersAreCounted, SingleInv, TakeRequest
  PROVE  SingleInv'
<1>1. ThreadTypeOK
  BY DEF AnswersAreCounted
<1>2. CASE requests # <<>> /\ requests' = Tail(requests) /\ Activate(Head(requests))
  <2>1. PICK r \in Requests : requests = <<r>>
    <3>1. OpenCount <= 1
      BY DEF SingleInv
    <3>2. Len(requests) = 1
      <4>1. Len(requests) # 0
        BY <1>1, <1>2, Lengths
      <4>2. /\ Len(responses) \in Nat /\ Len(requests) \in Nat /\ nActive \in Nat
            /\ InFlight \in Nat
        BY <1>1, Lengths
      <4> QED
        BY <3>1, <4>1, <4>2, OnlyOne DEF OpenCount
    <3> QED
      BY <1>1, <3>2, Singleton DEF ThreadTypeOK
  <2>2. nActive = 0 /\ responses = <<>>
    BY <1>1, <2>1, Lengths DEF SingleInv, OpenCount
  <2>3. /\ requests' = <<>> /\ nActive' = 1 /\ responses' = <<>> /\ pc' = "update"
        /\ answers' = answers /\ asked' = asked
    BY <1>2, <2>1, <2>2 DEF Activate, TakeRequest, history
  <2>4. slots'[0].request = r
    BY <1>1, <1>2, <2>1, <2>2 DEF Activate, FreeSlot, ThreadTypeOK, Slots
  <2>5. OpenCount' <= 1
    BY <2>3 DEF OpenCount, InFlight
  <2>6. OpenRequests' = {r} /\ r \in OpenRequests
    BY <2>1, <2>3, <2>4 DEF OpenRequests
  <2> QED
    BY <2>3, <2>5, <2>6 DEF SingleInv, OpenIsUnanswered, AnswersDistinct, Proper
<1>3. CASE requests = <<>> /\ nActive # 0 /\ UNCHANGED <<requests, slots, nActive>>
  BY <1>3, SingleKeeps DEF TakeRequest, history
<1> QED
  BY <1>2, <1>3 DEF TakeRequest

LEMMA SingleServe ==
  ASSUME AnswersAreCounted, SingleInv, ServeRequest
  PROVE  SingleInv'
<1>1. ThreadTypeOK
  BY DEF AnswersAreCounted
<1>2. nActive = 1 /\ requests = <<>> /\ responses = <<>>
  BY <1>1, Lengths DEF SingleInv, OpenCount, ServeRequest, Known, Slots
<1>3. PICK made \in {UserId[slots[0].request], NoFile} :
        slots' = [slots EXCEPT ![0] = [slots[0] EXCEPT !.file = made]] /\ reply' = 0
  <2>1. PICK s \in Slots :
          /\ Known(s) /\ reply' = s
          /\ \E made \in {UserId[slots[s].request], NoFile} :
               slots' = [slots EXCEPT ![s] = [slots[nActive - 1] EXCEPT !.file = made]]
    BY DEF ServeRequest
  <2>2. s = 0 /\ nActive - 1 = 0
    BY <1>2, <2>1 DEF Known, Slots
  <2> QED
    BY <2>1, <2>2
<1>4. slots'[0].request = slots[0].request /\ slots'[0].file = made
  BY <1>1, <1>3 DEF ThreadTypeOK, Slots, SlotContents
<1>5. slots[0].request \in Requests
  BY <1>1, <1>2 DEF ThreadTypeOK, Slots, SlotContents
<1>6. /\ requests' = <<>> /\ nActive' = 0 /\ responses' = <<>> /\ pc' = "respond"
      /\ answers' = answers /\ asked' = asked
  BY <1>2 DEF ServeRequest, ActiveAfterRemoval, history
<1>7. OpenCount' <= 1
  BY <1>6 DEF OpenCount, InFlight
<1>8. OpenRequests' = {slots[0].request} /\ slots[0].request \in OpenRequests
  BY <1>2, <1>3, <1>4, <1>5, <1>6 DEF OpenRequests
<1>9. Proper(slots[reply])'
  BY <1>3, <1>4, <1>6, <1>8 DEF SingleInv, OpenIsUnanswered, Proper
<1> QED
  BY <1>6, <1>7, <1>8, <1>9 DEF SingleInv, OpenIsUnanswered, AnswersDistinct, Proper

LEMMA SingleRespond ==
  ASSUME AnswersAreCounted, SingleInv, Respond
  PROVE  SingleInv'
<1>1. ThreadTypeOK
  BY DEF AnswersAreCounted
<1>2. pc = "respond" /\ requests = <<>> /\ responses = <<>> /\ nActive = 0
  BY <1>1, Lengths DEF SingleInv, OpenCount, Respond
<1>3. /\ requests' = <<>> /\ nActive' = 0 /\ responses' = <<reply>> /\ pc' = "serve"
      /\ answers' = answers /\ asked' = asked /\ slots' = slots /\ reply' = reply
  BY <1>1, <1>2 DEF Respond, history, ThreadTypeOK
<1>4. OpenCount' <= 1
  BY <1>3 DEF OpenCount, InFlight
<1>5. OpenRequests' = OpenRequests
  BY <1>2, <1>3 DEF OpenRequests
<1> QED
  BY <1>2, <1>3, <1>4, <1>5 DEF SingleInv, OpenIsUnanswered, AnswersDistinct, Proper

LEMMA SingleInit == ThreadInit => SingleInv
<1> SUFFICES ASSUME ThreadInit PROVE SingleInv
  OBVIOUS
<1>1. OpenRequests = {}
  BY DEF ThreadInit, OpenRequests
<1>2. OpenCount <= 1
  BY DEF ThreadInit, OpenCount, InFlight
<1> QED
  BY <1>1, <1>2 DEF ThreadInit, SingleInv, OpenIsUnanswered, AnswersDistinct

LEMMA SingleStep ==
  ASSUME AnswersAreCounted, ~overlapped => SingleInv, [ThreadNext]_threadVars, ~overlapped'
  PROVE  SingleInv'
<1>1. CASE \E r \in Requests : Ask(r)
  BY <1>1, SingleAsk
<1>2. CASE ~(\E r \in Requests : Ask(r))
  <2>1. overlapped' = overlapped
    BY <1>2 DEF ThreadNext, Receive, EditMappings, ThreadStep, TakeRequest, UpdateMappings,
                ServeRequest, NothingKnown, Respond, threadVars, history
  <2>2. SingleInv
    BY <2>1, Zenon
  <2>3. CASE Receive
    BY <2>2, <2>3, SingleReceive
  <2>4. CASE TakeRequest
    BY <2>2, <2>4, SingleTake
  <2>5. CASE ServeRequest
    BY <2>2, <2>5, SingleServe
  <2>6. CASE Respond
    BY <2>2, <2>6, SingleRespond
  <2>7. CASE UpdateMappings \/ NothingKnown
    BY <2>2, <2>7, SingleKeeps DEF UpdateMappings, NothingKnown, history
  <2>8. CASE (\E ids \in SUBSET Ids : EditMappings(ids)) \/ UNCHANGED threadVars
    BY <2>2, <2>8 DEF EditMappings, threadVars, thread, file, history, SingleInv, OpenCount,
         InFlight, OpenIsUnanswered, OpenRequests, AnswersDistinct, Proper
  <2> QED
    BY <1>2, <2>3, <2>4, <2>5, <2>6, <2>7, <2>8 DEF ThreadNext, ThreadStep
<1> QED
  BY <1>1, <1>2

(***************************************************************************)
(* As long as the event loop waits for each answer, every answer is for    *)
(* the request it was made for, with the file of that request, whatever    *)
(* becomes of the mappings file meanwhile (stream_manager.cpp 639-713).    *)
(***************************************************************************)
THEOREM SingleRequestsAnswered == ThreadSpec => []SingleAnswersMatch
<1>1. ThreadInit => (~overlapped => SingleInv)
  BY SingleInit
<1>2. AnswersAreCounted /\ (~overlapped => SingleInv) /\ [ThreadNext]_threadVars
        => (~overlapped => SingleInv)'
  BY SingleStep
<1>3. (~overlapped => SingleInv) => SingleAnswersMatch
  BY Zenon DEF SingleInv, AnswersDistinct, Proper, SingleAnswersMatch, AnswersMatch
<1> QED
  BY <1>1, <1>2, <1>3, RequestsCounted, PTL DEF ThreadSpec

HIDE StreamThreadAssumption

------------------------------------------------------------------------------
(* The stream store.                                                         *)

USE StreamStoreAssumption

------------------------------------------------------------------------------
(* Sequences and numbers.                                                  *)

LEMMA SeqMono ==
  ASSUME NEW S, NEW T, S \subseteq T, NEW q \in Seq(S)
  PROVE  q \in Seq(T)
<1>1. \A i \in 1 .. Len(q) : q[i] \in T
  OBVIOUS
<1> QED
  BY <1>1

LEMMA Product ==
  ASSUME NEW a \in Nat, NEW b \in Nat \ {0}
  PROVE  a * b \in Nat /\ a <= a * b /\ (a + 1) * b = a * b + b /\ (a * b) \div b = a
OBVIOUS

\* The place of the next item behind count items of this size.
LEMMA Place ==
  ASSUME NEW count \in Nat, NEW size \in Nat \ {0}
  PROVE  /\ HeaderSize + (count + 1) * size = HeaderSize + count * size + size
         /\ (HeaderSize + count * size - HeaderSize) \div size + 1 = count + 1
         /\ HeaderSize + count * size + size <= FileSize => count + 1 \in 1 .. Capacity
<1>1. count * size \in Nat /\ (count + 1) * size = count * size + size
  BY Product
<1>2. count + 1 <= (count + 1) * size
  BY Product
<1>3. HeaderSize + count * size - HeaderSize = count * size
  BY <1>1
<1> QED
  BY <1>1, <1>2, <1>3, Product DEF Capacity

\* A time in the range of its stream loses nothing when its high bytes are
\* cut off.
LEMMA CutOff ==
  ASSUME NEW x \in Int
  PROVE  x % TimeRange \in Nat /\ (x >= 0 /\ x < TimeRange => x % TimeRange = x)
OBVIOUS

LEMMA Sizes == \A f \in Files : ItemSize(f) \in Nat \ {0} /\ TimeSize <= ItemSize(f)
BY DEF ItemSize

------------------------------------------------------------------------------
(* The inductive invariant.                                                *)

\* What is stored for a time.
Since(time) == (time - Begin) % TimeRange

Header(f, h) ==
  IF f \in Blank
  THEN h.size = 0 /\ h.count = 0 /\ h.cursor = 0
  ELSE /\ h.begin = Begin /\ h.size = FileSize
       /\ h.cursor = HeaderSize + h.count * ItemSize(f)

\* The contents hold these items, and their end is not before any of them.
Holds(contents, list) ==
  /\ Len(list) <= contents.header.count
  /\ \A i \in 1 .. Len(list) : list[i] # Unknown =>
       contents.cells[i] = Since(list[i]) /\ list[i] <= contents.header.end

FileInv(f) ==
  /\ Header(f, memory[f].header) /\ Header(f, disk[f].header)
  /\ Len(items[f]) = memory[f].header.count
  /\ disk[f].header.count <= memory[f].header.count
  /\ Holds(memory[f], items[f]) /\ Holds(disk[f], flushed[f])
  /\ \A i \in 1 .. Len(flushed[f]) : flushed[f][i] = items[f][i]

StoreInv == TypeOK /\ CheckedWritesStayInside /\ \A f \in Files : FileInv(f)

LEMMA ContentsType ==
  ASSUME NEW c \in Contents
  PROVE  /\ c.header \in Headers /\ c.cells \in [1 .. Capacity -> Nat \cup {Nothing}]
         /\ c.header.begin \in Nat /\ c.header.size \in Nat /\ c.header.count \in Nat
         /\ c.header.end \in Nat /\ c.header.cursor \in Nat
BY DEF Contents, Headers

LEMMA FileType ==
  ASSUME TypeOK, NEW f \in Files
  PROVE  /\ memory[f] \in Contents /\ disk[f] \in Contents
         /\ items[f] \in Seq(Times \cup {Unknown}) /\ flushed[f] \in Seq(Times \cup {Unknown})
BY DEF TypeOK

\* A step that leaves a file alone.
LEMMA SameFile ==
  ASSUME NEW f \in Files, FileInv(f), memory'[f] = memory[f], disk'[f] = disk[f],
         items'[f] = items[f], flushed'[f] = flushed[f]
  PROVE  FileInv(f)'
BY DEF FileInv, Header, Holds

LEMMA SameFiles ==
  ASSUME StoreInv, UNCHANGED <<memory, disk, damage, items, flushed>>, TypeOK'
  PROVE  StoreInv'
BY SameFile DEF StoreInv, CheckedWritesStayInside

LEMMA StoreInit == Init => StoreInv
<1> SUFFICES ASSUME Init PROVE StoreInv
  OBVIOUS
<1>1. \A f \in Files : EmptyContents(f) \in Contents
  BY DEF EmptyContents, Contents, Headers
<1>2. /\ memory = [f \in Files |-> EmptyContents(f)] /\ disk = memory
      /\ items = [f \in Files |-> <<>>] /\ flushed = items
  BY DEF Init
<1>3. TypeOK
  <2>1. memory \in [Files -> Contents] /\ disk \in [Files -> Contents]
    BY <1>1, <1>2
  <2>2. items \in [Files -> Seq(Times \cup {Unknown})]
    BY <1>2
  <2>3. open \in Seq(seen) /\ Len(open) <= max /\ max \in Nat \ {0}
    BY DEF Init
  <2> QED
    BY <1>2, <2>1, <2>2, <2>3 DEF Init, TypeOK
<1>4. ASSUME NEW f \in Files PROVE FileInv(f)
  <2>1. memory[f] = EmptyContents(f) /\ disk[f] = memory[f] /\ items[f] = <<>> /\ flushed[f] = <<>>
    BY <1>2
  <2>2. Header(f, EmptyContents(f).header)
    BY Sizes DEF Header, EmptyContents
  <2>3. EmptyContents(f).header.count = 0
    BY DEF EmptyContents
  <2> QED
    BY <2>1, <2>2, <2>3 DEF FileInv, Holds
<1> QED
  BY <1>3, <1>4 DEF StoreInv, CheckedWritesStayInside, Init

------------------------------------------------------------------------------
(* The table.                                                              *)

LEMMA TableKeeps ==
  ASSUME StoreInv, Create \/ Scanned \/ Exit
  PROVE  StoreInv'
<1>1. TypeOK'
  <2>1. open' \in Seq(seen') /\ \A i, j \in DOMAIN open' : open'[i] = open'[j] => i = j
    <3>1. CASE Create
      BY <3>1 DEF Create
    <3>2. CASE Scanned \/ Exit
      BY <3>2 DEF StoreInv, TypeOK, Scanned, Exit
    <3> QED
      BY <3>1, <3>2
  <2>2. max' \in Nat \ {0} /\ Len(open') <= max'
    BY DEF StoreInv, TypeOK, Create, Scanned, Exit
  <2> QED
    BY <2>1, <2>2, Zenon DEF StoreInv, TypeOK, Create, Scanned, Exit
<1> QED
  BY <1>1, SameFiles DEF Create, Scanned, Exit

LEMMA AddKeeps ==
  ASSUME StoreInv, NEW f \in Files, AddRwStream(f) \/ SkipRwStream(f)
  PROVE  StoreInv'
<1>1. TypeOK
  BY DEF StoreInv
<1>2. /\ f \notin seen /\ seen' = seen \cup {f} /\ max' = Resized
      /\ UNCHANGED <<mode, memory, disk, damage, items, flushed>>
  BY DEF AddRwStream, SkipRwStream
<1>3. max' \in Nat \ {0} /\ Len(open) < max'
  <2>1. max \in Nat /\ Len(open) \in Nat /\ Len(open) <= max /\ max # 0
    BY <1>1 DEF TypeOK
  <2>2. CASE Len(open) >= max
    BY <1>2, <2>1, <2>2 DEF Resized
  <2>3. CASE Len(open) < max
    BY <1>2, <2>1, <2>3 DEF Resized
  <2> QED
    BY <2>1, <2>2, <2>3
<1>4. open \in Seq(seen')
  BY <1>1, <1>2, SeqMono DEF TypeOK
<1>5. open' \in Seq(seen') /\ \A i, j \in DOMAIN open' : open'[i] = open'[j] => i = j
  <2>1. CASE open' = open
    BY <1>1, <1>4, <2>1 DEF TypeOK
  <2>2. CASE open' = Append(open, f)
    <3>1. open' \in Seq(seen')
      BY <1>2, <1>4, <2>2
    <3>2. \A i \in 1 .. Len(open) : open[i] # f /\ open'[i] = open[i]
      BY <1>1, <1>2, <2>2 DEF TypeOK
    <3>3. DOMAIN open' = 1 .. Len(open) + 1 /\ open'[Len(open) + 1] = f
      BY <1>1, <2>2 DEF TypeOK
    <3>4. \A i, j \in 1 .. Len(open) : open[i] = open[j] => i = j
      <4>1. DOMAIN open = 1 .. Len(open)
        BY <1>1 DEF TypeOK
      <4>2. \A i, j \in DOMAIN open : open[i] = open[j] => i = j
        BY <1>1 DEF TypeOK
      <4> QED
        BY <4>1, <4>2
    <3>5. \A i \in DOMAIN open' : i \in 1 .. Len(open) \/ i = Len(open) + 1
      BY <1>1, <3>3 DEF TypeOK
    <3> QED
      BY <3>1, <3>2, <3>3, <3>4, <3>5
  <2> QED
    BY <2>1, <2>2 DEF AddRwStream, SkipRwStream
<1>6. Len(open') <= max'
  BY <1>1, <1>3 DEF AddRwStream, SkipRwStream, TypeOK
<1>7. TypeOK'
  BY <1>1, <1>2, <1>3, <1>5, <1>6 DEF TypeOK
<1> QED
  BY <1>2, <1>7, SameFiles

LEMMA SyncKeeps ==
  ASSUME StoreInv, Sync, memory' = memory, items' = items, damage' = damage,
         UNCHANGED <<seen, open, max>>, mode' \in {"off", "on"}
  PROVE  StoreInv'
<1>1. TypeOK
  BY DEF StoreInv
<1>2. /\ disk' \in [Files -> Contents] /\ flushed' \in [Files -> Seq(Times \cup {Unknown})]
      /\ \A f \in Files :
           \/ disk'[f] = memory[f] /\ flushed'[f] = items[f]
           \/ disk'[f] = disk[f] /\ flushed'[f] = flushed[f]
  <2>1. \A f \in Files : f \in AllOpen <=> \E i \in DOMAIN open : open[i] = f
    BY DEF AllOpen
  <2> QED
    BY <1>1, <2>1 DEF Sync, TypeOK
<1>3. TypeOK'
  BY <1>1, <1>2 DEF TypeOK
<1>4. ASSUME NEW f \in Files PROVE FileInv(f)'
  <2>1. FileInv(f)
    BY DEF StoreInv
  <2>2. CASE disk'[f] = memory[f] /\ flushed'[f] = items[f]
    <3>1. memory[f].header.count \in Nat
      BY <1>1, FileType, ContentsType
    <3> QED
      BY <2>1, <2>2, <3>1 DEF FileInv, Header, Holds
  <2>3. CASE disk'[f] = disk[f] /\ flushed'[f] = flushed[f]
    BY <2>1, <2>3, SameFile
  <2> QED
    BY <1>2, <2>2, <2>3
<1> QED
  BY <1>3, <1>4 DEF StoreInv, CheckedWritesStayInside

------------------------------------------------------------------------------
(* The writes.                                                             *)

\* A write that has its place puts its item behind those that are there.
LEMMA StoredNext ==
  ASSUME StoreInv, NEW f \in Files, NEW time \in Times,
         HeaderSize <= memory[f].header.cursor,
         memory[f].header.cursor + ItemSize(f) <= FileSize
  PROVE  LET n == memory[f].header.count + 1
             c == Stored(f, time)
         IN  /\ f \notin Blank /\ n \in 1 .. Capacity
             /\ c \in Contents
             /\ c.header.begin = Begin /\ c.header.size = FileSize /\ c.header.count = n
             /\ c.header.cursor = HeaderSize + n * ItemSize(f)
             /\ c.header.end >= time /\ c.header.end >= memory[f].header.end
             /\ c.cells = [memory[f].cells EXCEPT ![n] = Since(time)]
<1>1. PICK h : h = memory[f].header
  OBVIOUS
<1>2. /\ memory[f].cells \in [1 .. Capacity -> Nat \cup {Nothing}]
      /\ h \in Headers
      /\ h.begin \in Nat /\ h.size \in Nat /\ h.count \in Nat /\ h.end \in Nat /\ h.cursor \in Nat
  BY <1>1, FileType, ContentsType DEF StoreInv
<1>3. PICK size \in Nat \ {0} : size = ItemSize(f)
  BY Sizes
<1>4. Header(f, h) /\ time \in Nat
  BY <1>1 DEF StoreInv, FileInv
<1>5. f \notin Blank /\ h.begin = Begin /\ h.size = FileSize
        /\ h.cursor = HeaderSize + h.count * size
  BY <1>1, <1>3, <1>4 DEF Header
<1>6. PICK n \in Nat : n = h.count + 1
  BY <1>2
<1>7. /\ n \in 1 .. Capacity
      /\ (h.cursor - HeaderSize) \div size + 1 = n
      /\ HeaderSize + n * size = h.cursor + size
  <2>1. h.cursor + size <= FileSize
    BY <1>1, <1>3
  <2>2. PICK count \in Nat : count = h.count
    BY <1>2
  <2>3. /\ HeaderSize + (count + 1) * size = HeaderSize + count * size + size
        /\ (HeaderSize + count * size - HeaderSize) \div size + 1 = count + 1
        /\ HeaderSize + count * size + size <= FileSize => count + 1 \in 1 .. Capacity
    BY <2>2, Place
  <2>4. h.cursor = HeaderSize + count * size /\ n = count + 1
    BY <1>5, <1>6, <2>2
  <2> HIDE <2>2
  <2> QED
    BY <2>1, <2>3, <2>4
<1>8. RelativeTime(f, time) = Since(time) /\ Since(time) \in Nat
  <2>1. time - Begin \in Int
    BY <1>4
  <2> QED
    BY <1>1, <1>5, <2>1, CutOff DEF RelativeTime, Since
<1>9. PICK end \in Nat : end = LaterTime(time, h.end) /\ end >= time /\ end >= h.end
  BY <1>2, <1>4 DEF LaterTime
<1>10. PICK g : g = [h EXCEPT !.cursor = @ + size, !.count = @ + 1, !.end = end]
  OBVIOUS
<1>11. /\ g \in Headers /\ g.begin = h.begin /\ g.size = h.size
       /\ g.count = h.count + 1 /\ g.cursor = h.cursor + size /\ g.end = end
  <2>1. h.cursor + size \in Nat /\ h.count + 1 \in Nat
    BY <1>2
  <2>2. g \in Headers
    BY <1>2, <1>10, <2>1 DEF Headers
  <2>3. /\ g.begin = h.begin /\ g.size = h.size
        /\ g.count = h.count + 1 /\ g.cursor = h.cursor + size /\ g.end = end
    BY <1>2, <1>10 DEF Headers
  <2> QED
    BY <2>2, <2>3
<1>12. PICK cells \in [1 .. Capacity -> Nat \cup {Nothing}] :
         cells = [memory[f].cells EXCEPT ![n] = Since(time)]
  BY <1>2, <1>8
<1>13. Stored(f, time) = [header |-> g, cells |-> cells]
  BY <1>1, <1>3, <1>7, <1>8, <1>9, <1>10, <1>12 DEF Stored
<1>14. Stored(f, time) \in Contents
  BY <1>11, <1>12, <1>13 DEF Contents
<1> QED
  BY <1>1, <1>3, <1>5, <1>6, <1>7, <1>9, <1>11, <1>12, <1>13, <1>14

LEMMA WriteKeeps ==
  ASSUME StoreInv, NEW f \in Files, NEW time \in Times, NEW kind \in {"data", "fixed"},
         kind = "data" => HasSpace(f), Write(f, time, kind)
  PROVE  StoreInv'
<1>1. TypeOK
  BY DEF StoreInv
<1>2. CASE /\ HeaderSize <= memory[f].header.cursor
           /\ memory[f].header.cursor + ItemSize(f) <= FileSize
  <2>1. PICK c \in Contents : c = Stored(f, time)
    BY <1>2, StoredNext
  <2>2. PICK n \in 1 .. Capacity : n = memory[f].header.count + 1
    BY <1>2, StoredNext
  <2>3. /\ f \notin Blank
        /\ c.header.begin = Begin /\ c.header.size = FileSize /\ c.header.count = n
        /\ c.header.cursor = HeaderSize + n * ItemSize(f)
        /\ c.header.end >= time /\ c.header.end >= memory[f].header.end
        /\ c.cells = [memory[f].cells EXCEPT ![n] = Since(time)]
    BY <1>2, <2>1, <2>2, StoredNext
  <2>4. /\ memory' = [memory EXCEPT ![f] = c] /\ items' = [items EXCEPT ![f] = Append(@, time)]
        /\ UNCHANGED <<table, disk, damage, flushed>>
    BY <1>2, <2>1 DEF Write
  <2>5. Append(items[f], time) \in Seq(Times \cup {Unknown})
    BY <1>1, FileType
  <2>6. TypeOK'
    BY <1>1, <2>4, <2>5 DEF TypeOK, table
  <2>7. FileInv(f)'
    <3>1. memory'[f] = c /\ disk'[f] = disk[f] /\ flushed'[f] = flushed[f]
            /\ items'[f] = Append(items[f], time)
      BY <1>1, <2>4 DEF TypeOK
    <3>2. FileInv(f) /\ items[f] \in Seq(Times \cup {Unknown}) /\ flushed[f] \in Seq(Times \cup {Unknown})
      BY FileType DEF StoreInv
    <3>3. /\ memory[f].header.count \in Nat /\ disk[f].header.count \in Nat
          /\ memory[f].header.end \in Nat /\ c.header.end \in Nat
          /\ memory[f].cells \in [1 .. Capacity -> Nat \cup {Nothing}]
      BY <1>1, FileType, ContentsType
    <3>4. Len(items[f]) = n - 1 /\ Len(items[f]) \in Nat
      BY <2>2, <3>2, <3>3 DEF FileInv
    <3>5. /\ Len(items'[f]) = n /\ items'[f][n] = time
          /\ \A i \in 1 .. n - 1 : items'[f][i] = items[f][i]
      BY <3>1, <3>2, <3>4
    <3>6. \A i \in 1 .. n - 1 : c.cells[i] = memory[f].cells[i]
      BY <2>3, <3>3
    <3>7. c.cells[n] = Since(time)
      BY <2>3, <3>3
    <3>8. time \in Nat /\ \A i \in 1 .. n - 1 : items[f][i] # Unknown => items[f][i] \in Nat
      <4>1. \A i \in 1 .. n - 1 : items[f][i] \in Times \cup {Unknown}
        BY <3>2, <3>4
      <4> QED
        BY <4>1
    <3>9. ASSUME NEW i \in 1 .. n, items'[f][i] # Unknown
          PROVE  c.cells[i] = Since(items'[f][i]) /\ items'[f][i] <= c.header.end
      <4>1. CASE i = n
        BY <2>3, <3>5, <3>7, <4>1
      <4>2. CASE i \in 1 .. n - 1
        <5>1. memory[f].cells[i] = Since(items[f][i]) /\ items[f][i] <= memory[f].header.end
          BY <3>2, <3>4, <3>5, <3>9, <4>2 DEF FileInv, Holds
        <5> QED
          BY <2>3, <3>3, <3>5, <3>6, <3>8, <3>9, <4>2, <5>1
      <4> QED
        BY <3>4, <4>1, <4>2
    <3>10. Holds(c, items'[f])
      BY <2>3, <3>5, <3>9 DEF Holds
    <3>11. Header(f, c.header)
      BY <2>3 DEF Header
    <3>12. Len(flushed[f]) <= n - 1
      <4>1. Len(flushed[f]) \in Nat
        BY <3>2
      <4>2. Len(flushed[f]) <= disk[f].header.count
        BY <3>2 DEF FileInv, Holds
      <4>3. disk[f].header.count <= memory[f].header.count
        BY <3>2 DEF FileInv
      <4>4. memory[f].header.count = n - 1
        BY <2>2, <3>3
      <4> QED
        BY <3>3, <4>1, <4>2, <4>3, <4>4
    <3>13. \A i \in 1 .. Len(flushed[f]) : flushed[f][i] = items'[f][i]
      <4>1. Len(flushed[f]) \in Nat
        BY <3>2
      <4> QED
        <5>1. \A i \in 1 .. Len(flushed[f]) : i \in 1 .. n - 1 /\ flushed[f][i] = items[f][i]
          BY <3>2, <3>12, <4>1 DEF FileInv
        <5> QED
          BY <3>5, <5>1
    <3>14. disk[f].header.count <= n
      BY <2>2, <3>2, <3>3 DEF FileInv
    <3>15. Header(f, disk[f].header) /\ Holds(disk[f], flushed[f])
      BY <3>2 DEF FileInv
    <3>16. c.header.count = n
      BY <2>3
    <3>17. /\ Header(f, memory'[f].header) /\ Header(f, disk'[f].header)
           /\ Len(items'[f]) = memory'[f].header.count
           /\ disk'[f].header.count <= memory'[f].header.count
           /\ Holds(memory'[f], items'[f]) /\ Holds(disk'[f], flushed'[f])
           /\ \A i \in 1 .. Len(flushed'[f]) : flushed'[f][i] = items'[f][i]
      BY <3>1, <3>5, <3>10, <3>11, <3>13, <3>14, <3>15, <3>16
    <3> QED
      BY <3>17 DEF FileInv, Header, Holds
  <2>8. ASSUME NEW e \in Files, e # f PROVE FileInv(e)'
    <3>1. memory'[e] = memory[e] /\ disk'[e] = disk[e] /\ items'[e] = items[e] /\ flushed'[e] = flushed[e]
      BY <1>1, <2>4, <2>8 DEF TypeOK
    <3> QED
      BY <3>1, SameFile DEF StoreInv
  <2> QED
    BY <2>4, <2>6, <2>7, <2>8 DEF StoreInv, CheckedWritesStayInside
<1>3. CASE ~(/\ HeaderSize <= memory[f].header.cursor
             /\ memory[f].header.cursor + ItemSize(f) <= FileSize)
  <2>1. damage' = kind /\ UNCHANGED <<table, memory, disk, items, flushed>>
    BY <1>3 DEF Write
  <2>2. kind = "fixed"
    <3>1. SUFFICES ASSUME HasSpace(f) PROVE FALSE
      OBVIOUS
    <3>2. PICK h \in Headers : h = memory[f].header
      BY <1>1, FileType, ContentsType
    <3>3. h.count \in Nat /\ h.cursor \in Nat /\ h.size \in Nat
      BY <3>2 DEF Headers
    <3>4. PICK size \in Nat \ {0} : size = ItemSize(f)
      BY Sizes
    <3>5. h.cursor + size <= h.size /\ Header(f, h)
      BY <3>1, <3>2, <3>4 DEF HasSpace, StoreInv, FileInv
    <3>6. f \notin Blank
      BY <3>3, <3>4, <3>5 DEF Header
    <3>7. h.size = FileSize /\ h.cursor = HeaderSize + h.count * size
      BY <3>4, <3>5, <3>6 DEF Header
    <3>8. h.count * size \in Nat
      BY <3>3, Product
    <3> QED
      BY <1>3, <3>2, <3>3, <3>4, <3>5, <3>7, <3>8
  <2>3. TypeOK'
    BY <1>1, <2>1, <2>2 DEF TypeOK, table
  <2>4. \A e \in Files : FileInv(e)'
    BY <2>1, SameFile DEF StoreInv
  <2> QED
    BY <2>1, <2>2, <2>3, <2>4 DEF StoreInv, CheckedWritesStayInside
<1> QED
  BY <1>2, <1>3

------------------------------------------------------------------------------
(* What else happens to mapped files.                                      *)

\* The lists of a file: what was flushed is a prefix of its items.
LEMMA Prefix ==
  ASSUME StoreInv, NEW f \in Files
  PROVE  /\ Len(flushed[f]) \in Nat /\ Len(items[f]) \in Nat
         /\ Len(flushed[f]) <= Len(items[f])
         /\ Len(flushed[f]) <= disk[f].header.count
<1>1. /\ items[f] \in Seq(Times \cup {Unknown}) /\ flushed[f] \in Seq(Times \cup {Unknown})
      /\ disk[f].header.count \in Nat /\ memory[f].header.count \in Nat
  BY FileType, ContentsType DEF StoreInv
<1>2. /\ Len(items[f]) = memory[f].header.count
      /\ disk[f].header.count <= memory[f].header.count
  BY DEF StoreInv, FileInv
<1>3. Len(flushed[f]) <= disk[f].header.count
  BY DEF StoreInv, FileInv, Holds
<1> QED
  BY <1>1, <1>2, <1>3

LEMMA WriteBackKeeps ==
  ASSUME StoreInv, NEW f \in Files, WriteBack(f)
  PROVE  StoreInv'
<1>1. TypeOK /\ FileInv(f)
  BY DEF StoreInv
<1>2. UNCHANGED <<table, memory, damage, items, flushed>>
  BY DEF WriteBack
<1>3. /\ memory[f].header \in Headers /\ memory[f].header.count \in Nat
      /\ disk[f] \in Contents /\ memory[f] \in Contents
      /\ memory[f].cells \in [1 .. Capacity -> Nat \cup {Nothing}]
      /\ disk[f].cells \in [1 .. Capacity -> Nat \cup {Nothing}]
      /\ disk[f].header \in Headers
  BY <1>1, FileType, ContentsType
<1>4. ASSUME NEW c \in Contents, disk' = [disk EXCEPT ![f] = c],
             Header(f, c.header), c.header.count <= memory[f].header.count,
             Holds(c, flushed[f])
      PROVE  StoreInv'
  <2>1. TypeOK'
    BY <1>1, <1>2, <1>4 DEF TypeOK, table
  <2>2. disk'[f] = c /\ memory'[f] = memory[f] /\ items'[f] = items[f] /\ flushed'[f] = flushed[f]
    BY <1>1, <1>2, <1>4 DEF TypeOK
  <2>3. FileInv(f)'
    BY <1>1, <1>4, <2>2 DEF FileInv, Header, Holds
  <2>4. ASSUME NEW e \in Files, e # f PROVE FileInv(e)'
    <3>1. memory'[e] = memory[e] /\ disk'[e] = disk[e] /\ items'[e] = items[e] /\ flushed'[e] = flushed[e]
      BY <1>1, <1>2, <1>4, <2>4 DEF TypeOK
    <3> QED
      BY <3>1, SameFile DEF StoreInv
  <2> QED
    BY <1>2, <2>1, <2>3, <2>4 DEF StoreInv, CheckedWritesStayInside
<1>5. CASE disk' = [disk EXCEPT ![f].header = memory[f].header]
  <2>1. PICK c : c = [disk[f] EXCEPT !.header = memory[f].header]
    OBVIOUS
  <2>2. c \in Contents /\ c.header = memory[f].header /\ c.cells = disk[f].cells
    BY <1>3, <2>1 DEF Contents
  <2>3. disk' = [disk EXCEPT ![f] = c]
    BY <1>1, <1>5, <2>1 DEF TypeOK
  <2>4. \A i \in 1 .. Len(flushed[f]) : flushed[f][i] # Unknown =>
          disk[f].cells[i] = Since(flushed[f][i]) /\ flushed[f][i] <= memory[f].header.end
    <3>1. ASSUME NEW i \in 1 .. Len(flushed[f]), flushed[f][i] # Unknown
          PROVE  disk[f].cells[i] = Since(flushed[f][i]) /\ flushed[f][i] <= memory[f].header.end
      <4>1. flushed[f][i] = items[f][i] /\ i \in 1 .. Len(items[f])
        BY <1>1, Prefix DEF FileInv
      <4>2. flushed[f][i] <= memory[f].header.end
        BY <1>1, <3>1, <4>1 DEF FileInv, Holds
      <4> QED
        BY <1>1, <3>1, <4>2 DEF FileInv, Holds
    <3> QED
      BY <3>1
  <2>5. Len(flushed[f]) <= memory[f].header.count
    BY <1>1, Prefix DEF FileInv
  <2>6. Holds(c, flushed[f])
    BY <2>2, <2>4, <2>5 DEF Holds
  <2>7. Header(f, c.header) /\ c.header.count <= memory[f].header.count
    BY <1>1, <1>3, <2>2 DEF FileInv
  <2> QED
    BY <1>4, <2>2, <2>3, <2>6, <2>7
<1>6. ASSUME NEW n \in 1 .. Capacity, disk' = [disk EXCEPT ![f].cells[n] = memory[f].cells[n]]
      PROVE  StoreInv'
  <2>1. PICK c : c = [disk[f] EXCEPT !.cells[n] = memory[f].cells[n]]
    OBVIOUS
  <2>2. /\ c \in Contents /\ c.header = disk[f].header
        /\ c.cells = [disk[f].cells EXCEPT ![n] = memory[f].cells[n]]
    BY <1>3, <2>1 DEF Contents
  <2>3. disk' = [disk EXCEPT ![f] = c]
    BY <1>1, <1>6, <2>1 DEF TypeOK
  <2>4. \A i \in 1 .. Len(flushed[f]) : flushed[f][i] # Unknown =>
          c.cells[i] = Since(flushed[f][i]) /\ flushed[f][i] <= disk[f].header.end
    <3>1. ASSUME NEW i \in 1 .. Len(flushed[f]), flushed[f][i] # Unknown
          PROVE  c.cells[i] = Since(flushed[f][i]) /\ flushed[f][i] <= disk[f].header.end
      <4>1. flushed[f][i] = items[f][i] /\ i \in 1 .. Len(items[f])
        BY <1>1, Prefix DEF FileInv
      <4>2. memory[f].cells[i] = Since(flushed[f][i])
        BY <1>1, <3>1, <4>1 DEF FileInv, Holds
      <4>3. disk[f].cells[i] = Since(flushed[f][i]) /\ flushed[f][i] <= disk[f].header.end
        BY <1>1, <3>1 DEF FileInv, Holds
      <4> QED
        BY <1>3, <2>2, <4>2, <4>3
    <3> QED
      BY <3>1
  <2>5. Holds(c, flushed[f])
    BY <2>2, <2>4, Prefix DEF Holds
  <2>6. Header(f, c.header) /\ c.header.count <= memory[f].header.count
    BY <1>1, <2>2 DEF FileInv
  <2> QED
    BY <1>4, <2>2, <2>3, <2>5, <2>6
<1> QED
  BY <1>5, <1>6 DEF WriteBack

LEMMA PowerLossKeeps ==
  ASSUME StoreInv, PowerLoss
  PROVE  StoreInv'
<1>1. TypeOK
  BY DEF StoreInv
<1>2. /\ mode' = "off" /\ memory' = disk /\ UNCHANGED <<seen, open, max, disk, damage, flushed>>
      /\ items' = [f \in Files |-> Surviving(f)]
  BY DEF PowerLoss
<1>3. ASSUME NEW f \in Files
      PROVE  /\ Surviving(f) \in Seq(Times \cup {Unknown})
             /\ Len(Surviving(f)) = disk[f].header.count
             /\ \A i \in 1 .. disk[f].header.count :
                  Surviving(f)[i] = IF i <= Len(flushed[f]) THEN flushed[f][i] ELSE Unknown
  <2>1. disk[f].header.count \in Nat /\ flushed[f] \in Seq(Times \cup {Unknown})
    BY <1>1, FileType, ContentsType
  <2>2. \A i \in 1 .. disk[f].header.count :
          (IF i <= Len(flushed[f]) THEN flushed[f][i] ELSE Unknown) \in Times \cup {Unknown}
    BY <2>1
  <2>3. Surviving(f) \in [1 .. disk[f].header.count -> Times \cup {Unknown}]
    BY <2>2 DEF Surviving
  <2>4. \A i \in 1 .. disk[f].header.count :
          Surviving(f)[i] = IF i <= Len(flushed[f]) THEN flushed[f][i] ELSE Unknown
    BY DEF Surviving
  <2>5. PICK q \in [1 .. disk[f].header.count -> Times \cup {Unknown}] : q = Surviving(f)
    BY <2>3
  <2>6. q \in Seq(Times \cup {Unknown}) /\ Len(q) = disk[f].header.count
    BY <2>1, <2>5
  <2> QED
    BY <2>4, <2>5, <2>6
<1>4. TypeOK'
  <2>1. items' \in [Files -> Seq(Times \cup {Unknown})]
    BY <1>2, <1>3
  <2> QED
    BY <1>1, <1>2, <2>1 DEF TypeOK
<1>5. ASSUME NEW f \in Files PROVE FileInv(f)'
  <2>1. /\ memory'[f] = disk[f] /\ disk'[f] = disk[f] /\ flushed'[f] = flushed[f]
        /\ items'[f] = Surviving(f)
    BY <1>2
  <2>2. Header(f, disk[f].header) /\ Holds(disk[f], flushed[f])
    BY DEF StoreInv, FileInv
  <2>3. disk[f].header.count \in Nat
    BY <1>1, FileType, ContentsType
  <2>4. Len(flushed[f]) \in Nat /\ Len(flushed[f]) <= disk[f].header.count
    BY Prefix
  <2>5. \A i \in 1 .. Len(flushed[f]) : flushed[f][i] = Surviving(f)[i]
    BY <1>3, <2>3, <2>4
  <2>6. \A i \in 1 .. disk[f].header.count : Surviving(f)[i] # Unknown =>
          disk[f].cells[i] = Since(Surviving(f)[i]) /\ Surviving(f)[i] <= disk[f].header.end
    <3>1. ASSUME NEW i \in 1 .. disk[f].header.count, Surviving(f)[i] # Unknown
          PROVE  i \in 1 .. Len(flushed[f]) /\ Surviving(f)[i] = flushed[f][i]
      BY <1>3, <2>3, <2>4, <3>1
    <3> QED
      BY <2>2, <3>1 DEF Holds
  <2>7. Holds(disk[f], Surviving(f))
    BY <1>3, <2>3, <2>6 DEF Holds
  <2> QED
    BY <1>3, <2>1, <2>2, <2>3, <2>5, <2>7 DEF FileInv, Header, Holds
<1> QED
  BY <1>2, <1>4, <1>5 DEF StoreInv, CheckedWritesStayInside

LEMMA StoreStep == StoreInv /\ [Next]_vars => StoreInv'
<1> SUFFICES ASSUME StoreInv, [Next]_vars PROVE StoreInv'
  OBVIOUS
<1>1. CASE Create \/ Scanned \/ Exit
  BY <1>1, TableKeeps
<1>2. CASE Flush \/ Destroy
  BY <1>2, SyncKeeps DEF Flush, Destroy, table, StoreInv, TypeOK
<1>3. CASE \E f \in Files : AddRwStream(f) \/ SkipRwStream(f)
  BY <1>3, AddKeeps
<1>4. CASE \E f \in Files : WriteBack(f)
  BY <1>4, WriteBackKeeps
<1>5. CASE \E i \in DOMAIN open, time \in Times :
             WriteData(open[i], time) \/ WriteFixed(open[i], time)
  <2>1. PICK i \in DOMAIN open, time \in Times :
          WriteData(open[i], time) \/ WriteFixed(open[i], time)
    BY <1>5
  <2>2. open[i] \in Files
    BY <2>1 DEF StoreInv, TypeOK
  <2> QED
    BY <2>1, <2>2, WriteKeeps DEF WriteData, WriteFixed
<1>6. CASE PowerLoss
  BY <1>6, PowerLossKeeps
<1>7. CASE UNCHANGED vars
  <2>1. TypeOK'
    BY <1>7 DEF StoreInv, TypeOK, vars, table
  <2> QED
    BY <1>7, <2>1, SameFiles DEF vars
<1> QED
  BY <1>1, <1>2, <1>3, <1>4, <1>5, <1>6, <1>7 DEF Next

LEMMA StoreInvariant == Spec => []StoreInv
  BY StoreInit, StoreStep, PTL DEF Spec

------------------------------------------------------------------------------

(***************************************************************************)
(* The header of a stream counts its items and points behind the last, in  *)
(* memory and on the disk, whatever was written back when the power failed *)
(* (stream_manager.cpp 391-478).                                           *)
(***************************************************************************)
THEOREM HeadersCount == Spec => []HeadersAgree
<1>1. StoreInv => HeadersAgree
  <2> SUFFICES ASSUME StoreInv PROVE HeadersAgree
    OBVIOUS
  <2> QED
    BY DEF StoreInv, FileInv, Header, HeadersAgree
<1> QED
  BY <1>1, StoreInvariant, PTL

(***************************************************************************)
(* What stream_manager_flush or stream_manager_destroy has written back is *)
(* still there after any loss of power, and the header counts it.          *)
(***************************************************************************)
THEOREM FlushedSurvive == Spec => []FlushedItemsSurvive
<1>1. StoreInv => FlushedItemsSurvive
  <2> SUFFICES ASSUME StoreInv, NEW f \in Files
               PROVE  /\ disk[f].header.count >= Len(flushed[f])
                      /\ \A i \in DOMAIN flushed[f] : flushed[f][i] # Unknown =>
                           disk[f].cells[i] = RelativeTime(f, flushed[f][i])
    BY DEF FlushedItemsSurvive
  <2>1. /\ Len(flushed[f]) \in Nat /\ Len(flushed[f]) <= disk[f].header.count
        /\ Len(flushed[f]) <= Len(items[f]) /\ disk[f].header.count \in Nat
        /\ DOMAIN flushed[f] = 1 .. Len(flushed[f])
    BY Prefix, FileType, ContentsType DEF StoreInv
  <2>2. FileInv(f)
    BY DEF StoreInv
  <2>3. ASSUME NEW i \in 1 .. Len(flushed[f]), flushed[f][i] # Unknown
        PROVE  disk[f].cells[i] = RelativeTime(f, flushed[f][i])
    <3>1. f \notin Blank
      BY <2>1, <2>2 DEF FileInv, Header
    <3>2. memory[f].header.begin = Begin
      BY <2>2, <3>1 DEF FileInv, Header
    <3> QED
      BY <2>2, <2>3, <3>2 DEF FileInv, Holds, Since, RelativeTime
  <2> QED
    BY <2>1, <2>3
<1> QED
  BY <1>1, StoreInvariant, PTL

(***************************************************************************)
(* The time of an item can be computed back from its file, unless it is    *)
(* before the begin of the stream or too far behind it for the bytes that  *)
(* are stored of it, and it is not after the end in the header.            *)
(***************************************************************************)
THEOREM TimesAreKept == Spec => []TimesReadBack
<1>1. StoreInv => TimesReadBack
  <2> SUFFICES ASSUME StoreInv, NEW f \in Files, NEW i \in DOMAIN items[f],
                      items[f][i] # Unknown
               PROVE  /\ InRange(f, items[f][i]) =>
                           memory[f].header.begin + memory[f].cells[i] = items[f][i]
                      /\ items[f][i] <= memory[f].header.end
    BY DEF TimesReadBack
  <2>1. FileInv(f) /\ items[f] \in Seq(Times \cup {Unknown}) /\ memory[f].header.count \in Nat
    BY FileType, ContentsType DEF StoreInv
  <2>2. i \in 1 .. Len(items[f]) /\ items[f][i] \in Nat
    <3>1. PICK q \in Seq(Times \cup {Unknown}) : q = items[f]
      BY <2>1
    <3>2. i \in 1 .. Len(q) /\ q[i] \in Times \cup {Unknown}
      BY <3>1
    <3> QED
      BY <3>1, <3>2
  <2>3. memory[f].cells[i] = Since(items[f][i]) /\ items[f][i] <= memory[f].header.end
    BY <2>1, <2>2 DEF FileInv, Holds
  <2>4. f \notin Blank
    BY <2>1, <2>2 DEF FileInv, Header
  <2>5. memory[f].header.begin = Begin
    BY <2>1, <2>4 DEF FileInv, Header
  <2>6. InRange(f, items[f][i]) => Begin + Since(items[f][i]) = items[f][i]
    <3>1. PICK x \in Int : x = items[f][i] - Begin
      BY <2>2
    <3>2. InRange(f, items[f][i]) => x >= 0 /\ x < TimeRange
      BY <2>2, <2>5, <3>1 DEF InRange
    <3>3. Since(items[f][i]) = x % TimeRange
      BY <3>1 DEF Since
    <3> QED
      BY <2>2, <3>1, <3>2, <3>3, CutOff
  <2> QED
    BY <2>3, <2>5, <2>6
<1> QED
  BY <1>1, StoreInvariant, PTL

(***************************************************************************)
(* stream_write_data never writes over a header or past the end of a file, *)
(* not even in a file without a header (stream_manager.cpp 391-414).       *)
(***************************************************************************)
THEOREM CheckedWritesInside == Spec => []CheckedWritesStayInside
  BY StoreInvariant, PTL DEF StoreInv

==============================================================================
