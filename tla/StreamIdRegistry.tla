--------------------------- MODULE StreamIdRegistry ---------------------------
(***************************************************************************)
(* stream_id_registry.cpp: user ids are given the numbers 0, 1, 2, ... in  *)
(* the order in which they are registered.  To find the number of a user   *)
(* id again, the numbers are kept in shards, each sorted by user id; some  *)
(* bits of the user id choose its shard.                                   *)
(*                                                                         *)
(* A shard's constructor is never called: the model takes the memory that  *)
(* the allocator returns for the shards to be zero, which is what the      *)
(* constructor would have made of it.                                      *)
(***************************************************************************)
EXTENDS Integers, Sequences, SequencesExt, FiniteSets

CONSTANTS Users,       \* the user ids: integers
          Shards,      \* 0 .. m_n_shards - 1
          ShardOf,     \* the shard that the bits of a user id choose
          MaxUsers     \* m_capacity, which the code relies on its caller to keep

VARIABLES
  userIds,     \* m_user_ids: the id with number i is userIds[i + 1]
  sorted,      \* m_sorted of each shard
  capacity,    \* m_capacity of each shard
  answered     \* history: the numbers each user id was given as an answer

registryVars == <<userIds, sorted, capacity, answered>>

Numbers == 0 .. MaxUsers - 1

TypeOK ==
  /\ userIds \in Seq(Users) /\ Len(userIds) <= MaxUsers
  /\ sorted \in [Shards -> Seq(Numbers)]
  /\ capacity \in [Shards -> Nat]
  /\ \A s \in Shards : Len(sorted[s]) <= capacity[s]
  /\ answered \in [Users -> SUBSET Numbers]

Init ==
  /\ userIds = <<>>
  /\ sorted = [s \in Shards |-> <<>>]
  /\ capacity = [s \in Shards |-> 0]
  /\ answered = [u \in Users |-> {}]

------------------------------------------------------------------------------

\* The user id a number of a shard leads to.
UserAt(ids, number) == ids[number + 1]

\* Mutant: the place in the shard instead of what is stored there.
FindPlace(u) ==
  {i - 1 : i \in {k \in DOMAIN sorted[ShardOf[u]] :
                    UserAt(userIds, sorted[ShardOf[u]][k]) = u}}

\* shard_t::find looks at the numbers of the shard in their order and returns
\* the first that leads to the user id, or none.
Find(u) ==
  LET shard == sorted[ShardOf[u]]
      hits == {k \in DOMAIN shard : UserAt(userIds, shard[k]) = u}
  IN IF hits = {} THEN {} ELSE {shard[CHOOSE k \in hits : \A m \in hits : k <= m]}

\* Mutant: a new entry in front of the smaller ones.
AfterNone(ids, shard, u) == 0

\* How many numbers of the shard come before the new one.
AfterSmaller(ids, shard, u) ==
  LET larger == {k \in DOMAIN shard : UserAt(ids, shard[k]) >= u}
  IN IF larger = {} THEN Len(shard)
     ELSE (CHOOSE k \in larger : \A m \in larger : k <= m) - 1

\* Mutant: the array grows one too late.
GrownLate(s) == IF Len(sorted[s]) > capacity[s] THEN 2 * capacity[s] ELSE capacity[s]

\* The array of a shard starts with four numbers and doubles when it is full.
Grown(s) ==
  IF Len(sorted[s]) < capacity[s] THEN capacity[s]
  ELSE IF capacity[s] = 0 THEN 4 ELSE 2 * capacity[s]

\* Mutant: the numbers of a shard count from one.
StoredFromOne(shard) == Len(shard) + 1

\* What shard_t::add stores: how many numbers the shard has, not the number
\* of the user id.
Stored(shard) == Len(shard)

\* shard_t::add, with the new user id already in the array.
Add(u, ids) ==
  LET s == ShardOf[u]
      pos == AfterSmaller(ids, sorted[s], u)
  IN /\ capacity' = [capacity EXCEPT ![s] = Grown(s)]
     /\ sorted' = [sorted EXCEPT ![s] = InsertAt(@, pos + 1, Stored(@))]

Answer(u, number) == answered' = [answered EXCEPT ![u] = @ \cup {number}]

\* stream_id_register.  Bound: the caller makes no more than MaxUsers entries.
Register(u) ==
  \/ \E number \in Find(u) :
       Answer(u, number) /\ UNCHANGED <<userIds, sorted, capacity>>
  \/ /\ Find(u) = {}
     /\ Len(userIds) < MaxUsers
     /\ userIds' = Append(userIds, u)
     /\ Add(u, userIds')
     /\ Answer(u, Len(userIds))

Next == \E u \in Users : Register(u)

Spec == Init /\ [][Next]_registryVars

------------------------------------------------------------------------------

\* All that was registered belongs to one shard.
OneShard == \A u, v \in ToSet(userIds) : ShardOf[u] = ShardOf[v]

OneShardIsExact ==
  OneShard =>
    /\ IsInjective(userIds)
    /\ \A i \in DOMAIN userIds : Find(userIds[i]) = {i - 1}
    /\ \A s \in Shards : \A i, k \in DOMAIN sorted[s] :
         i < k => UserAt(userIds, sorted[s][i]) < UserAt(userIds, sorted[s][k])

\* The numbers of a shard are a permutation of 0, 1, 2, ..., so that each is
\* the number of some user id that was registered.
ShardsArePermutations ==
  \A s \in Shards :
    /\ ToSet(sorted[s]) = 0 .. Len(sorted[s]) - 1
    /\ Len(sorted[s]) <= Len(userIds)

\* With whatever shards, no answer is the number of another user id: a shard,
\* whose numbers are those of other ids as soon as there are two shards, may
\* lead nowhere, never astray or behind the ids.  Within one shard the registry
\* is exact: every user id has one number and is found under it.
AnswersAreOwn ==
  /\ \A u \in Users : \A number \in answered[u] :
       number < Len(userIds) /\ UserAt(userIds, number) = u
  /\ ShardsArePermutations
  /\ OneShardIsExact

==============================================================================
