-------------------------------- MODULE Parts --------------------------------
(***************************************************************************)
(* The small parts that share no state, side by side: the ring of the job  *)
(* manager, the stream requests, the table of plugins, the registry of     *)
(* stream ids, the pools of handles, the search for a user type and the    *)
(* decoder of GeekOpen packets.  Every behaviour is one of the part it     *)
(* begins with; the other parts rest in one initial state.                 *)
(***************************************************************************)
EXTENDS Ring, SequencesExt, FiniteSets

CONSTANTS
  Ids, Contents, TooLarge, Missing, MappingsCapacity, JobWorkers, PendingCapacity, MaxTime,
  PluginNames, MaxPlugins, MaxOpened,
  Users, Shards, ShardOf, MaxUsers,
  PoolSize, IndexRange,
  Words,
  Documents, Interrupted, Noise, Behind, MaxProperties, Base, MacDigits

VARIABLES
  part,
  loaded, buffer, remembered, mappings, indices, due, loop, fate, queued, others,
  finished, stopped, worker, found, file, now, examined,
  plugins, open, opened, phase, unscanned, disk, changes, failed, pointer, unloaded,
  userIds, sorted, capacity, answered,
  freeList, freeCount, held,
  query, left, right, result, outside, compared, name,
  packet, behind, state, p, turns, key, properties, user, mac, written

Requests == INSTANCE StreamRequests
Plugins == INSTANCE PluginTable
Registry == INSTANCE StreamIdRegistry
Pool == INSTANCE HandlePool
Names == INSTANCE UserTypes
Geek == INSTANCE GeekOpen

\* There are finitely many workers; the clock has a second 1; a mappings file
\* holds user ids, unless there is none.
ASSUME RequestsAssumption ==
  /\ IsFiniteSet(JobWorkers) /\ MaxTime \in Nat \ {0}
  /\ Contents \subseteq Seq(Ids) /\ Missing \notin Contents \cup {TooLarge}
  /\ MappingsCapacity \in Nat /\ PendingCapacity \in Nat

ASSUME PluginsAssumption == MaxPlugins \in Nat /\ MaxOpened \in Nat

\* User ids are 64 bit numbers, compared as numbers.
ASSUME RegistryAssumption ==
  Users \subseteq Int /\ ShardOf \in [Users -> Shards] /\ MaxUsers \in Nat

\* A pool has a size, an index at least one value.
ASSUME PoolAssumption == PoolSize \in Nat /\ IndexRange \in Nat \ {0}

\* A word that is no key sorts before, between or behind the keys.
ASSUME WordsAssumption == \A w \in Words : \E i \in 0 .. Names!KeyCount : w.at = 2 * i - 1

\* Documents are well-formed objects, noise is made of characters; there are the
\* digits 0, 1 and 2.
ASSUME DocumentsAssumption ==
  /\ Documents \subseteq Seq([key : Seq(Geek!Characters), value : Seq(Geek!Characters)])
  /\ (\A d \in Documents : Geek!WellFormed(d)) /\ Interrupted \subseteq Documents
  /\ Noise \subseteq Seq(Geek!Characters)
  /\ MaxProperties \in Nat /\ MacDigits \in Nat /\ Base \in Nat /\ Base > 2

------------------------------------------------------------------------------

Parts == {"ring", "requests", "plugins", "registry", "pool", "names", "geek"}

\* A part that rests does so in an initial state.
PartsInit ==
  /\ part \in Parts
  /\ Init
  /\ part # "ring" => out = (CHOOSE e \in Entries : TRUE) /\ buf = [s \in Slots |-> out]
  /\ Requests!Init
  /\ part # "requests" => indices = "zeros" /\ file.content = Missing
  /\ Plugins!Init
  /\ part # "plugins" => unscanned = {}
  /\ Registry!Init
  /\ Pool!Init
  /\ Names!Init
  /\ part # "names" => query.at = 0
  /\ Geek!Init
  /\ part # "geek" => behind = "q"

requestVars == <<loaded, buffer, remembered, mappings, indices, due, loop, fate, queued,
                 others, finished, stopped, worker, found, file, now, examined>>
pluginVars == <<plugins, open, opened, phase, unscanned, disk, changes, failed, pointer,
                unloaded>>
registryVars == <<userIds, sorted, capacity, answered>>
poolVars == <<freeList, freeCount, held>>
nameVars == <<query, left, right, result, outside, compared, name>>
geekVars == <<packet, behind, state, p, turns, key, properties, user, mac, written>>
partVars == <<part, vars, requestVars, pluginVars, registryVars, poolVars, nameVars,
              geekVars>>

PartsNext ==
  /\ UNCHANGED part
  /\ IF part = "ring" THEN Next ELSE UNCHANGED vars
  /\ IF part = "requests" THEN Requests!Next ELSE UNCHANGED requestVars
  /\ IF part = "plugins" THEN Plugins!Next ELSE UNCHANGED pluginVars
  /\ IF part = "registry" THEN Registry!Next ELSE UNCHANGED registryVars
  /\ IF part = "pool" THEN Pool!Next ELSE UNCHANGED poolVars
  /\ IF part = "names" THEN Names!Next ELSE UNCHANGED nameVars
  /\ IF part = "geek" THEN Geek!Next ELSE UNCHANGED geekVars

PartsSpec ==
  /\ PartsInit /\ [][PartsNext]_partVars
  /\ Requests!Fairness

------------------------------------------------------------------------------

\* Every part keeps its types; the indices of the ring and of the plugins stay
\* inside their arrays, the scanner inside what was received.
PartsTypeOK ==
  /\ TypeOK /\ Requests!TypeOK /\ Plugins!TypeOK /\ Registry!TypeOK
  /\ Pool!TypeOK /\ Names!TypeOK /\ Geek!TypeOK

BufferHasOneUser == Requests!BufferHasOneUser
OverlookedInItsSecond == Requests!OverlookedInItsSecond
MappingsArrive == Requests!MappingsArrive
LibrariesAccountedFor == Plugins!LibrariesAccountedFor
AnswersAreOwn == Registry!AnswersAreOwn
FreeOrHeld == Pool!FreeOrHeld
TypesAreFound == Names!TypesAreFound
DocumentsAreRead == Geek!DocumentsAreRead
ScannerKeepsToPacket == Geek!ScannerKeepsToPacket
StreamsOfDevices == Geek!StreamsOfDevices

==============================================================================
