------------------------------- MODULE MCParts -------------------------------
(***************************************************************************)
(* A small instance of Parts for TLC.                                      *)
(***************************************************************************)
EXTENDS Parts

CONSTANTS i1, i2

\* Mappings files: none, known and new ids, an id twice, more than fit.
MCContents == {<<>>, <<i1>>, <<i1, i2>>, <<i2, i1, i2>>}

\* Five users in the first shard, so that it grows twice, one in the other.
MCShardOf == [u \in Users |-> IF u <= 5 THEN 0 ELSE 1]

\* Words before, between and behind the keys, one that begins the keys of the
\* eight switches and one that begins "co" and "co2".
MCWords ==
  {[at |-> -1, begins |-> {}], [at |-> 1, begins |-> {1, 2}], [at |-> 25, begins |-> {}],
   [at |-> 71, begins |-> 36 .. 43], [at |-> 101, begins |-> {}]}

Is(k, v) == [key |-> k, value |-> v]

MacIs(a, b) == Is(<<"mac">>, <<"q", a, b>>)

Sensor == <<Is(<<"voltage">>, <<"d1">>), MacIs("d1", "d2")>>

Strings == <<Is(<<"x">>, <<"q", ",", "}", ":">>), Is(<<"mac">>, <<"d1", "d2">>)>>

\* No property, sensors and switches, the address 0, one property too many and
\* a string that looks like the end of the object.
MCDocuments ==
  {<<>>, Sensor, Strings, <<MacIs("d0", "d0")>>,
   <<Is(<<"key">>, <<"d1">>), MacIs("d2", "d1"), Is(<<"key", "d2">>, <<"d0">>)>>,
   <<Is(<<"key", "d0">>, <<"d1">>), Is(<<"key", "d1">>, <<"d0">>),
     Is(<<"key", "Lock">>, <<"d0">>), Is(<<"voltage">>, <<"d2">>)>>}

MCInterrupted == {Sensor, Strings}

MCNoise == SeqOf({"{", "}", "q", ":", ","}, 2)

==============================================================================
