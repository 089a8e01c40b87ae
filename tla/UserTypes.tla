------------------------------ MODULE UserTypes ------------------------------
(***************************************************************************)
(* user_types.cpp: the names of the user types and the binary search for a *)
(* name.  The key strings are sorted, so a key is its place in the table;  *)
(* a word that is searched for is known by where it sorts, twice the place *)
(* of the key it equals or an odd number between two keys, and by the keys *)
(* it is a proper prefix of.                                               *)
(***************************************************************************)
EXTENDS Integers, Sequences, SequencesExt

CONSTANT Words   \* words that are searched for and are no keys

\* sUserTypeTypes: the user type of each key.
Types ==
  <<"BATTERY", "CO", "CO2", "CURRENT", "DISTANCE1", "DISTANCE2", "DISTANCE3",
    "kWAh", "ENERGY", "GAS_M3", "HCHO", "HUMIDITY", "IMAGE", "JSON", "LIGHT",
    "NOISE", "NOX", "PERF1", "PERF2", "PERF3", "PM005", "PM010", "PM100", "PM025",
    "PM040", "POWER", "PRESENCE1", "PRESENCE2", "PRESENCE3", "PRESSURE", "PX",
    "PY", "PZ", "RSSI", "SENSOR", "STATE", "SWITCH1", "SWITCH2", "SWITCH3",
    "SWITCH4", "SWITCH5", "SWITCH6", "SWITCH7", "SWITCH8", "TEMPERATURE",
    "UNKNOWN", "UV", "VIBRATION", "VOC", "VOLTAGE", "WATER_M3">>

\* How many key strings there are.
KeyCount == 51

\* Mutant: thirty more user types that have no key.
IdCountGrown == 105

\* ndata::ID_COUNT: one more than the largest user type.
IdCount == 75

\* The key at place i; "co" is the only key that begins another, "co2".
Key(i) == [at |-> 2 * i, begins |-> IF i = 1 THEN {2} ELSE {}]

Queries == {Key(i) : i \in 0 .. KeyCount - 1} \cup Words

\* sUserTypeIndices, in the order of Types.
Indices ==
  <<19, 6, 7, 43, 32, 33, 34, 51, 45, 49, 8, 2, 48, 47, 4, 16, 10, 39, 40, 41, 11,
    12, 15, 13, 14, 44, 29, 30, 31, 3, 35, 36, 37, 38, 46, 18, 21, 22, 23, 24, 25,
    26, 27, 28, 1, 0, 5, 17, 9, 42, 50>>

\* Mutant: the tables count from one.
NameIndexFromOne(type) == Indices[CHOOSE i \in DOMAIN Types : Types[i] = type] - 1

\* The place of the key string and the ui string of a type.  to_key_string and
\* to_ui_string compare it with ID_COUNT, which never stops them.
NameIndex(type) == Indices[CHOOSE i \in DOMAIN Types : Types[i] = type]

VARIABLES
  query,     \* key_str and its length
  left, right,
  result,    \* "searching", a user type, or "astray" after an undefined access
  outside,   \* history: the search read behind the table
  compared,  \* history: the turns of the loop
  name       \* the place that to_key_string prints for the result, or None

typeVars == <<query, left, right, result, outside, compared, name>>

None == -1

TypeOK ==
  /\ query \in Queries
  /\ left \in 0 .. IdCount /\ right \in -1 .. IdCount - 1
  /\ left <= right + 1
  /\ result \in ToSet(Types) \cup {"searching", "astray"}
  /\ outside \in BOOLEAN /\ compared \in Nat
  /\ name \in ToSet(Indices) \cup {None}

Init ==
  /\ query \in Queries
  /\ left = 0
  /\ right = IdCount - 1
  /\ result = "searching"
  /\ outside = FALSE /\ compared = 0
  /\ name = None

------------------------------------------------------------------------------

\* Mutant: half of the right end.
MiddleSlip == left + right \div 2

Middle == left + (right - left) \div 2

\* Mutant: the middle is looked at again.
GoRightSlowly == left' = Middle /\ UNCHANGED right

GoRight == left' = Middle + 1 /\ UNCHANGED right

GoLeft == right' = Middle - 1 /\ UNCHANGED left

\* Mutant: a word that begins the key is taken for it.
MatchesPrefix == query.at = 2 * Middle \/ Middle \in query.begins

\* strncmp finds no difference and the lengths are the same.
Matches == query.at = 2 * Middle

\* strncmp over the length of the word: a word that begins the key compares
\* equal, and the search goes right.
SortsBefore == query.at < 2 * Middle /\ Middle \notin query.begins

\* One turn of the loop of from_string inside the table.
Compare ==
  /\ result = "searching" /\ left <= right
  /\ Middle < KeyCount
  /\ \/ Matches /\ result' = Types[Middle + 1] /\ UNCHANGED <<left, right>>
     \/ ~Matches /\ SortsBefore /\ GoLeft /\ UNCHANGED result
     \/ ~Matches /\ ~SortsBefore /\ GoRight /\ UNCHANGED result
  /\ compared' = compared + 1
  /\ UNCHANGED <<query, outside, name>>

\* The middle is behind the table: what lies there is compared as if it were
\* the address of a key.
CompareOutside ==
  /\ result = "searching" /\ left <= right
  /\ Middle >= KeyCount
  /\ \/ GoLeft /\ UNCHANGED result
     \/ GoRight /\ UNCHANGED result
     \/ result' = "astray" /\ UNCHANGED <<left, right>>
  /\ outside' = TRUE
  /\ compared' = compared + 1
  /\ UNCHANGED <<query, name>>

\* The range is empty.
GiveUp ==
  /\ result = "searching" /\ left > right
  /\ result' = "UNKNOWN"
  /\ UNCHANGED <<query, left, right, outside, compared, name>>

FromString == Compare \/ CompareOutside \/ GiveUp

\* The name of the type that was found.
ToKeyString ==
  /\ result \in ToSet(Types) /\ name = None
  /\ name' = NameIndex(result)
  /\ UNCHANGED <<query, left, right, result, outside, compared>>

Next == FromString \/ ToKeyString

Spec == Init /\ [][Next]_typeVars

------------------------------------------------------------------------------

\* What the tables say of the word.
Meaning ==
  IF query \in Words THEN "UNKNOWN" ELSE Types[query.at \div 2 + 1]

\* A search that stays inside the table finds the type of every key, "co"
\* included, which begins "co2", and UNKNOWN for every other word.
InsideIsRight ==
  ~outside /\ result # "searching" => result = Meaning

\* Only a word behind the 38th key or at its beginning, where the range of 75
\* has its middle, takes the search out of the table.
OutsideOnlyBehindMiddle == outside => query.at > 2 * 37 \/ 37 \in query.begins

\* Also then a wrong answer is never another type: it is UNKNOWN.
WrongIsUnknown ==
  result \notin {"searching", "astray", Meaning} => result = "UNKNOWN"

\* What is left of the ids when they are halved again and again.
Halved == <<75, 37, 18, 9, 4, 2, 1, 0>>

\* Every turn halves what is left to search, so that the search ends after
\* seven of them, outside the table as well.
SearchHalves ==
  /\ compared <= 7
  /\ result = "searching" => right - left + 1 <= Halved[compared + 1]

\* The indices are those of an older numbering: of all the types that can be
\* found only WATER_M3 is printed under the name it was found by, and kWAh is
\* printed under what lies behind the table.
NamesAreOthers ==
  name # None =>
    /\ query.at = 2 * name <=> result = "WATER_M3"
    /\ name >= KeyCount <=> result = "kWAh"

\* The search runs over IdCount entries of a table that has fewer: it ends
\* after seven turns at the latest, leaves the table for certain words only,
\* and finds the type of a key or none, never another.  But the name that is
\* printed for a type is, with one exception, not the one it was found by.
TypesAreFound ==
  /\ SearchHalves /\ OutsideOnlyBehindMiddle
  /\ InsideIsRight /\ WrongIsUnknown
  /\ NamesAreOthers

==============================================================================
