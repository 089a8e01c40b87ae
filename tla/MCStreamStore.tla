---------------------------- MODULE MCStreamStore ----------------------------
(***************************************************************************)
(* A small instance of StreamStore for TLC: one file with a header, which   *)
(* has room for two items and a part of one, and one that is all zeros.     *)
(***************************************************************************)
EXTENDS StreamStore

CONSTANTS f1, f2

MCWidth == [f \in Files |-> 1]

==============================================================================
