---------------------------- MODULE MCStreamThread ----------------------------
(***************************************************************************)
(* Small instances of StreamThread for TLC: two of the three requests have *)
(* the same user id.                                                       *)
(***************************************************************************)
EXTENDS StreamThread

CONSTANTS r1, r2, r3, i1, i2

MCUserId == [r \in Requests |-> IF r = r2 THEN i2 ELSE i1]

==============================================================================
