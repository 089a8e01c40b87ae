---------------------------- MODULE MCSocketServer ----------------------------
(***************************************************************************)
(* Small instances of SocketServer for TLC.                                 *)
(***************************************************************************)
EXTENDS SocketServer, TLC

CONSTANTS c1, c2, c3

MCSymmetry == Permutations(Clients)

==============================================================================
