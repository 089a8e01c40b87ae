--------------------------- MODULE MCSocketFraming ---------------------------
(***************************************************************************)
(* A small instance of SocketFraming for TLC: no payload, one that looks    *)
(* like a message, and one that does not fit.                               *)
(***************************************************************************)
EXTENDS SocketFraming

MCPayloads == {<<>>, <<Magic, 0>>, <<0, 0, 0>>}

==============================================================================
