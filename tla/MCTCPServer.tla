---------------------------- MODULE MCTCPServer ----------------------------
(* A small instance of TCPServer for TLC. *)
EXTENDS TCPServer

CONSTANTS a1, a2, a3

MCAddr == {a1, a2, a3}
=============================================================================
