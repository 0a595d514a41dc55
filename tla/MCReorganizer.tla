--------------------------- MODULE MCReorganizer ---------------------------
(* A small instance of Reorganizer for TLC: ping counters that wrap, and   *)
(* timestamps that do not follow the order of submission.                  *)
EXTENDS Reorganizer

MCPing == 0..3
MCTs == <<2, 1, 2, 5, 3, 4, 7>>
=============================================================================
