---------------------------- MODULE MCINSReader ----------------------------
(* A small instance of INSReader for TLC.  A frame has four bytes: a       *)
(* timestamp t, written <<t, 1>>, and two bytes of data, of which the      *)
(* first is 9 where the position is not one of the earth.                  *)
EXTENDS INSReader

MCTimestampOf(b) == IF b[2] = 1 THEN b[1] ELSE 0

MCParses(f) == f[3] # 9

G(t) == <<t, 1, 0, 0>>

MCDatagram ==
  {G(5), G(7), G(12),              \* good, later, from a clock far ahead
   <<5, 1, 9, 0>> \o G(5),         \* rejected, and a good one behind it
   <<6, 1, 6, 1>>,                 \* its data look like a timestamp
   <<6, 1>>, <<0, 0>>,             \* two halves of a frame
   <<3, 3, 3, 3, 3, 3, 3>>,        \* noise
   G(6) \o G(6) \o G(7) \o G(7)}   \* as long as the buffer
=============================================================================
