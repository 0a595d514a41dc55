---------------------------- MODULE FrameWindow ----------------------------
(***************************************************************************)
(* What the reorganizer (internal/pointcloud) promises, with no map, heap, *)
(* list or mutex: it keeps a window of the newest frames, now and then     *)
(* sets somebody to work on the window as it is, and when it closes hands  *)
(* over the window's frames by their timestamps.                           *)
(*                                                                         *)
(* Frames are numbered in the order they are submitted.                    *)
(***************************************************************************)
EXTENDS Integers, Sequences, SequencesExt

CONSTANTS
  Size,  \* of the window
  Ts     \* the timestamp of each frame

VARIABLES
  n,        \* frames submitted
  window,   \* the frames kept
  filling,  \* the windows being worked on
  out,      \* what was handed over: the frames that each piece is made of
  closed

vars == <<n, window, filling, out, closed>>

Init ==
  /\ n = 0 /\ window = {}
  /\ filling = {} /\ out = <<>> /\ closed = FALSE

Submit ==
  /\ ~closed
  /\ n' = n + 1
  /\ window' = {f \in 1 .. n + 1 : n + 1 - Size < f}
  /\ filling' = filling \/ filling' = filling \cup {window'}
  /\ UNCHANGED <<out, closed>>

(* Somebody is done with a window, with or without a result. *)
EndFill ==
  /\ \E w \in filling :
       /\ filling' = filling \ {w}
       /\ out' = out \/ out' = Append(out, w)
  /\ UNCHANGED <<n, window, closed>>

ByTime(q) == \A i, j \in DOMAIN q : i < j => Ts[q[i]] <= Ts[q[j]]

(* Each frame by itself, and perhaps the whole window once more, filled. *)
Close ==
  /\ ~closed /\ closed' = TRUE
  /\ window' = {}
  /\ \E q \in SetToSeqs(window), filled \in {<<>>, <<window>>} :
       /\ ByTime(q)
       /\ out' = out \o [i \in DOMAIN q |-> {q[i]}] \o filled
  /\ UNCHANGED <<n, filling>>

Next == Submit \/ EndFill \/ Close

Spec == Init /\ [][Next]_vars
=============================================================================
