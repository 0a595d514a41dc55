----------------------------- MODULE MCRedisHub -----------------------------
(* A small instance of RedisHub for TLC.  The other programs publish a     *)
(* profile without entries, one with a single entry, one with two and one  *)
(* that cannot be decoded; hours last two units of time.                   *)
EXTENDS RedisHub

CONSTANTS empty, single, layered, broken

MCOther == {empty, single, layered, broken}

MCUndecodable == {broken}

MCEntries ==
  [p \in MCOther \cup {Default} |->
     CASE p = empty -> 0 [] p = single -> 1 [] OTHER -> 2]

(* A frame, the filled frame with its counter, and the frame of the next   *)
(* hour with the same counter.                                             *)
MCFrame == {[ping |-> 1, time |-> 1, id |-> "measured"],
            [ping |-> 1, time |-> 1, id |-> "filled"],
            [ping |-> 1, time |-> 2, id |-> "measured"]}

MCLoads ==
  {[others |-> o, frames |-> {}] : o \in {{empty, single}, {broken, layered}}}
    \cup {[others |-> {}, frames |-> MCFrame]}
=============================================================================
