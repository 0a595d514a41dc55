---------------------------- MODULE MCVoidFiller ----------------------------
(* A small instance of VoidFiller for TLC: cells of two units, a search    *)
(* radius of one cell.  Onto the grid of the first batch, x and y from -4, *)
(* the second fits with a point on the upper bound 7; the third does not   *)
(* fit, and the first fits onto its grid.                                  *)
EXTENDS VoidFiller

CONSTANTS c1, c2

MCCaller == {c1, c2}

MCBatch == {<< <<0, 0>>, <<1, 0>>, <<3, 1>> >>,
            << <<7, 0>>, <<6, 0>>, <<5, 1>> >>,
            << <<-1, 4>>, <<2, 6>>, <<2, 4>>, <<4, 4>>, <<2, 4>> >>}

MCConfig == {[tick |-> 0, fallback |-> TRUE], [tick |-> 3, fallback |-> TRUE],
             [tick |-> 3, fallback |-> FALSE]}
=============================================================================
