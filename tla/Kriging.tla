------------------------------ MODULE Kriging ------------------------------
(***************************************************************************)
(* The choice of the samples of an interpolation                           *)
(* (internal/kriging/solver.go), as operators on sequences of points       *)
(* <<x, y>>.  Positions are counted from 1, the code's from 0.  Distances  *)
(* are compared by their squares.  The system of equations and its         *)
(* solution are left out: when it is singular, Interpolate weights the     *)
(* same samples by their distance and reports success all the same.        *)
(***************************************************************************)
EXTENDS Integers, Sequences

CONSTANTS
  MinKrigingNeighbors,  \* below it Interpolate fails
  MaxKrigingNeighbors   \* above it Interpolate selects that many

KrigingAssumption ==
  /\ MinKrigingNeighbors \in Nat /\ MaxKrigingNeighbors \in Nat
  /\ MinKrigingNeighbors <= MaxKrigingNeighbors

Dist(p, q) ==
  (p[1] - q[1]) * (p[1] - q[1]) + (p[2] - q[2]) * (p[2] - q[2])

Swap(s, i, j) == [s EXCEPT ![i] = s[j], ![j] = s[i]]

(* The pivot is the last item of lo..hi; at is where it ends up. *)
PartitionItems(target, items, lo, hi) ==
  LET pivot == Dist(items[hi], target)
      scan[j \in lo - 1 .. hi - 1] ==
        IF j = lo - 1 THEN [items |-> items, at |-> lo]
        ELSE LET s == scan[j - 1]
             IN IF Dist(s.items[j], target) <= pivot
                  THEN [items |-> Swap(s.items, s.at, j), at |-> s.at + 1]
                  ELSE s
      end == scan[hi - 1]
  IN [end EXCEPT !.items = Swap(@, end.at, hi)]

(* Defect: the half that holds the k-th item is left alone. *)
QuickSelectOtherHalf(target, items, k) ==
  LET loop[n \in 0 .. Len(items)] ==
        IF n = 0 THEN [items |-> items, lo |-> 1, hi |-> Len(items)]
        ELSE LET s == loop[n - 1]
                 p == PartitionItems(target, s.items, s.lo, s.hi)
             IN IF s.lo >= s.hi THEN s
                ELSE [items |-> p.items,
                      lo |-> IF p.at > k + 1 THEN p.at + 1 ELSE s.lo,
                      hi |-> IF p.at < k + 1 THEN p.at - 1 ELSE s.hi]
  IN loop[Len(items)].items

(* The loop of quickSelectItems, after n iterations.  The range lo..hi     *)
(* gets shorter each time; when the pivot ends up at k, which ends the     *)
(* loop, the range is the pivot alone.  The k first items are the nearest  *)
(* then.                                                                   *)
QuickSelectItems(target, items, k) ==
  LET loop[n \in 0 .. Len(items)] ==
        IF n = 0 THEN [items |-> items, lo |-> 1, hi |-> Len(items)]
        ELSE LET s == loop[n - 1]
                 p == PartitionItems(target, s.items, s.lo, s.hi)
             IN IF s.lo >= s.hi THEN s
                ELSE [items |-> p.items,
                      lo |-> IF p.at < k + 1 THEN p.at + 1
                             ELSE IF p.at = k + 1 THEN p.at ELSE s.lo,
                      hi |-> IF p.at > k + 1 THEN p.at - 1
                             ELSE IF p.at = k + 1 THEN p.at ELSE s.hi]
  IN loop[Len(items)].items

SelectNeighbors(target, candidates, maxN) ==
  SubSeq(QuickSelectItems(target, candidates, maxN), 1, maxN)

(* The samples that Interpolate works with. *)
Samples(target, neighbors) ==
  IF Len(neighbors) > MaxKrigingNeighbors
    THEN SelectNeighbors(target, neighbors, MaxKrigingNeighbors)
    ELSE neighbors
=============================================================================
