----------------------------- MODULE VoidFiller -----------------------------
(***************************************************************************)
(* The void filler (internal/voidfill/filler.go): FillFrames, called by    *)
(* the fill goroutines of the reorganizer and by its Flush, puts a batch   *)
(* of points on the grid and interpolates the cells without any.           *)
(*                                                                         *)
(* vf.mu is held from Begin to FillDone; the two reads of the grid after   *)
(* that are made without it.  Whether an interpolation succeeds is decided *)
(* by the number of its neighbours; its value is left out.                 *)
(*                                                                         *)
(* A definition whose comment begins with `Defect' is not part of Next.    *)
(***************************************************************************)
EXTENDS SpatialGrid, Kriging

CONSTANTS
  Caller,               \* goroutines that call FillFrames
  Batch,                \* the batches: non-empty sequences of points <<x, y>>
  NCalls,               \* bound of the model: calls in a behaviour
  SearchRadius,         \* config.SearchRadius
  MinPointsForKriging,  \* config.MinPointsForKriging
  Config,               \* values of MaxInterpolatePerTick (tick) and of
                        \* EnableFallbackIDW (fallback)
  AutoFitVariogram      \* config.AutoFitVariogram

ASSUME VoidFillerAssumption ==
  /\ SpatialGridAssumption /\ KrigingAssumption
  /\ "free" \notin Caller
  /\ NCalls \in Nat /\ SearchRadius \in Nat
  /\ MinPointsForKriging \in Nat \ {0}
  /\ Config \subseteq [tick : Int, fallback : BOOLEAN]
  /\ AutoFitVariogram \in BOOLEAN
  /\ \A b \in Batch : b # <<>> /\ b \in Seq(Int \X Int)

VARIABLES
  config,  \* the entry of Config in force
  mu,      \* vf.mu: "free", or the caller that holds it
  grid,    \* vf.grid
  call,    \* where each caller is, with the locals of its call
  stats,   \* vf.stats
  calls    \* calls begun

vars == <<config, mu, grid, call, stats, calls>>

NoPatch == [voids |-> 0, filled |-> 0, skipped |-> 0, kriging |-> 0, idw |-> 0]

NoInterpolation == [target |-> <<0, 0>>, neighbors |-> <<>>]

(* points: the batch; todo: void cells still to come; tries:               *)
(* totalInterpolated; last: what Interpolate was last called with; result  *)
(* and left: the points and the number of voids read without the lock;     *)
(* reported: FilledCells as FillFrames returns it; overtaken: another call *)
(* has begun before these reads.                                           *)
Idle ==
  [pc |-> "idle", points |-> <<>>, todo |-> {}, tries |-> 0,
   patch |-> NoPatch, last |-> NoInterpolation, result |-> {}, left |-> 0,
   reported |-> 0, overtaken |-> FALSE]

Init ==
  /\ config \in Config
  /\ mu = "free"
  /\ grid = NoGrid
  /\ call = [c \in Caller |-> Idle]
  /\ stats = [detected |-> 0, filled |-> 0, skipped |-> 0, kriging |-> 0,
              idw |-> 0]
  /\ calls = 0

-----------------------------------------------------------------------------
(* ProcessAndFill, up to the void cells *)

Xs(points) == {p[1] : p \in ToSet(points)}

Ys(points) == {p[2] : p \in ToSet(points)}

Padding == CellSize * (SearchRadius + 1)

(* vf.grid == nil || outOfBounds(...): unlike cellIndex, it admits a point *)
(* on an upper bound.                                                      *)
OutOfBounds(g, points) ==
  \/ Min(Xs(points)) < g.minX \/ Min(Ys(points)) < g.minY
  \/ Max(Xs(points)) > g.maxX \/ Max(Ys(points)) > g.maxY

GridFor(points) ==
  IF OutOfBounds(grid, points)
    THEN NewSpatialGrid(Min(Xs(points)) - Padding, Min(Ys(points)) - Padding,
                        Max(Xs(points)) + Padding, Max(Ys(points)) + Padding)
    ELSE Reset(grid)

Unlocked == {"read", "analyze"}

Begin(c, points) ==
  /\ calls < NCalls
  /\ call[c].pc \in {"idle", "done"}
  /\ mu = "free"
  /\ mu' = c
  /\ calls' = calls + 1
  /\ grid' = GridFor(points)
  /\ call' = [d \in Caller |->
                IF d = c THEN [Idle EXCEPT !.pc = "measure", !.points = points]
                ELSE [call[d] EXCEPT !.overtaken =
                        @ \/ call[d].pc \in Unlocked]]
  /\ UNCHANGED <<config, stats>>

(* Defect: the variogram is always fitted. *)
MeasureRefitting(c) ==
  /\ call[c].pc = "measure"
  /\ grid' = ComputeStatistics(AddPoints(grid, call[c].points))
  /\ LET voids == grid'.void
     IN /\ stats' = [stats EXCEPT !.detected = @ + Cardinality(voids)]
        /\ call' = [call EXCEPT ![c].pc = "autofit",
                                ![c].todo = voids,
                                ![c].patch.voids = Cardinality(voids)]
  /\ UNCHANGED <<config, mu, calls>>

(* AddPoints, ComputeStatistics and AnalyzeVoids.  With AutoFitVariogram   *)
(* the call goes on to UpdateVariogramFromGrid, which locks vf.mu: the     *)
(* caller holds it itself and no action leaves "autofit".                  *)
Measure(c) ==
  /\ call[c].pc = "measure"
  /\ grid' = ComputeStatistics(AddPoints(grid, call[c].points))
  /\ LET voids == grid'.void
     IN /\ stats' = [stats EXCEPT !.detected = @ + Cardinality(voids)]
        /\ mu' = IF voids = {} THEN "free" ELSE mu
        /\ call' = [call EXCEPT
             ![c].pc = IF voids = {} THEN "read"
                       ELSE IF AutoFitVariogram THEN "autofit" ELSE "fill",
             ![c].todo = voids,
             ![c].patch.voids = Cardinality(voids)]
  /\ UNCHANGED <<config, calls>>

-----------------------------------------------------------------------------
(* fillVoidsLocked, one void cell at a time in the order of the cells *)

Limit(c) == IF config.tick <= 0 THEN call[c].patch.voids ELSE config.tick

Filling(c) ==
  call[c].pc = "fill" /\ call[c].todo # {} /\ call[c].tries < Limit(c)

NextVoid(c) == FirstCell(call[c].todo)

(* The cell is found again from its centre. *)
Target(v) == CellIndex(grid, CenterOf(grid, v))

NeighborsOf(v) == GetNeighbors(grid, Target(v), SearchRadius)

TooFew(c, v, near) ==
  /\ Len(near) < MinPointsForKriging
  /\ call' = [call EXCEPT ![c].todo = @ \ {v},
                          ![c].patch.skipped = @ + 1]
  /\ UNCHANGED <<config, mu, grid, stats, calls>>

Filled(c, v, how, last) ==
  /\ grid' = SetCellFilled(grid, Target(v))
  /\ stats' = [stats EXCEPT ![how] = @ + 1]
  /\ call' = [call EXCEPT ![c].todo = @ \ {v},
                          ![c].tries = @ + 1,
                          ![c].last = last,
                          ![c].patch.filled = @ + 1,
                          ![c].patch[how] = @ + 1]
  /\ UNCHANGED <<config, mu, calls>>

(* Interpolate succeeds. *)
Krige(c, v, near) ==
  /\ Len(near) >= Max({MinPointsForKriging, MinKrigingNeighbors})
  /\ Filled(c, v, "kriging", [target |-> CenterOf(grid, v),
                              neighbors |-> near])

(* IDW itself fails only when its weights, 1 / distance^4, add up to less   *)
(* than 1e-12: when all neighbours are about a kilometre off, and those    *)
(* within SearchRadius cells are not.  That path is left out.              *)
FallbackIDW(c, v, near) ==
  /\ Len(near) \in MinPointsForKriging .. MinKrigingNeighbors - 1
  /\ config.fallback
  /\ Filled(c, v, "idw", call[c].last)

NoFallback(c, v, near) ==
  /\ Len(near) \in MinPointsForKriging .. MinKrigingNeighbors - 1
  /\ ~config.fallback
  /\ stats' = [stats EXCEPT !.skipped = @ + 1]
  /\ call' = [call EXCEPT ![c].todo = @ \ {v},
                          ![c].tries = @ + 1,
                          ![c].patch.skipped = @ + 1]
  /\ UNCHANGED <<config, mu, grid, calls>>

FillCell(c) ==
  /\ Filling(c)
  /\ \E v \in {NextVoid(c)} : \E near \in {NeighborsOf(v)} :
       \/ TooFew(c, v, near) \/ Krige(c, v, near)
       \/ FallbackIDW(c, v, near) \/ NoFallback(c, v, near)

(* Defect: the cells skipped before the limit are counted again. *)
CutShortAdding(c) ==
  /\ call[c].pc = "fill" /\ call[c].todo # {} /\ call[c].tries >= Limit(c)
  /\ LET rest == call[c].patch.voids - call[c].patch.filled
     IN /\ stats' = [stats EXCEPT !.skipped = @ + rest]
        /\ call' = [call EXCEPT ![c].todo = {},
                                ![c].patch.skipped = @ + rest]
  /\ UNCHANGED <<config, mu, grid, calls>>

(* maxInterpolations is reached before the last void cell. *)
CutShort(c) ==
  /\ call[c].pc = "fill" /\ call[c].todo # {} /\ call[c].tries >= Limit(c)
  /\ LET rest == call[c].patch.voids - call[c].patch.filled
     IN /\ stats' = [stats EXCEPT !.skipped = @ + rest]
        /\ call' = [call EXCEPT ![c].todo = {}, ![c].patch.skipped = rest]
  /\ UNCHANGED <<config, mu, grid, calls>>

(* Defect: vf.mu is not released. *)
FillDoneLocked(c) ==
  /\ call[c].pc = "fill" /\ call[c].todo = {}
  /\ stats' = [stats EXCEPT !.filled = @ + call[c].patch.filled]
  /\ call' = [call EXCEPT ![c].pc = "read"]
  /\ UNCHANGED <<config, mu, grid, calls>>

FillDone(c) ==
  /\ call[c].pc = "fill" /\ call[c].todo = {}
  /\ mu' = "free"
  /\ stats' = [stats EXCEPT !.filled = @ + call[c].patch.filled]
  /\ call' = [call EXCEPT ![c].pc = "read"]
  /\ UNCHANGED <<config, grid, calls>>

-----------------------------------------------------------------------------
(* What ProcessAndFill and FillFrames read after vf.mu is released *)

ReadPoints(c) ==
  /\ call[c].pc = "read"
  /\ call' = [call EXCEPT ![c].pc = "analyze",
                          ![c].result = InterpolatedPoints(grid)]
  /\ UNCHANGED <<config, mu, grid, stats, calls>>

(* The points beyond those of the batch are reported as filled; a cell     *)
(* with several measured points is one point of the result.                *)
Analyze(c) ==
  /\ call[c].pc = "analyze"
  /\ call' = [call EXCEPT ![c].pc = "done",
                          ![c].left = Cardinality(grid.void),
                          ![c].reported = Cardinality(call[c].result)
                                            - Len(call[c].points)]
  /\ UNCHANGED <<config, mu, grid, stats, calls>>

Step(c) ==
  \/ Measure(c)
  \/ FillCell(c) \/ CutShort(c) \/ FillDone(c)
  \/ ReadPoints(c) \/ Analyze(c)

Next == \E c \in Caller : Step(c) \/ \E b \in Batch : Begin(c, b)

Spec == Init /\ [][Next]_vars

(* A goroutine inside a call runs on; no call has to be made. *)
FairSpec == Spec /\ \A c \in Caller : WF_vars(Step(c))

-----------------------------------------------------------------------------

GridTypeOK ==
  /\ grid.void \subseteq Cells(grid) /\ grid.filled \subseteq Cells(grid)
  /\ \A c \in Cells(grid) : grid.points[c] \in Seq(Int \X Int)
  /\ Cells(grid) = IF grid = NoGrid THEN {}
       ELSE CellsFor(grid.minX, grid.minY, grid.maxX, grid.maxY)

(* The shape of the state; a cell is filled only at an index of the grid,  *)
(* and vf.mu is held by whoever is between Begin and FillDone.             *)
TypeOK ==
  /\ config \in Config
  /\ GridTypeOK
  /\ \A c \in Caller :
       /\ call[c].pc \in {"idle", "measure", "autofit", "fill", "read",
                          "analyze", "done"}
       /\ call[c].todo \subseteq Cells(grid)
       /\ mu = c <=> call[c].pc \in {"measure", "autofit", "fill"}
  /\ calls \in 0..NCalls
  /\ stats \in [{"detected", "filled", "skipped", "kriging", "idw"} -> Nat]

Finished(c) == call[c].pc \in Unlocked \cup {"done"}

(* When a patch is finished, every void cell it had was filled or skipped, *)
(* once, and every filled one by kriging or by IDW; and what GetStats sees *)
(* under vf.mu agrees: patches cut short by the tick included.             *)
AccountsAgree ==
  /\ \A c \in Caller : LET p == call[c].patch IN Finished(c) =>
       /\ p.filled + p.skipped = p.voids
       /\ p.filled = p.kriging + p.idw
  /\ mu = "free" =>
       /\ stats.filled = stats.kriging + stats.idw
       /\ config.fallback => stats.filled + stats.skipped <= stats.detected

(* The points of a batch that reach no cell lie on an upper bound of a     *)
(* grid kept from an earlier batch, and nothing of an earlier batch is     *)
(* left: the cells with data are those of this batch and those filled.     *)
GridIsBatch ==
  \A c \in Caller : call[c].pc = "fill" =>
    LET kept == {p \in ToSet(call[c].points) : p[1] # grid.maxX /\ p[2] # grid.maxY}
    IN /\ DataCells(grid) \ grid.filled = {CellIndex(grid, p) : p \in kept}
       /\ Cells(grid) \ DataCells(grid) = grid.void
       /\ Cardinality(grid.filled) = call[c].patch.filled

(* An interpolation takes all its neighbours or, if they are too many, the *)
(* MaxKrigingNeighbors nearest ones: no sample is farther from the target  *)
(* than a neighbour left out, and none is taken twice.                     *)
NearestChosen ==
  \A c \in Caller : LET i == call[c].last IN i.neighbors # <<>> =>
    LET samples == Samples(i.target, i.neighbors)
        Count(s, p) == Cardinality({j \in DOMAIN s : s[j] = p})
        leftOut == {p \in ToSet(i.neighbors) :
                      Count(samples, p) < Count(i.neighbors, p)}
    IN /\ Len(samples) \in MinKrigingNeighbors .. MaxKrigingNeighbors
       /\ Len(samples) < MaxKrigingNeighbors => leftOut = {}
       /\ \A p \in ToSet(samples) :
            /\ Count(samples, p) <= Count(i.neighbors, p)
            /\ \A q \in leftOut : Dist(p, i.target) <= Dist(q, i.target)

(* A patch that the tick did not cut short, and that may fall back to IDW, *)
(* leaves no void cell with enough measured points within SearchRadius     *)
(* cells in either direction.                                              *)
EligibleFilled ==
  \A c \in Caller :
    (/\ call[c].pc = "fill" /\ call[c].todo = {} /\ config.fallback
     /\ call[c].tries < Limit(c))
    => \A v \in grid.void :
         Cardinality({i \in DOMAIN call[c].points :
           LET p == call[c].points[i]
               d == CellIndex(grid, p)
           IN /\ Inside(grid, p)
              /\ d[1] \in v[1] - SearchRadius .. v[1] + SearchRadius
              /\ d[2] \in v[2] - SearchRadius .. v[2] + SearchRadius})
         < MinPointsForKriging

(* A call that no other has overtaken returns the points of its own batch: *)
(* a measured depth in each of its cells, the interpolated ones beside     *)
(* them, and the number of voids left over; it never reports more cells as *)
(* filled than it has filled.  (An overtaken call may return the grid of   *)
(* the other: the reads are made without vf.mu.)                           *)
OwnResult ==
  \A c \in Caller : call[c].pc = "done" /\ ~call[c].overtaken =>
    LET filled == {r \in call[c].result : r.filled}
    IN /\ Cardinality(filled) = call[c].patch.filled
       /\ call[c].left = call[c].patch.voids - call[c].patch.filled
       /\ Cardinality(call[c].result \ filled) <= Len(call[c].points)
       /\ call[c].reported <= call[c].patch.filled
       /\ \A r \in call[c].result \ filled : \E p \in ToSet(call[c].points) :
            /\ 2 * (p[1] - r.at[1]) \in -CellSize .. CellSize - 1
            /\ 2 * (p[2] - r.at[2]) \in -CellSize .. CellSize - 1

(* FillFrames returns: its loops end, and nobody keeps vf.mu. *)
CallsReturn ==
  \A c \in Caller : call[c].pc = "measure" ~> call[c].pc = "done"
=============================================================================
