---------------------------- MODULE SpatialGrid ----------------------------
(***************************************************************************)
(* The grid of cells that the void filler works on                         *)
(* (internal/voidfill/grid.go), as operators on a grid value.              *)
(*                                                                         *)
(* Coordinates are integers in a unit of which CellSize is a multiple.  A  *)
(* cell is <<cx, cy>>.  Of its points their positions matter here, and of  *)
(* its average depth only whether it was measured or interpolated.         *)
(***************************************************************************)
EXTENDS Integers, FiniteSets, Sequences, FiniteSetsExt, SequencesExt

CONSTANT CellSize  \* config.CellSize; even, so that centres are integers

SpatialGridAssumption == CellSize \in Nat /\ CellSize > 0 /\ CellSize % 2 = 0

(* math.Ceil(range / cellSize) + 1, a range of 0 standing for one cell. *)
Extent(min, max) ==
  LET range == IF max - min <= 0 THEN CellSize ELSE max - min
  IN (range + CellSize - 1) \div CellSize + 1

(* The cells of a grid. *)
CellsFor(minX, minY, maxX, maxY) ==
  (0 .. Extent(minX, maxX) - 1) \X (0 .. Extent(minY, maxY) - 1)

(* points: cell.Points; void: the cells with IsVoid; filled: those whose   *)
(* AvgDepth came from SetCellFilled.  HasData: there are points.           *)
NewSpatialGrid(minX, minY, maxX, maxY) ==
  [minX |-> minX, minY |-> minY, maxX |-> maxX, maxY |-> maxY,
   points |-> [c \in CellsFor(minX, minY, maxX, maxY) |-> <<>>],
   void |-> {}, filled |-> {}]

(* vf.grid = nil: a grid without cells, whose bounds hold no point. *)
NoGrid ==
  [minX |-> 0, minY |-> 0, maxX |-> -1, maxY |-> -1,
   points |-> <<>>, void |-> {}, filled |-> {}]

Cells(g) == DOMAIN g.points

HasData(g, c) == g.points[c] # <<>>

DataCells(g) == {c \in Cells(g) : HasData(g, c)}

(* Defect: the points of the batch before stay in their cells. *)
ResetKeepingPoints(g) == [g EXCEPT !.void = {}, !.filled = {}]

Reset(g) ==
  [g EXCEPT !.points = [c \in Cells(g) |-> <<>>], !.void = {}, !.filled = {}]

(* The upper bounds are excluded. *)
Inside(g, p) ==
  /\ g.minX <= p[1] /\ p[1] < g.maxX
  /\ g.minY <= p[2] /\ p[2] < g.maxY

CellIndex(g, p) ==
  <<(p[1] - g.minX) \div CellSize, (p[2] - g.minY) \div CellSize>>

(* AddPoint for one point after the other; a point outside is dropped. *)
AddPoints(g, points) ==
  LET added[i \in 0 .. Len(points)] ==
        IF i = 0 THEN g.points
        ELSE IF Inside(g, points[i])
          THEN [added[i - 1] EXCEPT ![CellIndex(g, points[i])] =
                                      Append(@, points[i])]
        ELSE added[i - 1]
  IN [g EXCEPT !.points = added[Len(points)]]

ComputeStatistics(g) == [g EXCEPT !.void = Cells(g) \ DataCells(g)]

CenterOf(g, c) ==
  <<g.minX + c[1] * CellSize + CellSize \div 2,
    g.minY + c[2] * CellSize + CellSize \div 2>>

(* The first of a set of cells in the order of g.cells, column by column:  *)
(* GetVoidCells lists the void cells in this order.                        *)
FirstCell(cells) ==
  LET x == Min({c[1] : c \in cells})
  IN <<x, Min({c[2] : c \in {d \in cells : d[1] = x}})>>

(* Defect: the loops run to radius - 1. *)
AroundOneShort(c, radius) ==
  LET side == 2 * radius
  IN [i \in 1 .. side * side |-> <<c[1] - radius + (i - 1) \div side,
                                   c[2] - radius + ((i - 1) % side)>>]

(* The indices around c, column by column, outside the grid as well. *)
Around(c, radius) ==
  LET side == 2 * radius + 1
  IN [i \in 1 .. side * side |-> <<c[1] - radius + (i - 1) \div side,
                                   c[2] - radius + ((i - 1) % side)>>]

(* Interpolated points are neighbours as well. *)
GetNeighbors(g, c, radius) ==
  LET PointsAt(d) == IF d \in Cells(g) THEN g.points[d] ELSE <<>>
      upTo[i \in 0 .. Len(Around(c, radius))] ==
        IF i = 0 THEN <<>> ELSE upTo[i - 1] \o PointsAt(Around(c, radius)[i])
  IN upTo[Len(Around(c, radius))]

(* Defect: IsVoid is not cleared. *)
SetCellFilledStillVoid(g, c) ==
  [g EXCEPT !.points[c] = Append(@, CenterOf(g, c)),
            !.filled = @ \cup {c}]

(* The interpolated point lies at the centre of a void cell. *)
SetCellFilled(g, c) ==
  [g EXCEPT !.points[c] = Append(@, CenterOf(g, c)),
            !.void = @ \ {c}, !.filled = @ \cup {c}]

(* One point for each cell with data, at its centre, with its AvgDepth. *)
InterpolatedPoints(g) ==
  {[at |-> CenterOf(g, c), filled |-> c \in g.filled] : c \in DataCells(g)}
=============================================================================
