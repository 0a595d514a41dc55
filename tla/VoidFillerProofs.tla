-------------------------- MODULE VoidFillerProofs --------------------------
(***************************************************************************)
(* Proofs about VoidFiller, for any number of goroutines, batches and      *)
(* cells, any search radius and tick, with and without IDW.                *)
(*                                                                         *)
(* IInv is about counts: those of a patch and of GetStats agree, each      *)
(* interpolation fills a void cell of the call's own grid, and the number  *)
(* of voids that a call reports is its own unless another call has         *)
(* overtaken it.  Data is about points: which cells hold points of the     *)
(* batch, which neighbours the cells that were skipped have, what an       *)
(* interpolation was given and what a call has read of the grid.  It rests *)
(* on IInv, and both together are inductive.  CallsGoForward says that a   *)
(* call has only so many steps to make.                                    *)
(***************************************************************************)
EXTENDS GridProofs


Held == {"measure", "autofit", "fill"}

Pcs == Held \cup {"idle", "read", "analyze", "done"}

Patches == [{"voids", "filled", "skipped", "kriging", "idw"} -> Nat]

CallFields == {"pc", "points", "todo", "tries", "patch", "last", "result",
               "left", "reported", "overtaken"}

(* The locals of a call. *)
CallShape(k) ==
  /\ DOMAIN k = CallFields
  /\ k.pc \in Pcs /\ k.patch \in Patches
  /\ k.pc = "measure" => k.points \in Batch

StatsType == [{"detected", "filled", "skipped", "kriging", "idw"} -> Nat]

Shape ==
  /\ config \in Config
  /\ GridShape(grid)
  /\ DOMAIN call = Caller /\ \A c \in Caller : CallShape(call[c])
  /\ stats \in StatsType
  /\ calls \in Nat

(* vf.mu is held from Begin to FillDone, by one caller; a caller that is   *)
(* about to read the grid without it knows that it was overtaken.          *)
Exclusive ==
  /\ mu \in Caller \cup {"free"}
  /\ \A c \in Caller : mu = c <=> call[c].pc \in Held
  /\ mu \in Caller =>
       \A c \in Caller : call[c].pc \in Unlocked => call[c].overtaken

(* The grid is still the one that the call of c works on. *)
Own(c) == mu = c \/ (call[c].pc \in Unlocked /\ ~call[c].overtaken)

(* Between two cells of fillVoidsLocked, each void cell of the patch is    *)
(* filled, skipped or still to come.                                       *)
PatchAdds(k) ==
  /\ IsFiniteSet(k.todo)
  /\ k.patch.filled + k.patch.skipped + Cardinality(k.todo) = k.patch.voids
  /\ k.patch.filled = k.patch.kriging + k.patch.idw
  /\ k.pc \notin {"fill", "autofit"} => k.todo = {}
  /\ k.pc = "measure" => k.patch = NoPatch

(* A call's patch counts the cells of its grid. *)
GridAdds ==
  /\ \A c \in Caller : Own(c) =>
       /\ call[c].todo \subseteq grid.void
       /\ grid.void \cap grid.filled = {}
       /\ Cardinality(grid.filled) = call[c].patch.filled
       /\ Cardinality(grid.void) = call[c].patch.voids - call[c].patch.filled
  /\ \A c \in Caller : call[c].pc = "done" /\ ~call[c].overtaken =>
       call[c].left = call[c].patch.voids - call[c].patch.filled

(* The void cells that a caller holding vf.mu has already counted in       *)
(* patch.filled, and not yet in stats.filled.                              *)
Pending == IF mu \in Caller THEN call[mu].patch.filled ELSE 0

StatsAdd ==
  /\ stats["filled"] + Pending = stats["kriging"] + stats["idw"]
  /\ config.fallback =>
       /\ stats["filled"] + stats["skipped"] + Pending <= stats["detected"]
       /\ mu \in Caller /\ call[mu].todo # {} =>
            stats["filled"] + stats["skipped"] + call[mu].patch.voids
              <= stats["detected"]

IInv ==
  /\ Shape
  /\ Exclusive
  /\ \A c \in Caller : PatchAdds(call[c])
  /\ GridAdds
  /\ StatsAdd

-----------------------------------------------------------------------------
(* The invariant *)

LEMMA InitInvariant == Init => IInv
<1> SUFFICES ASSUME Init PROVE IInv
  OBVIOUS
<1>1. /\ config \in Config /\ mu = "free" /\ grid = NoGrid /\ calls = 0
      /\ call = [c \in Caller |-> Idle]
      /\ stats = [detected |-> 0, filled |-> 0, skipped |-> 0, kriging |-> 0,
                  idw |-> 0]
  BY DEF Init
<1>2. GridShape(grid)
  <2>1. DOMAIN NoGrid = GridFields
    BY DEF NoGrid, GridFields
  <2>2. /\ NoGrid.minX \in Int /\ NoGrid.minY \in Int /\ NoGrid.maxX \in Int
        /\ NoGrid.maxY \in Int /\ NoGrid.void = {} /\ NoGrid.filled = {}
    BY DEF NoGrid
  <2>3. Cells(NoGrid) = {}
    <3>1. NoGrid.points = <<>>
      BY DEF NoGrid
    <3> QED
      BY <3>1 DEF Cells
  <2>4. NoGrid.points \in [Cells(NoGrid) -> Seq(Int \X Int)]
    BY <2>3 DEF NoGrid
  <2> QED
    BY <1>1, <2>1, <2>2, <2>3, <2>4, FS_EmptySet DEF GridShape
<1>3. /\ DOMAIN Idle = CallFields
      /\ Idle.pc = "idle" /\ Idle.todo = {} /\ Idle.patch = NoPatch
  BY DEF Idle, CallFields
<1>4. /\ NoPatch \in Patches /\ NoPatch.voids = 0 /\ NoPatch.filled = 0
      /\ NoPatch.skipped = 0 /\ NoPatch.kriging = 0 /\ NoPatch.idw = 0
  BY DEF NoPatch, Patches
<1>5. CallShape(Idle) /\ PatchAdds(Idle)
  BY <1>3, <1>4, FS_EmptySet DEF CallShape, PatchAdds, Pcs, Held
<1>6. DOMAIN call = Caller /\ \A c \in Caller : call[c] = Idle
  BY <1>1
<1>7. stats \in StatsType
      /\ stats["filled"] = 0 /\ stats["kriging"] = 0 /\ stats["idw"] = 0
      /\ stats["skipped"] = 0 /\ stats["detected"] = 0
  BY <1>1 DEF StatsType
<1>8. Shape
  BY <1>1, <1>2, <1>5, <1>6, <1>7 DEF Shape
<1>9. mu \notin Caller
  BY <1>1, Sizes
<1>10. Exclusive
  BY <1>1, <1>3, <1>6, <1>9 DEF Exclusive, Held
<1>11. \A c \in Caller : PatchAdds(call[c])
  BY <1>5, <1>6
<1>12. GridAdds
  BY <1>3, <1>6, <1>9 DEF GridAdds, Own, Unlocked
<1>13. StatsAdd
  BY <1>7, <1>9 DEF StatsAdd, Pending
<1> QED
  BY <1>8, <1>10, <1>11, <1>12, <1>13 DEF IInv

(* A step of the caller that holds vf.mu concerns its own call only: no    *)
(* other call has the grid for its own.                                    *)
LEMMA HolderKeeps ==
  ASSUME IInv, NEW c \in Caller, mu = c,
         DOMAIN call' = Caller, \A d \in Caller \ {c} : call'[d] = call[d],
         config' = config, calls' = calls,
         CallShape(call'[c]), PatchAdds(call'[c]),
         GridShape(grid'), stats' \in StatsType,
         \/ mu' = c /\ call'[c].pc \in Held
         \/ mu' = "free" /\ call'[c].pc = "read",
         call'[c].todo \subseteq grid'.void,
         grid'.void \cap grid'.filled = {},
         Cardinality(grid'.filled) = call'[c].patch.filled,
         Cardinality(grid'.void)
           = call'[c].patch.voids - call'[c].patch.filled,
         StatsAdd'
  PROVE  IInv'
<1>1. Shape /\ Exclusive /\ GridAdds /\ \A d \in Caller : PatchAdds(call[d])
  BY DEF IInv
<1>2. "free" \notin Caller
  BY Sizes
<1>3. Shape'
  <2>1. \A d \in Caller : CallShape(call'[d])
    BY <1>1 DEF Shape
  <2> QED
    BY <1>1, <2>1 DEF Shape, StatsType
<1>4. (\A d \in Caller : PatchAdds(call[d]))'
  BY <1>1
<1>5. ASSUME NEW d \in Caller, d # c
      PROVE  /\ call'[d] = call[d] /\ call[d].pc \notin Held /\ mu' # d
             /\ call[d].pc \in Unlocked => call[d].overtaken
  BY <1>1, <1>2, <1>5 DEF Exclusive
<1>6. call'[c].pc \in Held \/ call'[c].pc = "read"
  OBVIOUS
<1>7. Exclusive'
  <2>1. mu' \in Caller \cup {"free"}
    OBVIOUS
  <2>2. ASSUME NEW d \in Caller PROVE mu' = d <=> call'[d].pc \in Held
    BY <1>2, <1>5 DEF Held
  <2>3. ASSUME mu' \in Caller, NEW d \in Caller, call'[d].pc \in Unlocked
        PROVE  call'[d].overtaken
    <3>1. call'[c].pc \notin Unlocked
      BY <1>2, <2>3 DEF Held, Unlocked
    <3>2. d # c
      BY <2>3, <3>1
    <3> QED
      BY <1>5, <2>3, <3>2
  <2> QED
    BY <2>1, <2>2, <2>3 DEF Exclusive
<1>8. GridAdds'
  <2>1. ASSUME NEW d \in Caller, Own(d)' PROVE d = c
    <3>1. mu' = d \/ (call'[d].pc \in Unlocked /\ ~call'[d].overtaken)
      BY <2>1 DEF Own
    <3> QED
      BY <1>5, <3>1
  <2>2. call'[c].pc # "done"
    BY <1>6 DEF Held
  <2>3. ASSUME NEW d \in Caller, call'[d].pc = "done", ~call'[d].overtaken
        PROVE  call'[d].left = call'[d].patch.voids - call'[d].patch.filled
    BY <1>1, <1>5, <2>2, <2>3 DEF GridAdds
  <2> QED
    BY <2>1, <2>3 DEF GridAdds
<1> QED
  BY <1>3, <1>4, <1>7, <1>8 DEF IInv

(* What the invariant says of the caller that holds vf.mu. *)
LEMMA Holding ==
  ASSUME IInv, NEW c \in Caller, call[c].pc \in Held
  PROVE  /\ mu = c /\ DOMAIN call = Caller /\ DOMAIN call[c] = CallFields
         /\ call[c].patch \in Patches /\ PatchAdds(call[c])
         /\ IsFiniteSet(call[c].todo) /\ Cardinality(call[c].todo) \in Nat
         /\ GridShape(grid) /\ stats \in StatsType /\ config \in Config
         /\ call[c].todo \subseteq grid.void
         /\ grid.void \cap grid.filled = {}
         /\ Cardinality(grid.filled) = call[c].patch.filled
         /\ Cardinality(grid.void)
              = call[c].patch.voids - call[c].patch.filled
         /\ Pending = call[c].patch.filled
<1>1. Shape /\ Exclusive /\ GridAdds /\ PatchAdds(call[c])
  BY DEF IInv
<1>2. mu = c /\ Own(c)
  BY <1>1 DEF Exclusive, Own
<1>3. IsFiniteSet(call[c].todo)
  BY <1>1 DEF PatchAdds
<1>4. Cardinality(call[c].todo) \in Nat
  BY <1>3, FS_CardinalityType
<1>5. DOMAIN call[c] = CallFields /\ call[c].patch \in Patches
  BY <1>1 DEF Shape, CallShape
<1>6. Pending = call[c].patch.filled
  BY <1>2 DEF Pending
<1>7. /\ call[c].todo \subseteq grid.void
      /\ grid.void \cap grid.filled = {}
      /\ Cardinality(grid.filled) = call[c].patch.filled
      /\ Cardinality(grid.void) = call[c].patch.voids - call[c].patch.filled
  BY <1>1, <1>2 DEF GridAdds
<1>8. DOMAIN call = Caller /\ GridShape(grid) /\ stats \in StatsType
      /\ config \in Config
  BY <1>1 DEF Shape
<1> QED
  BY <1>1, <1>2, <1>3, <1>4, <1>5, <1>6, <1>7, <1>8

LEMMA MeasureKeeps ==
  ASSUME IInv, NEW c \in Caller, Measure(c)
  PROVE  IInv'
<1> DEFINE k == call[c]  k1 == call'[c]  n == Cardinality(grid'.void)
<1>1. k.pc = "measure"
  BY DEF Measure
<1>2. /\ mu = c /\ DOMAIN call = Caller /\ DOMAIN k = CallFields
      /\ k.patch \in Patches /\ PatchAdds(k)
      /\ GridShape(grid) /\ stats \in StatsType /\ config \in Config
      /\ Cardinality(grid.filled) = k.patch.filled
      /\ Pending = k.patch.filled
  BY <1>1, Holding DEF Held
<1>3. k.patch = NoPatch /\ k.points \in Batch
  <2>1. CallShape(k)
    BY DEF IInv, Shape
  <2> QED
    BY <1>1, <1>2, <2>1 DEF PatchAdds, CallShape
<1>4. /\ NoPatch.voids = 0 /\ NoPatch.filled = 0 /\ NoPatch.skipped = 0
      /\ NoPatch.kriging = 0 /\ NoPatch.idw = 0
  BY DEF NoPatch
<1>5. GridShape(grid') /\ grid'.filled = grid.filled
  <2>1. k.points \in Seq(Int \X Int)
    BY <1>3, Sizes
  <2> QED
    BY <1>2, <2>1, MeasuredGrid DEF Measure
<1>6. IsFiniteSet(grid'.void) /\ n \in Nat
  <2>1. IsFiniteSet(grid'.void)
    BY <1>5, FS_Subset DEF GridShape
  <2> QED
    BY <2>1, FS_CardinalityType
<1>7. grid'.filled = {}
  <2>1. IsFiniteSet(grid.filled)
    BY <1>2, FS_Subset DEF GridShape
  <2>2. Cardinality(grid.filled) = 0
    BY <1>2, <1>3, <1>4
  <2> QED
    BY <1>5, <2>1, <2>2, FS_EmptySet
<1>8. /\ DOMAIN call' = Caller /\ \A d \in Caller \ {c} : call'[d] = call[d]
      /\ config' = config /\ calls' = calls
  BY <1>2 DEF Measure
<1>9. DOMAIN k1 = CallFields
  BY <1>2 DEF Measure
<1>10. k1.todo = grid'.void /\ k1.patch = [NoPatch EXCEPT !.voids = n]
  BY <1>2, <1>3 DEF Measure, CallFields
<1>11. /\ k1.patch \in Patches
       /\ k1.patch.voids = n /\ k1.patch.filled = 0 /\ k1.patch.skipped = 0
       /\ k1.patch.kriging = 0 /\ k1.patch.idw = 0
  BY <1>6, <1>10 DEF NoPatch, Patches
<1>12. \/ mu' = c /\ k1.pc \in {"autofit", "fill"}
       \/ mu' = "free" /\ k1.pc = "read" /\ grid'.void = {}
  BY <1>2 DEF Measure, CallFields
<1>13. stats' = [stats EXCEPT !["detected"] = stats["detected"] + n]
  BY DEF Measure
<1>14. /\ stats' \in StatsType
       /\ stats'["detected"] = stats["detected"] + n
       /\ stats'["filled"] = stats["filled"]
       /\ stats'["skipped"] = stats["skipped"]
       /\ stats'["kriging"] = stats["kriging"]
       /\ stats'["idw"] = stats["idw"]
  BY <1>2, <1>6, <1>13 DEF StatsType
<1> HIDE DEF k, k1, n
<1>15. CallShape(k1) /\ PatchAdds(k1)
  <2>1. CallShape(k1)
    BY <1>9, <1>11, <1>12 DEF CallShape, Pcs, Held
  <2>2. PatchAdds(k1)
    BY <1>6, <1>10, <1>11, <1>12 DEF PatchAdds, n
  <2> QED
    BY <2>1, <2>2
<1>16. Pending' = 0
  <2>1. mu' = c => Pending' = k1.patch.filled
    BY DEF Pending, k1
  <2>2. mu' = "free" => Pending' = 0
    BY Sizes DEF Pending
  <2> QED
    BY <1>11, <1>12, <2>1, <2>2
<1>17. StatsAdd'
  <2>1. StatsAdd /\ Pending = 0
    BY <1>2, <1>3, <1>4 DEF IInv
  <2>2. /\ stats["detected"] \in Nat /\ stats["filled"] \in Nat
        /\ stats["skipped"] \in Nat /\ stats["kriging"] \in Nat
        /\ stats["idw"] \in Nat
    BY <1>2 DEF StatsType
  <2>3. stats'["filled"] + Pending' = stats'["kriging"] + stats'["idw"]
    BY <1>14, <1>16, <2>1, <2>2 DEF StatsAdd
  <2>4. ASSUME config'.fallback
        PROVE  /\ stats'["filled"] + stats'["skipped"] + Pending'
                    <= stats'["detected"]
               /\ mu' \in Caller => stats'["filled"] + stats'["skipped"]
                    + call'[mu'].patch.voids <= stats'["detected"]
    <3>1. stats["filled"] + stats["skipped"] + 0 <= stats["detected"]
      BY <1>8, <2>1, <2>4 DEF StatsAdd
    <3>2. mu' \in Caller => call'[mu'].patch.voids = n
      BY <1>11, <1>12, Sizes DEF k1
    <3> QED
      BY <1>6, <1>14, <1>16, <2>2, <3>1, <3>2
  <2> QED
    BY <2>3, <2>4 DEF StatsAdd
<1>18. /\ k1.todo \subseteq grid'.void /\ grid'.void \cap grid'.filled = {}
       /\ Cardinality(grid'.filled) = k1.patch.filled
       /\ Cardinality(grid'.void) = k1.patch.voids - k1.patch.filled
  BY <1>6, <1>7, <1>10, <1>11, FS_EmptySet DEF n
<1>19. (mu' = c /\ k1.pc \in Held) \/ (mu' = "free" /\ k1.pc = "read")
  BY <1>12 DEF Held
<1> QED
  BY <1>2, <1>5, <1>8, <1>14, <1>15, <1>17, <1>18, <1>19, HolderKeeps DEF k1

(* The next void cell is one of those to come, and is taken off the list   *)
(* under its own index.                                                    *)
LEMMA CellTaken ==
  ASSUME IInv, NEW c \in Caller, Filling(c), NEW v, v = NextVoid(c)
  PROVE  /\ v \in call[c].todo /\ v \in grid.void /\ Target(v) = v
         /\ IsFiniteSet(call[c].todo \ {v})
         /\ Cardinality(call[c].todo \ {v}) = Cardinality(call[c].todo) - 1
         /\ Cardinality(call[c].todo) >= 1
<1>1. call[c].pc \in Held /\ call[c].todo # {}
  BY DEF Filling, Held
<1>2. /\ IsFiniteSet(call[c].todo) /\ Cardinality(call[c].todo) \in Nat
      /\ GridShape(grid) /\ call[c].todo \subseteq grid.void
  BY <1>1, Holding
<1>3. grid.void \subseteq Nat \X Nat
  BY <1>2 DEF GridShape
<1>4. v \in call[c].todo
  BY <1>1, <1>2, <1>3, FirstIsOne DEF NextVoid
<1>5. Target(v) = v
  BY <1>2, <1>3, <1>4, SameCell DEF Target
<1>6. /\ IsFiniteSet(call[c].todo \ {v})
      /\ Cardinality(call[c].todo \ {v}) = Cardinality(call[c].todo) - 1
  BY <1>2, <1>4, FS_RemoveElement
<1>7. Cardinality(call[c].todo) # 0
  BY <1>1, <1>2, FS_EmptySet
<1> QED
  BY <1>2, <1>4, <1>5, <1>6, <1>7

(* A cell that is left void: with too few neighbours, or for want of IDW.  *)
LEMMA SkipKeeps ==
  ASSUME IInv, NEW c \in Caller, Filling(c), NEW near,
         TooFew(c, NextVoid(c), near) \/ NoFallback(c, NextVoid(c), near)
  PROVE  IInv'
<1> DEFINE k == call[c]  k1 == call'[c]  v == NextVoid(c)
<1>1. k.pc = "fill"
  BY DEF Filling
<1>2. /\ mu = c /\ DOMAIN call = Caller /\ DOMAIN k = CallFields
      /\ k.patch \in Patches /\ PatchAdds(k)
      /\ Cardinality(k.todo) \in Nat
      /\ GridShape(grid) /\ stats \in StatsType /\ config \in Config
      /\ k.todo \subseteq grid.void /\ grid.void \cap grid.filled = {}
      /\ Cardinality(grid.filled) = k.patch.filled
      /\ Cardinality(grid.void) = k.patch.voids - k.patch.filled
      /\ Pending = k.patch.filled
  BY <1>1, Holding DEF Held
<1>3. /\ v \in k.todo /\ IsFiniteSet(k.todo \ {v})
      /\ Cardinality(k.todo \ {v}) = Cardinality(k.todo) - 1
  BY CellTaken
<1> HIDE DEF v
<1>4. /\ DOMAIN call' = Caller /\ \A d \in Caller \ {c} : call'[d] = call[d]
      /\ config' = config /\ calls' = calls /\ mu' = mu /\ grid' = grid
  BY <1>2 DEF TooFew, NoFallback
<1>5. DOMAIN k1 = CallFields
  BY <1>2 DEF TooFew, NoFallback
<1>6. k1.pc = k.pc /\ k1.todo = k.todo \ {v}
  BY <1>2 DEF TooFew, NoFallback, CallFields, v
<1>7. k1.patch = [k.patch EXCEPT !.skipped = k.patch.skipped + 1]
  BY <1>2 DEF TooFew, NoFallback, CallFields
<1> HIDE DEF k1
<1>8. /\ k1.patch \in Patches /\ k1.patch.voids = k.patch.voids
      /\ k1.patch.filled = k.patch.filled
      /\ k1.patch.skipped = k.patch.skipped + 1
      /\ k1.patch.kriging = k.patch.kriging /\ k1.patch.idw = k.patch.idw
  BY <1>2, <1>7 DEF Patches
<1>9. \/ stats' = stats
      \/ /\ ~config.fallback
         /\ stats' = [stats EXCEPT !["skipped"] = stats["skipped"] + 1]
  BY DEF TooFew, NoFallback
<1> HIDE DEF k
<1>10. /\ k.patch.voids \in Nat /\ k.patch.filled \in Nat
       /\ k.patch.skipped \in Nat
  BY <1>2 DEF Patches
<1>11. CallShape(k1)
  BY <1>1, <1>5, <1>6, <1>8 DEF CallShape, Pcs, Held
<1>12. PatchAdds(k1)
  <2>1. /\ k.patch.filled + k.patch.skipped + Cardinality(k.todo)
             = k.patch.voids
        /\ k.patch.filled = k.patch.kriging + k.patch.idw
    BY <1>2 DEF PatchAdds
  <2>2. k1.patch.filled + k1.patch.skipped + Cardinality(k1.todo)
          = k1.patch.voids
    BY <1>2, <1>3, <1>6, <1>8, <1>10, <2>1
  <2> QED
    BY <1>1, <1>3, <1>6, <1>8, <2>1, <2>2 DEF PatchAdds
<1>13. /\ stats' \in StatsType
       /\ stats'["detected"] = stats["detected"]
       /\ stats'["filled"] = stats["filled"]
       /\ stats'["kriging"] = stats["kriging"]
       /\ stats'["idw"] = stats["idw"]
       /\ config.fallback => stats'["skipped"] = stats["skipped"]
  BY <1>2, <1>9 DEF StatsType
<1>14. Pending' = Pending
  BY <1>2, <1>4, <1>8 DEF Pending, k1, k
<1>15. StatsAdd'
  <2>1. StatsAdd
    BY DEF IInv
  <2>2. call[mu].todo # {} /\ call'[mu'].patch.voids = call[mu].patch.voids
    BY <1>2, <1>3, <1>4, <1>8 DEF k, k1
  <2> QED
    BY <1>4, <1>13, <1>14, <2>1, <2>2 DEF StatsAdd
<1>16. mu' = c /\ k1.pc \in Held
  BY <1>1, <1>2, <1>4, <1>6 DEF Held
<1>17. /\ k1.todo \subseteq grid'.void /\ grid'.void \cap grid'.filled = {}
       /\ Cardinality(grid'.filled) = k1.patch.filled
       /\ Cardinality(grid'.void) = k1.patch.voids - k1.patch.filled
       /\ GridShape(grid')
  BY <1>2, <1>4, <1>6, <1>8
<1> QED
  BY <1>2, <1>4, <1>11, <1>12, <1>13, <1>15, <1>16, <1>17, HolderKeeps DEF k1

(* An interpolated cell.  There was still a void cell to come, so that the *)
(* detected cells leave room for it.                                       *)
LEMMA FilledKeeps ==
  ASSUME IInv, NEW c \in Caller, Filling(c), NEW last,
         NEW how \in {"kriging", "idw"}, Filled(c, NextVoid(c), how, last)
  PROVE  IInv'
<1> DEFINE k == call[c]  k1 == call'[c]  v == NextVoid(c)
<1>1. k.pc = "fill"
  BY DEF Filling
<1>2. /\ mu = c /\ DOMAIN call = Caller /\ DOMAIN k = CallFields
      /\ k.patch \in Patches /\ PatchAdds(k)
      /\ Cardinality(k.todo) \in Nat
      /\ GridShape(grid) /\ stats \in StatsType /\ config \in Config
      /\ k.todo \subseteq grid.void /\ grid.void \cap grid.filled = {}
      /\ Cardinality(grid.filled) = k.patch.filled
      /\ Cardinality(grid.void) = k.patch.voids - k.patch.filled
      /\ Pending = k.patch.filled
  BY <1>1, Holding DEF Held
<1>3. /\ v \in k.todo /\ v \in grid.void /\ Target(v) = v
      /\ IsFiniteSet(k.todo \ {v})
      /\ Cardinality(k.todo \ {v}) = Cardinality(k.todo) - 1
      /\ Cardinality(k.todo) >= 1
  BY CellTaken
<1>4. grid' = SetCellFilled(grid, v)
  BY <1>3 DEF Filled
<1> HIDE DEF v
<1>5. /\ GridShape(grid') /\ grid'.void = grid.void \ {v}
      /\ grid'.void \cap grid'.filled = {}
      /\ Cardinality(grid'.void) = Cardinality(grid.void) - 1
      /\ Cardinality(grid'.filled) = Cardinality(grid.filled) + 1
  BY <1>2, <1>3, <1>4, FilledGrid
<1>6. /\ DOMAIN call' = Caller /\ \A d \in Caller \ {c} : call'[d] = call[d]
      /\ config' = config /\ calls' = calls /\ mu' = mu
  BY <1>2 DEF Filled
<1>7. DOMAIN k1 = CallFields
  BY <1>2 DEF Filled
<1>8. k1.pc = k.pc /\ k1.todo = k.todo \ {v}
  BY <1>2 DEF Filled, CallFields, v
<1>9. k1.patch = [k.patch EXCEPT !.filled = @ + 1, ![how] = @ + 1]
  BY <1>2 DEF Filled, CallFields
<1>10. stats' = [stats EXCEPT ![how] = stats[how] + 1]
  BY DEF Filled
<1> HIDE DEF k1
<1>11. /\ k1.patch \in Patches /\ k1.patch.voids = k.patch.voids
       /\ k1.patch.filled = k.patch.filled + 1
       /\ k1.patch.skipped = k.patch.skipped
       /\ k1.patch.kriging + k1.patch.idw = k.patch.kriging + k.patch.idw + 1
  <2>1. CASE how = "kriging"
    BY <1>2, <1>9, <2>1 DEF Patches
  <2>2. CASE how = "idw"
    BY <1>2, <1>9, <2>2 DEF Patches
  <2> QED
    BY <2>1, <2>2
<1>12. /\ stats' \in StatsType
       /\ stats'["detected"] = stats["detected"]
       /\ stats'["filled"] = stats["filled"]
       /\ stats'["skipped"] = stats["skipped"]
       /\ stats'["kriging"] + stats'["idw"]
            = stats["kriging"] + stats["idw"] + 1
  <2>1. CASE how = "kriging"
    BY <1>2, <1>10, <2>1 DEF StatsType
  <2>2. CASE how = "idw"
    BY <1>2, <1>10, <2>2 DEF StatsType
  <2> QED
    BY <2>1, <2>2
<1> HIDE DEF k
<1>13. /\ k.patch.voids \in Nat /\ k.patch.filled \in Nat
       /\ k.patch.skipped \in Nat /\ k.patch.kriging \in Nat
       /\ k.patch.idw \in Nat
  BY <1>2 DEF Patches
<1>14. /\ k.patch.filled + k.patch.skipped + Cardinality(k.todo)
            = k.patch.voids
       /\ k.patch.filled = k.patch.kriging + k.patch.idw
  BY <1>2 DEF PatchAdds
<1>15. CallShape(k1)
  BY <1>1, <1>7, <1>8, <1>11 DEF CallShape, Pcs, Held
<1>16. PatchAdds(k1)
  <2>1. /\ k1.patch.filled + k1.patch.skipped + Cardinality(k1.todo)
             = k1.patch.voids
        /\ k1.patch.filled = k1.patch.kriging + k1.patch.idw
    BY <1>2, <1>3, <1>8, <1>11, <1>13, <1>14
  <2> QED
    BY <1>1, <1>3, <1>8, <2>1 DEF PatchAdds
<1>17. Pending' = Pending + 1
  BY <1>2, <1>6, <1>11 DEF Pending, k1, k
<1>18. StatsAdd'
  <2>1. StatsAdd
    BY DEF IInv
  <2>2. /\ stats["detected"] \in Nat /\ stats["filled"] \in Nat
        /\ stats["skipped"] \in Nat /\ stats["kriging"] \in Nat
        /\ stats["idw"] \in Nat
    BY <1>2 DEF StatsType
  <2>3. stats'["filled"] + Pending' = stats'["kriging"] + stats'["idw"]
    BY <1>2, <1>12, <1>13, <1>17, <2>1, <2>2 DEF StatsAdd
  <2>4. call'[mu'].patch.voids = k.patch.voids
    BY <1>2, <1>6, <1>11 DEF k1
  <2>5. ASSUME config'.fallback
        PROVE  /\ stats'["filled"] + stats'["skipped"] + Pending'
                    <= stats'["detected"]
               /\ stats'["filled"] + stats'["skipped"]
                    + call'[mu'].patch.voids <= stats'["detected"]
    <3>1. stats["filled"] + stats["skipped"] + k.patch.voids
            <= stats["detected"]
      BY <1>2, <1>3, <1>6, <2>1, <2>5 DEF StatsAdd, k
    <3>2. k.patch.filled + 1 <= k.patch.voids
      BY <1>2, <1>3, <1>13, <1>14
    <3> QED
      BY <1>2, <1>12, <1>13, <1>17, <2>2, <2>4, <3>1, <3>2
  <2> QED
    BY <2>3, <2>5 DEF StatsAdd
<1>19. mu' = c /\ k1.pc \in Held
  BY <1>1, <1>2, <1>6, <1>8 DEF Held
<1>20. /\ k1.todo \subseteq grid'.void
       /\ Cardinality(grid'.filled) = k1.patch.filled
       /\ Cardinality(grid'.void) = k1.patch.voids - k1.patch.filled
  BY <1>2, <1>5, <1>8, <1>11, <1>13
<1> QED
  BY <1>2, <1>5, <1>6, <1>12, <1>15, <1>16, <1>18, <1>19, <1>20, HolderKeeps
     DEF k1

(* The limit of a tick: the cells to come, and with them those skipped     *)
(* before, become the skipped ones.                                        *)
LEMMA CutShortKeeps ==
  ASSUME IInv, NEW c \in Caller, CutShort(c)
  PROVE  IInv'
<1> DEFINE k == call[c]  k1 == call'[c]
           rest == k.patch.voids - k.patch.filled
<1>1. k.pc = "fill" /\ k.todo # {}
  BY DEF CutShort
<1>2. /\ mu = c /\ DOMAIN call = Caller /\ DOMAIN k = CallFields
      /\ k.patch \in Patches /\ PatchAdds(k)
      /\ Cardinality(k.todo) \in Nat
      /\ GridShape(grid) /\ stats \in StatsType /\ config \in Config
      /\ grid.void \cap grid.filled = {}
      /\ Cardinality(grid.filled) = k.patch.filled
      /\ Cardinality(grid.void) = k.patch.voids - k.patch.filled
      /\ Pending = k.patch.filled
  BY <1>1, Holding DEF Held
<1>3. /\ DOMAIN call' = Caller /\ \A d \in Caller \ {c} : call'[d] = call[d]
      /\ config' = config /\ calls' = calls /\ mu' = mu /\ grid' = grid
  BY <1>2 DEF CutShort
<1>4. DOMAIN k1 = CallFields
  BY <1>2 DEF CutShort
<1>5. k1.pc = k.pc /\ k1.todo = {}
  BY <1>2 DEF CutShort, CallFields
<1>6. k1.patch = [k.patch EXCEPT !.skipped = rest]
  BY <1>2 DEF CutShort, CallFields
<1>7. stats' = [stats EXCEPT !["skipped"] = stats["skipped"] + rest]
  BY DEF CutShort
<1> HIDE DEF k, k1
<1>8. /\ k.patch.voids \in Nat /\ k.patch.filled \in Nat
      /\ k.patch.skipped \in Nat
  BY <1>2 DEF Patches
<1>9. /\ k.patch.filled + k.patch.skipped + Cardinality(k.todo)
           = k.patch.voids
      /\ k.patch.filled = k.patch.kriging + k.patch.idw
  BY <1>2 DEF PatchAdds
<1>10. rest \in Nat /\ k.patch.filled + rest = k.patch.voids
  BY <1>2, <1>8, <1>9
<1> HIDE DEF rest
<1>11. /\ k1.patch \in Patches /\ k1.patch.voids = k.patch.voids
       /\ k1.patch.filled = k.patch.filled /\ k1.patch.skipped = rest
       /\ k1.patch.kriging = k.patch.kriging /\ k1.patch.idw = k.patch.idw
  BY <1>2, <1>6, <1>10 DEF Patches
<1>12. /\ stats' \in StatsType
       /\ stats'["detected"] = stats["detected"]
       /\ stats'["filled"] = stats["filled"]
       /\ stats'["skipped"] = stats["skipped"] + rest
       /\ stats'["kriging"] = stats["kriging"]
       /\ stats'["idw"] = stats["idw"]
  BY <1>2, <1>7, <1>10 DEF StatsType
<1>13. CallShape(k1)
  BY <1>1, <1>4, <1>5, <1>11 DEF CallShape, Pcs, Held
<1>14. PatchAdds(k1)
  <2>1. IsFiniteSet(k1.todo) /\ Cardinality(k1.todo) = 0
    BY <1>5, FS_EmptySet
  <2>2. k1.patch.filled + k1.patch.skipped + Cardinality(k1.todo)
          = k1.patch.voids
    BY <1>8, <1>10, <1>11, <2>1
  <2> QED
    BY <1>1, <1>5, <1>9, <1>11, <2>1, <2>2 DEF PatchAdds
<1>15. Pending' = Pending
  BY <1>2, <1>3, <1>11 DEF Pending, k1, k
<1>16. StatsAdd'
  <2>1. StatsAdd
    BY DEF IInv
  <2>2. /\ stats["detected"] \in Nat /\ stats["filled"] \in Nat
        /\ stats["skipped"] \in Nat
    BY <1>2 DEF StatsType
  <2>3. stats'["filled"] + Pending' = stats'["kriging"] + stats'["idw"]
    BY <1>12, <1>15, <2>1 DEF StatsAdd
  <2>4. call'[mu'].todo = {}
    BY <1>2, <1>3, <1>5 DEF k1
  <2>5. ASSUME config'.fallback
        PROVE  stats'["filled"] + stats'["skipped"] + Pending'
                 <= stats'["detected"]
    <3>1. stats["filled"] + stats["skipped"] + k.patch.voids
            <= stats["detected"]
      BY <1>1, <1>2, <1>3, <2>1, <2>5 DEF StatsAdd, k
    <3> QED
      BY <1>2, <1>8, <1>10, <1>12, <1>15, <2>2, <3>1
  <2> QED
    BY <2>3, <2>4, <2>5 DEF StatsAdd
<1>17. mu' = c /\ k1.pc \in Held
  BY <1>1, <1>2, <1>3, <1>5 DEF Held
<1>18. /\ k1.todo \subseteq grid'.void /\ grid'.void \cap grid'.filled = {}
       /\ Cardinality(grid'.filled) = k1.patch.filled
       /\ Cardinality(grid'.void) = k1.patch.voids - k1.patch.filled
       /\ GridShape(grid')
  BY <1>2, <1>3, <1>5, <1>11
<1> QED
  BY <1>2, <1>3, <1>12, <1>13, <1>14, <1>16, <1>17, <1>18, HolderKeeps DEF k1

(* The patch is counted in stats, and vf.mu released. *)
LEMMA FillDoneKeeps ==
  ASSUME IInv, NEW c \in Caller, FillDone(c)
  PROVE  IInv'
<1> DEFINE k == call[c]  k1 == call'[c]
<1>1. k.pc = "fill" /\ k.todo = {}
  BY DEF FillDone
<1>2. /\ mu = c /\ DOMAIN call = Caller /\ DOMAIN k = CallFields
      /\ k.patch \in Patches /\ PatchAdds(k)
      /\ GridShape(grid) /\ stats \in StatsType /\ config \in Config
      /\ grid.void \cap grid.filled = {}
      /\ Cardinality(grid.filled) = k.patch.filled
      /\ Cardinality(grid.void) = k.patch.voids - k.patch.filled
      /\ Pending = k.patch.filled
  BY <1>1, Holding DEF Held
<1>3. /\ DOMAIN call' = Caller /\ \A d \in Caller \ {c} : call'[d] = call[d]
      /\ config' = config /\ calls' = calls /\ mu' = "free" /\ grid' = grid
  BY <1>2 DEF FillDone
<1>4. DOMAIN k1 = CallFields
  BY <1>2 DEF FillDone
<1>5. k1.pc = "read" /\ k1.todo = {} /\ k1.patch = k.patch
  BY <1>1, <1>2 DEF FillDone, CallFields
<1>6. stats' = [stats EXCEPT !["filled"] = stats["filled"] + k.patch.filled]
  BY DEF FillDone
<1> HIDE DEF k, k1
<1>7. k.patch.filled \in Nat
  BY <1>2 DEF Patches
<1>8. /\ stats' \in StatsType
      /\ stats'["detected"] = stats["detected"]
      /\ stats'["filled"] = stats["filled"] + k.patch.filled
      /\ stats'["skipped"] = stats["skipped"]
      /\ stats'["kriging"] = stats["kriging"]
      /\ stats'["idw"] = stats["idw"]
  BY <1>2, <1>6, <1>7 DEF StatsType
<1>9. CallShape(k1)
  BY <1>2, <1>4, <1>5 DEF CallShape, Pcs, Held
<1>10. PatchAdds(k1)
  BY <1>1, <1>2, <1>5 DEF PatchAdds
<1>11. StatsAdd'
  <2>1. StatsAdd
    BY DEF IInv
  <2>2. /\ stats["detected"] \in Nat /\ stats["filled"] \in Nat
        /\ stats["skipped"] \in Nat
    BY <1>2 DEF StatsType
  <2>3. mu' \notin Caller /\ Pending' = 0
    BY <1>3, Sizes DEF Pending
  <2>4. stats'["filled"] + Pending' = stats'["kriging"] + stats'["idw"]
    BY <1>2, <1>7, <1>8, <2>1, <2>2, <2>3 DEF StatsAdd
  <2>5. ASSUME config'.fallback
        PROVE  stats'["filled"] + stats'["skipped"] + Pending'
                 <= stats'["detected"]
    <3>1. stats["filled"] + stats["skipped"] + k.patch.filled
            <= stats["detected"]
      BY <1>2, <1>3, <2>1, <2>5 DEF StatsAdd
    <3> QED
      BY <1>7, <1>8, <2>2, <2>3, <3>1
  <2> QED
    BY <2>3, <2>4, <2>5 DEF StatsAdd
<1>12. /\ k1.todo \subseteq grid'.void /\ grid'.void \cap grid'.filled = {}
       /\ Cardinality(grid'.filled) = k1.patch.filled
       /\ Cardinality(grid'.void) = k1.patch.voids - k1.patch.filled
       /\ GridShape(grid')
  BY <1>2, <1>3, <1>5
<1> QED
  BY <1>2, <1>3, <1>5, <1>8, <1>9, <1>10, <1>11, <1>12, HolderKeeps DEF k1

(* The reads without vf.mu: others may be filling meanwhile.  Analyze      *)
(* counts the voids of the grid, which are the call's own if it was not    *)
(* overtaken.                                                              *)
LEMMA ReadKeeps ==
  ASSUME IInv, NEW c \in Caller, ReadPoints(c) \/ Analyze(c)
  PROVE  IInv'
<1> DEFINE k == call[c]  k1 == call'[c]
<1>1. /\ Shape /\ Exclusive /\ GridAdds /\ StatsAdd
      /\ \A d \in Caller : PatchAdds(call[d])
  BY DEF IInv
<1>2. /\ DOMAIN call = Caller /\ DOMAIN k = CallFields /\ CallShape(k)
      /\ k.pc \in Unlocked /\ mu # c
  <2>1. k.pc \in Unlocked /\ k.pc \notin Held
    BY DEF ReadPoints, Analyze, Unlocked, Held
  <2> QED
    BY <1>1, <2>1 DEF Shape, CallShape, Exclusive
<1>3. /\ DOMAIN call' = Caller /\ \A d \in Caller \ {c} : call'[d] = call[d]
      /\ config' = config /\ calls' = calls /\ mu' = mu /\ grid' = grid
      /\ stats' = stats
  BY <1>2 DEF ReadPoints, Analyze
<1>4. DOMAIN k1 = CallFields
  BY <1>2 DEF ReadPoints, Analyze
<1>5. /\ k1.todo = k.todo /\ k1.patch = k.patch
      /\ k1.overtaken = k.overtaken
  BY <1>2 DEF ReadPoints, Analyze, CallFields
<1>6. \/ k1.pc = "analyze"
      \/ k1.pc = "done" /\ k1.left = Cardinality(grid.void)
  BY <1>2 DEF ReadPoints, Analyze, CallFields
<1> HIDE DEF k, k1
<1>7. CallShape(k1) /\ PatchAdds(k1)
  <2>1. CallShape(k1)
    BY <1>2, <1>4, <1>5, <1>6 DEF CallShape, Pcs, Held
  <2>2. PatchAdds(k) /\ k.todo = {}
    BY <1>1, <1>2 DEF k, PatchAdds, Unlocked
  <2>3. PatchAdds(k1)
    BY <1>5, <1>6, <2>2 DEF PatchAdds
  <2> QED
    BY <2>1, <2>3
<1>8. \A d \in Caller : CallShape(call'[d]) /\ PatchAdds(call'[d])
  BY <1>1, <1>3, <1>7 DEF Shape, k1
<1>9. Shape'
  BY <1>1, <1>3, <1>8 DEF Shape
<1>10. Exclusive'
  <2>1. ASSUME NEW d \in Caller
        PROVE  /\ mu' = d <=> call'[d].pc \in Held
               /\ mu' \in Caller /\ call'[d].pc \in Unlocked
                    => call'[d].overtaken
    <3>1. CASE d = c
      <4>1. k1.pc \notin Held
        BY <1>6 DEF Held
      <4>2. mu \in Caller => k.overtaken
        BY <1>1, <1>2 DEF Exclusive, k
      <4> QED
        BY <1>2, <1>3, <1>5, <3>1, <4>1, <4>2 DEF k1
    <3>2. CASE d # c
      BY <1>1, <1>3, <3>2 DEF Exclusive
    <3> QED
      BY <3>1, <3>2
  <2> QED
    BY <1>1, <1>3, <2>1 DEF Exclusive
<1>11. GridAdds'
  <2>1. ~k.overtaken =>
          /\ k.todo \subseteq grid.void
          /\ grid.void \cap grid.filled = {}
          /\ Cardinality(grid.filled) = k.patch.filled
          /\ Cardinality(grid.void) = k.patch.voids - k.patch.filled
    BY <1>1, <1>2 DEF GridAdds, Own, k
  <2>2. ASSUME NEW d \in Caller, Own(d)'
        PROVE  /\ call'[d].todo \subseteq grid'.void
               /\ grid'.void \cap grid'.filled = {}
               /\ Cardinality(grid'.filled) = call'[d].patch.filled
               /\ Cardinality(grid'.void)
                    = call'[d].patch.voids - call'[d].patch.filled
    <3>1. mu' = d \/ (call'[d].pc \in Unlocked /\ ~call'[d].overtaken)
      BY <2>2 DEF Own
    <3>2. CASE d = c
      <4>1. ~k.overtaken
        BY <1>2, <1>3, <1>5, <3>1, <3>2 DEF k1
      <4> QED
        BY <1>3, <1>5, <2>1, <3>2, <4>1 DEF k1
    <3>3. CASE d # c
      <4>1. Own(d)
        BY <1>3, <3>1, <3>3 DEF Own
      <4> QED
        BY <1>1, <1>3, <3>3, <4>1 DEF GridAdds
    <3> QED
      BY <3>2, <3>3
  <2>3. ASSUME NEW d \in Caller, call'[d].pc = "done", ~call'[d].overtaken
        PROVE  call'[d].left = call'[d].patch.voids - call'[d].patch.filled
    <3>1. CASE d = c
      BY <1>5, <1>6, <2>1, <2>3, <3>1 DEF k1
    <3>2. CASE d # c
      BY <1>1, <1>3, <2>3, <3>2 DEF GridAdds
    <3> QED
      BY <3>1, <3>2
  <2> QED
    BY <2>2, <2>3 DEF GridAdds
<1>12. StatsAdd'
  <2>1. mu \in Caller => call'[mu] = call[mu]
    BY <1>2, <1>3
  <2>2. Pending' = Pending
    BY <1>3, <2>1 DEF Pending
  <2> QED
    BY <1>1, <1>3, <2>1, <2>2 DEF StatsAdd
<1>13. (\A d \in Caller : PatchAdds(call[d]))'
  BY <1>8
<1> QED
  BY <1>9, <1>10, <1>11, <1>12, <1>13 DEF IInv

(* A new call: those that are still to read the grid are overtaken.        *)
LEMMA BeginKeeps ==
  ASSUME IInv, NEW c \in Caller, NEW b \in Batch, Begin(c, b)
  PROVE  IInv'
<1> DEFINE k1 == call'[c]
<1>1. /\ Shape /\ Exclusive /\ GridAdds /\ StatsAdd
      /\ \A d \in Caller : PatchAdds(call[d])
  BY DEF IInv
<1>2. mu = "free" /\ "free" \notin Caller /\ mu' = c /\ config' = config
      /\ stats' = stats /\ calls' = calls + 1
  BY Sizes DEF Begin
<1>3. GridShape(grid') /\ grid'.void = {} /\ grid'.filled = {}
  BY <1>1, GridForBatch DEF Shape, Begin
<1>4. /\ DOMAIN call' = Caller
      /\ k1 = [Idle EXCEPT !.pc = "measure", !.points = b]
      /\ \A d \in Caller \ {c} : call'[d] =
           [call[d] EXCEPT !.overtaken = @ \/ call[d].pc \in Unlocked]
  BY DEF Begin
<1>5. /\ DOMAIN k1 = CallFields /\ k1.pc = "measure" /\ k1.points = b
      /\ k1.todo = {} /\ k1.patch = NoPatch
  BY <1>4 DEF Idle, CallFields
<1>6. /\ NoPatch \in Patches /\ NoPatch.voids = 0 /\ NoPatch.filled = 0
      /\ NoPatch.skipped = 0 /\ NoPatch.kriging = 0 /\ NoPatch.idw = 0
  BY DEF NoPatch, Patches
<1> HIDE DEF k1
<1>7. CallShape(k1) /\ PatchAdds(k1)
  BY <1>5, <1>6, FS_EmptySet DEF CallShape, PatchAdds, Pcs, Held
<1>8. ASSUME NEW d \in Caller, d # c
      PROVE  /\ CallShape(call'[d]) /\ PatchAdds(call'[d])
             /\ call'[d].pc = call[d].pc /\ call'[d].pc \notin Held
             /\ call'[d].patch = call[d].patch
             /\ call'[d].left = call[d].left
             /\ call'[d].pc \in Unlocked => call'[d].overtaken
             /\ ~call'[d].overtaken => ~call[d].overtaken
  <2> DEFINE j == call[d]  j1 == call'[d]
  <2>1. CallShape(j) /\ PatchAdds(j) /\ j.pc \notin Held
    BY <1>1, <1>2 DEF Shape, Exclusive
  <2>2. DOMAIN j = CallFields
    BY <2>1 DEF CallShape
  <2>3. j1 = [j EXCEPT !.overtaken = j.overtaken \/ j.pc \in Unlocked]
    BY <1>4, <1>8
  <2> HIDE DEF j, j1
  <2>4. DOMAIN j1 = CallFields
    BY <2>2, <2>3
  <2>5. /\ j1.pc = j.pc /\ j1.patch = j.patch /\ j1.left = j.left
        /\ j1.todo = j.todo /\ j1.points = j.points
    BY <2>2, <2>3 DEF CallFields
  <2>6. j1.overtaken = (j.overtaken \/ j.pc \in Unlocked)
    BY <2>2, <2>3 DEF CallFields
  <2>7. CallShape(j1) /\ PatchAdds(j1)
    BY <2>1, <2>4, <2>5 DEF CallShape, PatchAdds
  <2> QED
    BY <2>1, <2>5, <2>6, <2>7 DEF j, j1
<1>9. Shape'
  <2>1. \A d \in Caller : CallShape(call'[d])
    BY <1>7, <1>8 DEF k1
  <2>2. calls' \in Nat
    BY <1>1, <1>2 DEF Shape
  <2> QED
    BY <1>1, <1>2, <1>3, <1>4, <2>1, <2>2 DEF Shape
<1>10. (\A d \in Caller : PatchAdds(call[d]))'
  BY <1>7, <1>8 DEF k1
<1>11. Exclusive'
  <2>1. k1.pc \in Held /\ k1.pc \notin Unlocked
    BY <1>5 DEF Held, Unlocked
  <2> QED
    BY <1>2, <1>8, <2>1 DEF Exclusive, k1
<1>12. GridAdds'
  <2>1. Cardinality(grid'.void) = 0 /\ Cardinality(grid'.filled) = 0
    BY <1>3, FS_EmptySet
  <2>2. /\ k1.todo \subseteq grid'.void
        /\ grid'.void \cap grid'.filled = {}
        /\ Cardinality(grid'.filled) = k1.patch.filled
        /\ Cardinality(grid'.void) = k1.patch.voids - k1.patch.filled
    BY <1>3, <1>5, <1>6, <2>1
  <2>3. ASSUME NEW d \in Caller, Own(d)' PROVE d = c
    <3>1. mu' = d \/ (call'[d].pc \in Unlocked /\ ~call'[d].overtaken)
      BY <2>3 DEF Own
    <3> QED
      BY <1>2, <1>8, <3>1
  <2>4. ASSUME NEW d \in Caller, call'[d].pc = "done", ~call'[d].overtaken
        PROVE  call'[d].left = call'[d].patch.voids - call'[d].patch.filled
    <3>1. d # c
      BY <1>5, <2>4 DEF k1
    <3> QED
      BY <1>1, <1>8, <2>4, <3>1 DEF GridAdds
  <2> QED
    BY <2>2, <2>3, <2>4 DEF GridAdds, k1
<1>13. StatsAdd'
  <2>1. Pending = 0 /\ Pending' = 0
    BY <1>2, <1>5, <1>6 DEF Pending, k1
  <2>2. call'[mu'].todo = {}
    BY <1>2, <1>5 DEF k1
  <2> QED
    BY <1>1, <1>2, <2>1, <2>2 DEF StatsAdd
<1> QED
  BY <1>9, <1>10, <1>11, <1>12, <1>13 DEF IInv

LEMMA NextInvariant == IInv /\ [Next]_vars => IInv'
<1> SUFFICES ASSUME IInv, [Next]_vars PROVE IInv'
  OBVIOUS
<1>1. CASE UNCHANGED vars
  BY <1>1 DEF vars, IInv, Shape, Exclusive, GridAdds, Own, StatsAdd, Pending
<1>2. CASE \E c \in Caller : \E b \in Batch : Begin(c, b)
  BY <1>2, BeginKeeps
<1>3. CASE \E c \in Caller : Measure(c)
  BY <1>3, MeasureKeeps
<1>4. CASE \E c \in Caller : FillCell(c)
  <2>1. PICK c \in Caller : FillCell(c)
    BY <1>4
  <2>2. PICK near :
          \/ TooFew(c, NextVoid(c), near) \/ NoFallback(c, NextVoid(c), near)
          \/ Krige(c, NextVoid(c), near) \/ FallbackIDW(c, NextVoid(c), near)
    BY <2>1 DEF FillCell
  <2>3. Filling(c)
    BY <2>1 DEF FillCell
  <2>4. CASE \/ TooFew(c, NextVoid(c), near)
             \/ NoFallback(c, NextVoid(c), near)
    BY <2>3, <2>4, SkipKeeps
  <2>5. CASE Krige(c, NextVoid(c), near)
    BY <2>3, <2>5, FilledKeeps DEF Krige
  <2>6. CASE FallbackIDW(c, NextVoid(c), near)
    BY <2>3, <2>6, FilledKeeps DEF FallbackIDW
  <2> QED
    BY <2>2, <2>4, <2>5, <2>6
<1>5. CASE \E c \in Caller : CutShort(c)
  BY <1>5, CutShortKeeps
<1>6. CASE \E c \in Caller : FillDone(c)
  BY <1>6, FillDoneKeeps
<1>7. CASE \E c \in Caller : ReadPoints(c) \/ Analyze(c)
  BY <1>7, ReadKeeps
<1> QED
  BY <1>1, <1>2, <1>3, <1>4, <1>5, <1>6, <1>7 DEF Next, Step

(* The invariant holds of every behaviour of FillFrames' callers. *)
THEOREM Invariance == Spec => []IInv
<1> QED
  BY InitInvariant, NextInvariant, PTL DEF Spec

(* The counts of the FillPatch that ProcessAndFill returns and those of    *)
(* GetStats agree, for any number of cells and callers, also when the      *)
(* limit of a tick ends fillVoidsLocked in the middle of the void cells.   *)
THEOREM AccountsHold == Spec => []AccountsAgree
<1>1. ASSUME IInv PROVE AccountsAgree
  <2>1. ASSUME NEW c \in Caller, Finished(c)
        PROVE  /\ call[c].patch.filled + call[c].patch.skipped
                    = call[c].patch.voids
               /\ call[c].patch.filled
                    = call[c].patch.kriging + call[c].patch.idw
    <3>1. PatchAdds(call[c]) /\ CallShape(call[c])
      BY <1>1 DEF IInv, Shape
    <3>2. call[c].pc \notin {"fill", "autofit"}
      BY <2>1 DEF Finished, Unlocked
    <3>3. call[c].todo = {}
      BY <3>1, <3>2 DEF PatchAdds
    <3>4. Cardinality(call[c].todo) = 0
      BY <3>3, FS_EmptySet
    <3>5. /\ call[c].patch.filled \in Nat /\ call[c].patch.skipped \in Nat
          /\ call[c].patch.voids \in Nat
      BY <3>1 DEF CallShape, Patches
    <3> QED
      BY <3>1, <3>4, <3>5 DEF PatchAdds
  <2>2. ASSUME mu = "free"
        PROVE  /\ stats["filled"] = stats["kriging"] + stats["idw"]
               /\ config.fallback =>
                    stats["filled"] + stats["skipped"] <= stats["detected"]
    <3>1. Pending = 0
      BY <2>2, Sizes DEF Pending
    <3>2. /\ stats["filled"] \in Nat /\ stats["skipped"] \in Nat
          /\ stats["detected"] \in Nat
      BY <1>1 DEF IInv, Shape, StatsType
    <3> QED
      BY <1>1, <3>1, <3>2 DEF IInv, StatsAdd
  <2> QED
    BY <2>1, <2>2 DEF AccountsAgree
<1> QED
  BY <1>1, Invariance, PTL

(* SetCellFilled is only ever applied to a void cell of the grid that the  *)
(* call itself set up: its patch counts the cells that were filled and     *)
(* those still void one by one, and so does the number of voids that       *)
(* FillFrames returns, unless another call took the grid over before it    *)
(* was counted.                                                            *)
THEOREM OwnVoidsFilled == Spec => []GridAdds
<1>1. IInv => GridAdds
  BY DEF IInv
<1> QED
  BY <1>1, Invariance, PTL

-----------------------------------------------------------------------------
(* The points on the grid *)

(* Cell v is skipped for want of measured points. *)
Few(g, b, v) == Cardinality(NearTo(g, b, v)) < MinPointsForKriging

(* What the code relies on when it gives an interpolation i, a target and  *)
(* its neighbours, to Interpolate.                                         *)
LastOk(i) ==
  i.neighbors # <<>> =>
    /\ i.target \in Pt /\ i.neighbors \in Seq(Pt)
    /\ Len(i.neighbors) >= MinKrigingNeighbors

(* What OwnResult says of the points that a call returns, and how many of  *)
(* them it reports as filled.                                              *)
ResultOk(k) ==
  LET filled == {r \in k.result : r.filled}
  IN /\ IsFiniteSet(k.result) /\ Len(k.points) \in Nat
     /\ k.pc = "done" =>
          k.reported = Cardinality(k.result) - Len(k.points)
     /\ Cardinality(filled) = k.patch.filled
     /\ Cardinality(k.result \ filled) <= Len(k.points)
     /\ \A r \in k.result \ filled : \E p \in ToSet(k.points) :
          /\ 2 * (p[1] - r.at[1]) \in -CellSize .. CellSize - 1
          /\ 2 * (p[2] - r.at[2]) \in -CellSize .. CellSize - 1

(* What the call of c has made of its grid.  While there are cells to      *)
(* come, the void cells that were skipped have few points of the batch     *)
(* near them, and after the last unless the tick has cut the patch short.  *)
CallData(c) ==
  /\ call[c].tries \in Nat
  /\ Own(c) => Fits(grid, call[c].points)
  /\ call[c].pc = "measure" => Empty(grid)
  /\ Own(c) /\ call[c].pc # "measure" => Measured(grid, call[c].points)
  /\ (/\ call[c].pc = "fill" /\ config.fallback
      /\ call[c].todo # {} \/ call[c].tries < Limit(c))
     => \A v \in grid.void \ call[c].todo : Few(grid, call[c].points, v)
  /\ LastOk(call[c].last)
  /\ call[c].pc \in {"analyze", "done"} /\ ~call[c].overtaken
     => ResultOk(call[c])

Data ==
  /\ GridLaid(grid)
  /\ calls \in 0 .. NCalls
  /\ \A c \in Caller : CallData(c)

(* GetInterpolatedPoints after the call's own patch. *)
LEMMA ResultIsOwn ==
  ASSUME NEW g, GridShape(g), NEW b, Fits(g, b), Measured(g, b),
         NEW k, k.pc = "analyze", k.result = InterpolatedPoints(g),
         k.points = b,
         Cardinality(g.filled) = k.patch.filled
  PROVE  ResultOk(k)
<1> DEFINE Rec(c) == [at |-> CenterOf(g, c), filled |-> c \in g.filled]
           R == k.result
           R1 == {r \in R : r.filled}
           R2 == R \ R1
<1>1. b \in Seq(Int \X Int) /\ Laid(g)
  BY Sizes DEF Fits
<1>2. R = {Rec(c) : c \in DataCells(g)}
  BY DEF InterpolatedPoints
<1>3. \A c : /\ (Rec(c)).at = CenterOf(g, c)
             /\ (Rec(c)).filled <=> c \in g.filled
  OBVIOUS
<1>4. /\ Cells(g) \subseteq Nat \X Nat /\ g.filled \subseteq Cells(g)
      /\ IsFiniteSet(Cells(g))
  BY DEF GridShape
<1> HIDE DEF Rec, R
<1>5. \A c, d \in Cells(g) : Rec(c) = Rec(d) => c = d
  <2> SUFFICES ASSUME NEW c \in Cells(g), NEW d \in Cells(g), Rec(c) = Rec(d)
               PROVE  c = d
    OBVIOUS
  <2>1. CenterOf(g, c) = CenterOf(g, d)
    BY <1>3
  <2>2. CellIndex(g, CenterOf(g, c)) = c /\ CellIndex(g, CenterOf(g, d)) = d
    BY <1>4, SameCell
  <2> QED
    BY <2>1, <2>2
<1>6. DataCells(g) \subseteq Cells(g) /\ g.filled \subseteq DataCells(g)
  BY <1>4 DEF DataCells, Measured
<1>7. R1 = {Rec(c) : c \in g.filled}
  BY <1>2, <1>3, <1>6
<1>8. R2 = {Rec(c) : c \in DataCells(g) \ g.filled}
  BY <1>2, <1>3
<1>9. IsFiniteSet(R1) /\ Cardinality(R1) = k.patch.filled
  <2> DEFINE f == [c \in g.filled |-> Rec(c)]
  <2>1. f \in [g.filled -> R1] /\ \A c \in g.filled : f[c] = Rec(c)
    BY <1>7
  <2>2. \A r \in R1 : \E c \in g.filled : Rec(c) = r
    BY <1>7
  <2> HIDE DEF f, R1
  <2>3. f \in Bijection(g.filled, R1)
    BY <1>4, <1>5, <2>1, <2>2 DEF Bijection, Injection, Surjection, IsInjective
  <2>4. ExistsBijection(g.filled, R1)
    BY <2>3 DEF ExistsBijection
  <2>5. IsFiniteSet(g.filled)
    BY <1>4, FS_Subset
  <2> QED
    BY <2>4, <2>5, FS_Bijection
<1> DEFINE I == {i \in 1 .. Len(b) : Inside(g, b[i])}
           Cell(i) == CellIndex(g, b[i])
<1>10. ASSUME NEW i \in I PROVE Cell(i) \in DataCells(g) \ g.filled
  <2>1. i \in 1 .. Len(b) /\ Inside(g, b[i]) /\ b[i] \in Int \X Int
    BY <1>1
  <2>2. Cell(i) \in Cells(g)
    BY <1>1, <2>1, InsideHasCell DEF Laid
  <2>3. Hits(g, b, Cell(i)) # {}
    BY <2>1 DEF Hits
  <2> HIDE DEF Cell
  <2> QED
    BY <2>2, <2>3 DEF Measured, DataCells
<1>11. ASSUME NEW c \in DataCells(g) \ g.filled
       PROVE  \E i \in I : Cell(i) = c
  <2>1. Hits(g, b, c) # {}
    BY DEF Measured, DataCells
  <2> QED
    BY <2>1 DEF Hits
<1>12. IsFiniteSet(R2) /\ Cardinality(R2) <= Len(b)
  <2> DEFINE f == [i \in I |-> Rec(Cell(i))]
             n == Len(b)
  <2>1. n \in Nat /\ I \subseteq 1 .. n
    BY <1>1
  <2> HIDE DEF I, Cell, n, R2
  <2>2. IsFiniteSet(1 .. n) /\ Cardinality(1 .. n) = n
    <3>1. /\ IsFiniteSet(1 .. n)
          /\ Cardinality(1 .. n) = IF 1 > n THEN 0 ELSE n - 1 + 1
      BY <2>1, FS_Interval
    <3> QED
      BY <2>1, <3>1
  <2>3. IsFiniteSet(I) /\ Cardinality(I) <= n
    <3>1. IsFiniteSet(I) /\ Cardinality(I) <= Cardinality(1 .. n)
      BY <2>1, <2>2, FS_Subset
    <3> QED
      BY <2>2, <3>1
  <2>4. f \in [I -> R2] /\ \A i \in I : f[i] = Rec(Cell(i))
    BY <1>8, <1>10
  <2>5. \A r \in R2 : \E i \in I : f[i] = r
    BY <1>8, <1>11, <2>4
  <2> HIDE DEF f
  <2>6. f \in Surjection(I, R2)
    BY <2>4, <2>5 DEF Surjection
  <2>7. IsFiniteSet(R2) /\ Cardinality(R2) <= Cardinality(I)
    BY <2>3, <2>6, FS_Surjection
  <2>8. Cardinality(R2) \in Nat /\ Cardinality(I) \in Nat
    BY <2>3, <2>7, FS_CardinalityType
  <2> QED
    BY <2>1, <2>3, <2>7, <2>8 DEF n
<1>13. ASSUME NEW r \in R2
       PROVE  \E p \in ToSet(b) :
                /\ 2 * (p[1] - r.at[1]) \in -CellSize .. CellSize - 1
                /\ 2 * (p[2] - r.at[2]) \in -CellSize .. CellSize - 1
  <2>1. PICK c \in DataCells(g) \ g.filled : r = Rec(c)
    <3> HIDE DEF R2
    <3> QED
      BY <1>8
  <2>2. PICK i \in I : Cell(i) = c
    BY <1>11
  <2> DEFINE p == b[i]
  <2>3. p \in Int \X Int /\ p \in ToSet(b)
    BY <1>1 DEF ToSet
  <2>4. r.at = CenterOf(g, c)
    BY <1>3, <2>1
  <2>5. g.minX \in Int /\ g.minY \in Int /\ p[1] \in Int /\ p[2] \in Int
    BY <2>3 DEF GridShape
  <2>6. c = <<(p[1] - g.minX) \div CellSize, (p[2] - g.minY) \div CellSize>>
    BY <2>2 DEF CellIndex
  <2> HIDE DEF p
  <2>7. /\ r.at[1] = g.minX + ((p[1] - g.minX) \div CellSize) * CellSize
                       + CellSize \div 2
        /\ r.at[2] = g.minY + ((p[2] - g.minY) \div CellSize) * CellSize
                       + CellSize \div 2
    BY <2>4, <2>6 DEF CenterOf
  <2>8. 2 * (p[1] - r.at[1]) \in -CellSize .. CellSize - 1
    BY <2>5, <2>7, WithinHalf
  <2>9. 2 * (p[2] - r.at[2]) \in -CellSize .. CellSize - 1
    BY <2>5, <2>7, WithinHalf
  <2> QED
    BY <2>3, <2>8, <2>9
<1>14. IsFiniteSet(R)
  <2>1. R = R1 \cup R2
    OBVIOUS
  <2> HIDE DEF R1, R2
  <2> QED
    BY <1>9, <1>12, <2>1, FS_Union
<1> QED
  BY <1>9, <1>12, <1>13, <1>14 DEF ResultOk, R

LEMMA InitData == Init => Data
<1> SUFFICES ASSUME Init PROVE Data
  OBVIOUS
<1>1. IInv
  BY InitInvariant
<1>2. /\ grid = NoGrid /\ calls = 0 /\ mu = "free"
      /\ call = [c \in Caller |-> Idle]
  BY DEF Init
<1>3. /\ Idle.pc = "idle" /\ Idle.tries = 0 /\ Idle.last = NoInterpolation
  BY DEF Idle
<1>4. GridLaid(grid)
  <2>1. NoGrid.points = <<>>
    BY DEF NoGrid
  <2>2. DOMAIN NoGrid.points = {}
    BY <2>1
  <2>3. NoGrid.points \in [Cells(NoGrid) -> Seq(Int \X Int)]
    BY <2>1, <2>2 DEF Cells
  <2> QED
    BY <1>2, <2>3 DEF GridLaid
<1>5. ASSUME NEW c \in Caller PROVE CallData(c)
  <2>1. call[c] = Idle /\ mu # c
    BY <1>2, Sizes
  <2>2. ~Own(c)
    BY <1>3, <2>1 DEF Own, Unlocked
  <2>3. NoInterpolation.neighbors = <<>>
    BY DEF NoInterpolation
  <2>4. LastOk(NoInterpolation)
    BY <2>3 DEF LastOk
  <2> QED
    BY <1>3, <2>1, <2>2, <2>4 DEF CallData
<1>6. calls \in 0 .. NCalls
  BY <1>2, Sizes
<1> QED
  BY <1>4, <1>5, <1>6 DEF Data

(* A step of the caller that holds vf.mu leaves the other calls alone. *)
LEMMA OthersKeepData ==
  ASSUME IInv, IInv', Data, NEW c \in Caller, mu = c,
         mu' = c \/ mu' = "free",
         \A d \in Caller \ {c} : call'[d] = call[d],
         config' = config, calls' = calls,
         GridLaid(grid'), CallData(c)'
  PROVE  Data'
<1>1. ASSUME NEW d \in Caller, d # c PROVE CallData(d)'
  <2>1. CallData(d) /\ call'[d] = call[d]
    BY <1>1 DEF Data
  <2>2. Exclusive /\ Exclusive'
    BY DEF IInv
  <2>3. mu' # d /\ call'[d].pc \notin Held
    BY <1>1, <2>2, Sizes DEF Exclusive
  <2>4. call'[d].pc \in Unlocked => call'[d].overtaken
    BY <2>1, <2>2 DEF Exclusive
  <2>5. ~Own(d)'
    BY <2>3, <2>4 DEF Own
  <2>6. call'[d].pc # "measure" /\ call'[d].pc # "fill"
    BY <2>3 DEF Held
  <2> QED
    BY <2>1, <2>5, <2>6 DEF CallData
<1> QED
  BY <1>1 DEF Data

(* What the invariants say of the grid of the caller that holds vf.mu. *)
LEMMA HolderData ==
  ASSUME IInv, Data, NEW c \in Caller, call[c].pc \in Held
  PROVE  /\ mu = c /\ DOMAIN call = Caller /\ DOMAIN call[c] = CallFields
         /\ GridShape(grid) /\ GridLaid(grid) /\ Laid(grid)
         /\ CallData(c) /\ Fits(grid, call[c].points)
         /\ call[c].points \in Seq(Int \X Int)
         /\ call[c].pc # "measure" => Measured(grid, call[c].points)
         /\ call[c].pc = "measure" => Empty(grid)
<1>1. mu = c /\ DOMAIN call = Caller /\ DOMAIN call[c] = CallFields
      /\ GridShape(grid)
  BY Holding
<1>2. Own(c)
  BY <1>1 DEF Own
<1>3. GridLaid(grid) /\ CallData(c)
  BY DEF Data
<1>4. Fits(grid, call[c].points)
  BY <1>2, <1>3 DEF CallData
<1>5. Laid(grid) /\ call[c].points \in Seq(Int \X Int)
  BY <1>4, Sizes DEF Fits
<1>6. /\ call[c].pc # "measure" => Measured(grid, call[c].points)
      /\ call[c].pc = "measure" => Empty(grid)
  BY <1>2, <1>3 DEF CallData
<1> QED
  BY <1>1, <1>3, <1>4, <1>5, <1>6

LEMMA MeasureData ==
  ASSUME IInv, IInv', Data, NEW c \in Caller, Measure(c)
  PROVE  Data'
<1> DEFINE k == call[c]  k1 == call'[c]  b == call[c].points
<1>1. k.pc = "measure" /\ k.pc \in Held
  BY DEF Measure, Held
<1>2. /\ mu = c /\ DOMAIN call = Caller /\ DOMAIN k = CallFields
      /\ GridShape(grid) /\ GridLaid(grid) /\ Laid(grid)
      /\ CallData(c) /\ Fits(grid, b) /\ b \in Seq(Int \X Int) /\ Empty(grid)
  BY <1>1, HolderData
<1>3. /\ \A d \in Caller \ {c} : call'[d] = call[d]
      /\ config' = config /\ calls' = calls
  BY <1>2 DEF Measure
<1>4. mu' = c \/ mu' = "free"
  BY <1>2 DEF Measure
<1>5. SameCells(grid, grid') /\ GridLaid(grid') /\ Measured(grid', b)
  BY <1>2, MeasuredData DEF Measure
<1>6. Fits(grid', b)
  BY <1>2, <1>5, SameCellsSame
<1>7. /\ k1.todo = grid'.void /\ k1.points = b /\ k1.last = k.last
      /\ k1.tries = k.tries
  BY <1>2 DEF Measure, CallFields
<1>8. k1.pc \in {"read", "autofit", "fill"}
  BY <1>2 DEF Measure, CallFields
<1>9. LastOk(k.last) /\ k.tries \in Nat
  BY <1>2 DEF CallData
<1> HIDE DEF k, b
<1>10. CallData(c)'
  BY <1>5, <1>6, <1>7, <1>8, <1>9 DEF CallData
<1> QED
  BY <1>2, <1>3, <1>4, <1>5, <1>10, OthersKeepData

LEMMA SkipData ==
  ASSUME IInv, IInv', Data, NEW c \in Caller, Filling(c),
         NEW near, near = NeighborsOf(NextVoid(c)),
         TooFew(c, NextVoid(c), near) \/ NoFallback(c, NextVoid(c), near)
  PROVE  Data'
<1> DEFINE k == call[c]  k1 == call'[c]  v == NextVoid(c)  b == call[c].points
<1>1. k.pc = "fill" /\ k.pc \in Held /\ k.todo # {}
  BY DEF Filling, Held
<1>2. /\ mu = c /\ DOMAIN call = Caller /\ DOMAIN k = CallFields
      /\ GridShape(grid) /\ GridLaid(grid) /\ Laid(grid)
      /\ CallData(c) /\ Fits(grid, b) /\ b \in Seq(Int \X Int)
      /\ Measured(grid, b)
  BY <1>1, HolderData
<1>3. v \in grid.void /\ Target(v) = v /\ v \in Cells(grid)
  <2>1. v \in grid.void /\ Target(v) = v
    BY CellTaken
  <2> QED
    BY <1>2, <2>1 DEF GridShape
<1>4. /\ \A d \in Caller \ {c} : call'[d] = call[d]
      /\ config' = config /\ calls' = calls /\ mu' = mu /\ grid' = grid
  BY <1>2 DEF TooFew, NoFallback
<1>5. /\ k1.pc = k.pc /\ k1.todo = k.todo \ {v} /\ k1.points = b
      /\ k1.last = k.last
  BY <1>2 DEF TooFew, NoFallback, CallFields
<1>6. k1.tries = k.tries \/ k1.tries = k.tries + 1
  BY <1>2 DEF TooFew, NoFallback, CallFields
<1>7. Len(near) < MinPointsForKriging \/ ~config.fallback
  BY DEF TooFew, NoFallback
<1>8. near = GetNeighbors(grid, v, SearchRadius)
  BY <1>3 DEF NeighborsOf
<1>9. LastOk(k.last) /\ k.tries \in Nat
  BY <1>2 DEF CallData
<1>10. config.fallback => \A w \in grid.void \ k.todo : Few(grid, b, w)
  BY <1>1, <1>2 DEF CallData
<1> HIDE DEF k, b, v
<1>11. config.fallback => Few(grid, b, v)
  <2> SUFFICES ASSUME config.fallback PROVE Few(grid, b, v)
    OBVIOUS
  <2>1. /\ near \in Seq(Pt) /\ Cardinality(NearTo(grid, b, v)) \in Nat
        /\ Cardinality(NearTo(grid, b, v)) <= Len(near)
    BY <1>2, <1>3, <1>8, NeighborsEnough
  <2>2. Len(near) < MinPointsForKriging /\ Len(near) \in Nat
    BY <1>7, <2>1
  <2>3. MinPointsForKriging \in Nat
    BY VoidFillerAssumption DEF VoidFillerAssumption
  <2> QED
    BY <2>1, <2>2, <2>3 DEF Few
<1>12. config.fallback => \A w \in grid.void \ k1.todo : Few(grid, b, w)
  BY <1>5, <1>10, <1>11
<1>13. k1.tries \in Nat
  BY <1>6, <1>9
<1>14. CallData(c)'
  BY <1>1, <1>2, <1>4, <1>5, <1>9, <1>12, <1>13 DEF CallData
<1> QED
  BY <1>2, <1>4, <1>14, OthersKeepData

LEMMA FillData ==
  ASSUME IInv, IInv', Data, NEW c \in Caller, Filling(c),
         NEW last, LastOk(last), NEW how \in {"kriging", "idw"},
         Filled(c, NextVoid(c), how, last)
  PROVE  Data'
<1> DEFINE k == call[c]  k1 == call'[c]  v == NextVoid(c)  b == call[c].points
<1>1. k.pc = "fill" /\ k.pc \in Held /\ k.todo # {}
  BY DEF Filling, Held
<1>2. /\ mu = c /\ DOMAIN call = Caller /\ DOMAIN k = CallFields
      /\ GridShape(grid) /\ GridLaid(grid) /\ Laid(grid)
      /\ CallData(c) /\ Fits(grid, b) /\ b \in Seq(Int \X Int)
      /\ Measured(grid, b)
  BY <1>1, HolderData
<1>3. v \in grid.void /\ Target(v) = v /\ grid.void \cap grid.filled = {}
  BY <1>1, CellTaken, Holding
<1>4. grid' = SetCellFilled(grid, v)
  BY <1>3 DEF Filled
<1>5. /\ \A d \in Caller \ {c} : call'[d] = call[d]
      /\ config' = config /\ calls' = calls /\ mu' = mu
  BY <1>2 DEF Filled
<1>6. /\ k1.pc = k.pc /\ k1.todo = k.todo \ {v} /\ k1.points = b
      /\ k1.last = last /\ k1.tries = k.tries + 1
  BY <1>2 DEF Filled, CallFields
<1> HIDE DEF v
<1>7. SameCells(grid, grid') /\ GridLaid(grid') /\ Measured(grid', b)
  BY <1>2, <1>3, <1>4, FilledData
<1>8. grid'.void = grid.void \ {v}
  BY <1>2, <1>3, <1>4, FilledGrid
<1>9. Fits(grid', b) /\ \A w : NearTo(grid', b, w) = NearTo(grid, b, w)
  BY <1>2, <1>7, SameCellsSame
<1>10. k.tries \in Nat
  BY <1>2 DEF CallData
<1>11. config.fallback => \A w \in grid.void \ k.todo : Few(grid, b, w)
  BY <1>1, <1>2 DEF CallData
<1> HIDE DEF k, b
<1>12. config.fallback => \A w \in grid'.void \ k1.todo : Few(grid', b, w)
  BY <1>6, <1>8, <1>9, <1>11 DEF Few
<1>13. k1.tries \in Nat
  BY <1>6, <1>10
<1>14. CallData(c)'
  BY <1>1, <1>5, <1>6, <1>7, <1>9, <1>12, <1>13 DEF CallData
<1> QED
  BY <1>2, <1>5, <1>7, <1>14, OthersKeepData

LEMMA LimitIsInt ==
  ASSUME IInv, NEW c \in Caller
  PROVE  Limit(c) \in Int
<1>1. CallShape(call[c]) /\ config \in Config
  BY DEF IInv, Shape
<1>2. call[c].patch.voids \in Nat /\ config.tick \in Int
  BY <1>1, Sizes DEF CallShape, Patches
<1> QED
  BY <1>2 DEF Limit

LEMMA CutShortData ==
  ASSUME IInv, IInv', Data, NEW c \in Caller, CutShort(c)
  PROVE  Data'
<1> DEFINE k == call[c]  k1 == call'[c]  b == call[c].points
<1>1. k.pc = "fill" /\ k.pc \in Held /\ k.tries >= Limit(c)
  BY DEF CutShort, Held
<1>2. /\ mu = c /\ DOMAIN call = Caller /\ DOMAIN k = CallFields
      /\ GridLaid(grid) /\ CallData(c) /\ Fits(grid, b) /\ Measured(grid, b)
  BY <1>1, HolderData
<1>3. /\ \A d \in Caller \ {c} : call'[d] = call[d]
      /\ config' = config /\ calls' = calls /\ mu' = mu /\ grid' = grid
  BY <1>2 DEF CutShort
<1>4. /\ k1.pc = k.pc /\ k1.todo = {} /\ k1.points = b /\ k1.last = k.last
      /\ k1.tries = k.tries
  BY <1>2 DEF CutShort, CallFields
<1>5. k1.patch = [k.patch EXCEPT !.skipped = k.patch.voids - k.patch.filled]
  BY <1>2 DEF CutShort, CallFields
<1>6. k1.patch.voids = k.patch.voids
  BY <1>5
<1>7. Limit(c)' = Limit(c)
  BY <1>3, <1>6 DEF Limit
<1>8. LastOk(k.last) /\ k.tries \in Nat /\ Limit(c) \in Int
  BY <1>2, LimitIsInt DEF CallData
<1>9. ~(k1.tries < Limit(c)')
  BY <1>1, <1>4, <1>7, <1>8
<1> HIDE DEF k, b
<1>10. CallData(c)'
  BY <1>1, <1>2, <1>3, <1>4, <1>8, <1>9 DEF CallData
<1> QED
  BY <1>2, <1>3, <1>10, OthersKeepData

LEMMA FillDoneData ==
  ASSUME IInv, IInv', Data, NEW c \in Caller, FillDone(c)
  PROVE  Data'
<1> DEFINE k == call[c]  k1 == call'[c]  b == call[c].points
<1>1. k.pc = "fill" /\ k.pc \in Held
  BY DEF FillDone, Held
<1>2. /\ mu = c /\ DOMAIN call = Caller /\ DOMAIN k = CallFields
      /\ GridLaid(grid) /\ CallData(c) /\ Fits(grid, b) /\ Measured(grid, b)
  BY <1>1, HolderData
<1>3. /\ \A d \in Caller \ {c} : call'[d] = call[d]
      /\ config' = config /\ calls' = calls /\ mu' = "free" /\ grid' = grid
  BY <1>2 DEF FillDone
<1>4. /\ k1.pc = "read" /\ k1.points = b /\ k1.last = k.last
      /\ k1.tries = k.tries
  BY <1>2 DEF FillDone, CallFields
<1>5. LastOk(k.last) /\ k.tries \in Nat
  BY <1>2 DEF CallData
<1> HIDE DEF k, b
<1>6. CallData(c)'
  BY <1>2, <1>3, <1>4, <1>5 DEF CallData
<1> QED
  BY <1>2, <1>3, <1>6, OthersKeepData

LEMMA ReadData ==
  ASSUME IInv, IInv', Data, NEW c \in Caller, ReadPoints(c) \/ Analyze(c)
  PROVE  Data'
<1> DEFINE k == call[c]  k1 == call'[c]
<1>1. /\ Shape /\ Exclusive /\ GridAdds /\ CallData(c) /\ GridLaid(grid)
  BY DEF IInv, Data
<1>2. /\ DOMAIN call = Caller /\ DOMAIN k = CallFields /\ GridShape(grid)
      /\ k.pc \in Unlocked /\ mu # c
  <2>1. k.pc \in Unlocked /\ k.pc \notin Held
    BY DEF ReadPoints, Analyze, Unlocked, Held
  <2> QED
    BY <1>1, <2>1 DEF Shape, CallShape, Exclusive
<1>3. /\ \A d \in Caller \ {c} : call'[d] = call[d]
      /\ config' = config /\ calls' = calls /\ mu' = mu /\ grid' = grid
  BY <1>2 DEF ReadPoints, Analyze
<1>4. /\ k1.points = k.points /\ k1.last = k.last /\ k1.tries = k.tries
      /\ k1.overtaken = k.overtaken /\ k1.patch = k.patch
  BY <1>2 DEF ReadPoints, Analyze, CallFields
<1>5. \/ k1.pc = "analyze" /\ k1.result = InterpolatedPoints(grid)
      \/ /\ k.pc = "analyze" /\ k1.pc = "done" /\ k1.result = k.result
         /\ k1.reported = Cardinality(k.result) - Len(k.points)
  BY <1>2 DEF ReadPoints, Analyze, CallFields
<1>6. LastOk(k.last) /\ k.tries \in Nat
  BY <1>1 DEF CallData
<1>7. ~k.overtaken =>
        /\ Own(c) /\ Fits(grid, k.points) /\ Measured(grid, k.points)
        /\ Cardinality(grid.filled) = k.patch.filled
  <2> SUFFICES ASSUME ~k.overtaken
               PROVE  /\ Own(c) /\ Fits(grid, k.points)
                      /\ Measured(grid, k.points)
                      /\ Cardinality(grid.filled) = k.patch.filled
    OBVIOUS
  <2>1. Own(c) /\ k.pc # "measure"
    BY <1>2 DEF Own, Unlocked
  <2> QED
    BY <1>1, <2>1 DEF CallData, GridAdds
<1>8. ~k.overtaken => ResultOk(k1)
  <2> SUFFICES ASSUME ~k.overtaken PROVE ResultOk(k1)
    OBVIOUS
  <2>1. CASE k1.pc = "analyze" /\ k1.result = InterpolatedPoints(grid)
    <3> HIDE DEF k1, k
    <3> QED
      BY <1>2, <1>4, <1>7, <2>1, ResultIsOwn
  <2>2. CASE /\ k.pc = "analyze" /\ k1.result = k.result
             /\ k1.reported = Cardinality(k.result) - Len(k.points)
    <3>1. ResultOk(k)
      BY <1>1, <2>2 DEF CallData
    <3> HIDE DEF k, k1
    <3> QED
      BY <1>4, <2>2, <3>1 DEF ResultOk
  <2> QED
    BY <1>5, <2>1, <2>2
<1>9. Own(c)' => ~k.overtaken
  <2>1. mu' # c
    BY <1>2, <1>3
  <2> QED
    BY <1>4, <2>1 DEF Own
<1> HIDE DEF k
<1>10. CallData(c)'
  <2>1. k1.pc \notin {"measure", "fill"}
    BY <1>5
  <2>2. Own(c)' => Fits(grid', k1.points) /\ Measured(grid', k1.points)
    BY <1>3, <1>4, <1>7, <1>9
  <2>3. k1.tries \in Nat /\ LastOk(k1.last) /\ (~k1.overtaken => ResultOk(k1))
    BY <1>4, <1>6, <1>8
  <2> QED
    BY <2>1, <2>2, <2>3 DEF CallData
<1>11. ASSUME NEW d \in Caller, d # c PROVE CallData(d)'
  <2>1. CallData(d) /\ call'[d] = call[d]
    BY <1>3, <1>11 DEF Data
  <2>2. Own(d)' <=> Own(d)
    BY <1>3, <2>1 DEF Own
  <2>3. Limit(d)' = Limit(d)
    BY <1>3, <2>1 DEF Limit
  <2> QED
    BY <1>3, <2>1, <2>2, <2>3 DEF CallData
<1>12. calls' \in 0 .. NCalls
  BY <1>3 DEF Data
<1> QED
  BY <1>1, <1>3, <1>10, <1>11, <1>12 DEF Data

LEMMA BeginData ==
  ASSUME IInv, IInv', Data, NEW c \in Caller, NEW b \in Batch, Begin(c, b)
  PROVE  Data'
<1> DEFINE k1 == call'[c]
<1>1. Shape /\ Exclusive /\ Exclusive' /\ GridLaid(grid)
  BY DEF IInv, Data
<1>2. mu = "free" /\ "free" \notin Caller /\ mu' = c /\ calls < NCalls
      /\ calls' = calls + 1
  BY Sizes DEF Begin
<1>3. GridLaid(grid') /\ Empty(grid') /\ Fits(grid', b)
  BY <1>1, GridForData DEF Shape, Begin
<1>4. /\ k1 = [Idle EXCEPT !.pc = "measure", !.points = b]
      /\ \A d \in Caller \ {c} : call'[d] =
           [call[d] EXCEPT !.overtaken = @ \/ call[d].pc \in Unlocked]
  BY DEF Begin
<1>5. /\ k1.pc = "measure" /\ k1.points = b /\ k1.tries = 0
      /\ k1.last = NoInterpolation
  BY <1>4 DEF Idle
<1>6. LastOk(NoInterpolation)
  <2>1. NoInterpolation.neighbors = <<>>
    BY DEF NoInterpolation
  <2> QED
    BY <2>1 DEF LastOk
<1> HIDE DEF k1
<1>7. CallData(c)'
  <2>1. k1.tries \in Nat /\ k1.pc \notin {"fill", "analyze", "done"}
    BY <1>5
  <2> QED
    BY <1>3, <1>5, <1>6, <2>1 DEF CallData, k1
<1>8. ASSUME NEW d \in Caller, d # c PROVE CallData(d)'
  <2> DEFINE j == call[d]  j1 == call'[d]
  <2>1. CallData(d) /\ CallShape(j)
    BY <1>1 DEF Data, Shape
  <2>2. DOMAIN j = CallFields
    BY <2>1 DEF CallShape
  <2>3. j1 = [j EXCEPT !.overtaken = j.overtaken \/ j.pc \in Unlocked]
    BY <1>4, <1>8
  <2>4. j1.pc \notin Held
    BY <1>1, <1>2, <1>8 DEF Exclusive
  <2>5. j1.pc \in Unlocked => j1.overtaken
    BY <1>1, <1>2 DEF Exclusive
  <2>6. ~Own(d)'
    BY <1>2, <1>8, <2>5 DEF Own
  <2> HIDE DEF j, j1
  <2>7. /\ j1.pc = j.pc /\ j1.patch = j.patch /\ j1.last = j.last
        /\ j1.points = j.points /\ j1.result = j.result /\ j1.tries = j.tries
        /\ j1.reported = j.reported
    BY <2>2, <2>3 DEF CallFields
  <2>8. j1.overtaken = (j.overtaken \/ j.pc \in Unlocked)
    BY <2>2, <2>3 DEF CallFields
  <2>9. ~j1.overtaken => ~j.overtaken
    BY <2>8
  <2>10. /\ j.tries \in Nat /\ LastOk(j.last)
         /\ j.pc \in {"analyze", "done"} /\ ~j.overtaken => ResultOk(j)
    BY <2>1 DEF CallData, j
  <2>11. ResultOk(j) => ResultOk(j1)
    BY <2>7 DEF ResultOk
  <2>12. j1.pc # "measure" /\ j1.pc # "fill"
    BY <2>4 DEF Held
  <2> QED
    BY <2>6, <2>7, <2>9, <2>10, <2>11, <2>12 DEF CallData, j1
<1>9. calls' \in 0 .. NCalls
  BY <1>2, Sizes DEF Data
<1> QED
  BY <1>3, <1>7, <1>8, <1>9 DEF Data

(* Interpolate is called with neighbours enough, all of them points.       *)
LEMMA KrigeSamples ==
  ASSUME IInv, Data, NEW c \in Caller, Filling(c),
         NEW near, near = NeighborsOf(NextVoid(c)),
         Len(near) >= Max({MinPointsForKriging, MinKrigingNeighbors})
  PROVE  LastOk([target |-> CenterOf(grid, NextVoid(c)), neighbors |-> near])
<1> DEFINE v == NextVoid(c)
<1>1. call[c].pc = "fill" /\ call[c].pc \in Held
  BY DEF Filling, Held
<1>2. /\ GridShape(grid) /\ GridLaid(grid) /\ Laid(grid)
      /\ call[c].points \in Seq(Int \X Int)
      /\ Measured(grid, call[c].points)
  BY <1>1, HolderData
<1>3. v \in grid.void /\ Target(v) = v
  BY CellTaken
<1>4. v \in Cells(grid) /\ v \in Nat \X Nat
  BY <1>2, <1>3 DEF GridShape
<1>5. near = GetNeighbors(grid, v, SearchRadius)
  BY <1>3 DEF NeighborsOf
<1> HIDE DEF v
<1>6. near \in Seq(Pt)
  BY <1>2, <1>4, <1>5, NeighborsEnough
<1>7. CenterOf(grid, v) \in Pt
  BY <1>2, <1>4, CentreIsPoint
<1>8. MinPointsForKriging \in Nat /\ MinKrigingNeighbors \in Nat
  BY VoidFillerAssumption DEF VoidFillerAssumption, KrigingAssumption
<1> DEFINE M == {MinPointsForKriging, MinKrigingNeighbors}
<1>9. \E x \in M : \A y \in M : x >= y
  BY <1>8
<1>10. Max(M) \in M /\ \A y \in M : Max(M) >= y
  <2> HIDE DEF M
  <2> QED
    BY <1>9 DEF Max
<1>11. Max(M) \in Nat /\ Max(M) >= MinKrigingNeighbors
  BY <1>8, <1>10
<1>12. Len(near) >= MinKrigingNeighbors
  <2>1. Len(near) \in Nat
    BY <1>6
  <2> QED
    BY <1>8, <1>11, <2>1
<1> QED
  BY <1>6, <1>7, <1>12 DEF LastOk, v

(* Every step of FillFrames keeps the points in order. *)
LEMMA NextData == IInv /\ IInv' /\ Data /\ [Next]_vars => Data'
<1> SUFFICES ASSUME IInv, IInv', Data, [Next]_vars PROVE Data'
  OBVIOUS
<1>1. CASE UNCHANGED vars
  BY <1>1 DEF vars, Data, CallData, Own, Limit
<1>2. CASE \E c \in Caller : \E b \in Batch : Begin(c, b)
  BY <1>2, BeginData
<1>3. CASE \E c \in Caller : Measure(c)
  BY <1>3, MeasureData
<1>4. CASE \E c \in Caller : FillCell(c)
  <2>1. PICK c \in Caller : FillCell(c)
    BY <1>4
  <2>2. PICK near : /\ near = NeighborsOf(NextVoid(c))
          /\ \/ TooFew(c, NextVoid(c), near)
             \/ NoFallback(c, NextVoid(c), near)
             \/ Krige(c, NextVoid(c), near)
             \/ FallbackIDW(c, NextVoid(c), near)
    BY <2>1 DEF FillCell
  <2>3. Filling(c)
    BY <2>1 DEF FillCell
  <2>4. CASE \/ TooFew(c, NextVoid(c), near)
             \/ NoFallback(c, NextVoid(c), near)
    BY <2>2, <2>3, <2>4, SkipData
  <2>5. CASE Krige(c, NextVoid(c), near)
    <3> DEFINE last == [target |-> CenterOf(grid, NextVoid(c)),
                        neighbors |-> near]
    <3>1. Filled(c, NextVoid(c), "kriging", last)
          /\ Len(near) >= Max({MinPointsForKriging, MinKrigingNeighbors})
      BY <2>5 DEF Krige
    <3>2. LastOk(last)
      BY <2>2, <2>3, <3>1, KrigeSamples
    <3> HIDE DEF last
    <3> QED
      BY <2>3, <3>1, <3>2, FillData
  <2>6. CASE FallbackIDW(c, NextVoid(c), near)
    <3>1. LastOk(call[c].last)
      BY DEF Data, CallData
    <3>2. Filled(c, NextVoid(c), "idw", call[c].last)
      BY <2>6 DEF FallbackIDW
    <3> QED
      BY <2>3, <3>1, <3>2, FillData
  <2> QED
    BY <2>2, <2>4, <2>5, <2>6
<1>5. CASE \E c \in Caller : CutShort(c)
  BY <1>5, CutShortData
<1>6. CASE \E c \in Caller : FillDone(c)
  BY <1>6, FillDoneData
<1>7. CASE \E c \in Caller : ReadPoints(c) \/ Analyze(c)
  BY <1>7, ReadData
<1> QED
  BY <1>1, <1>2, <1>3, <1>4, <1>5, <1>6, <1>7 DEF Next, Step

(* The invariant of the points on the grid holds of every behaviour: after *)
(* AddPoints and ComputeStatistics, between two cells of fillVoidsLocked,  *)
(* and when FillFrames reads the grid after it has unlocked vf.mu.         *)
THEOREM DataInvariance == Spec => [](IInv /\ Data)
<1>1. IInv /\ Data /\ [Next]_vars => (IInv /\ Data)'
  BY NextInvariant, NextData
<1>2. Init => IInv /\ Data
  BY InitInvariant, InitData
<1> QED
  BY <1>1, <1>2, PTL DEF Spec

(* The state keeps its shape: the cells are those that NewSpatialGrid laid *)
(* out for its bounds, AddPoints and SetCellFilled keep to them, and vf.mu *)
(* is held by the caller that is between Begin and FillDone.               *)
THEOREM TypeCorrect == Spec => []TypeOK
<1>1. ASSUME IInv, Data PROVE TypeOK
  <2>1. Shape /\ Exclusive /\ GridAdds
    BY <1>1 DEF IInv
  <2>2. config \in Config /\ stats \in StatsType /\ GridShape(grid)
    BY <2>1 DEF Shape
  <2>3. GridLaid(grid) /\ calls \in 0 .. NCalls
    BY <1>1 DEF Data
  <2>4. Cells(NoGrid) = {}
    <3>1. NoGrid.points = <<>>
      BY DEF NoGrid
    <3> QED
      BY <3>1 DEF Cells
  <2>5. GridTypeOK
    <3>1. grid.void \subseteq Cells(grid) /\ grid.filled \subseteq Cells(grid)
      BY <2>2 DEF GridShape
    <3>2. \A c \in Cells(grid) : grid.points[c] \in Seq(Int \X Int)
      BY <2>2 DEF GridShape
    <3>3. CASE grid = NoGrid
      BY <2>4, <3>1, <3>2, <3>3 DEF GridTypeOK
    <3>4. CASE grid # NoGrid
      BY <2>3, <3>1, <3>2, <3>4 DEF GridTypeOK, GridLaid, Laid
    <3> QED
      BY <3>3, <3>4
  <2>6. ASSUME NEW c \in Caller
        PROVE  /\ call[c].pc \in {"idle", "measure", "autofit", "fill", "read",
                                  "analyze", "done"}
               /\ call[c].todo \subseteq Cells(grid)
               /\ mu = c <=> call[c].pc \in {"measure", "autofit", "fill"}
    <3>1. call[c].pc \in Pcs
      BY <2>1 DEF Shape, CallShape
    <3>2. mu = c <=> call[c].pc \in Held
      BY <2>1 DEF Exclusive
    <3>3. call[c].todo \subseteq Cells(grid)
      <4>1. CASE call[c].pc \in Held
        <5>1. call[c].todo \subseteq grid.void
          BY <2>1, <3>2, <4>1 DEF GridAdds, Own
        <5> QED
          BY <2>2, <5>1 DEF GridShape
      <4>2. CASE call[c].pc \notin Held
        <5>1. PatchAdds(call[c])
          BY <1>1 DEF IInv
        <5>2. call[c].todo = {}
          BY <4>2, <5>1 DEF PatchAdds, Held
        <5> QED
          BY <5>2
      <4> QED
        BY <4>1, <4>2
    <3> QED
      BY <3>1, <3>2, <3>3 DEF Pcs, Held
  <2> QED
    BY <2>2, <2>3, <2>5, <2>6 DEF TypeOK, StatsType
<1> QED
  BY <1>1, DataInvariance, PTL

(* While the cells of a batch are filled, vf.grid holds this batch and     *)
(* what was filled for it: every point has its cell but for those on the   *)
(* upper bounds of a grid that an earlier batch left, which outOfBounds    *)
(* admits and cellIndex refuses.                                           *)
THEOREM GridHoldsBatch == Spec => []GridIsBatch
<1>1. ASSUME IInv, Data PROVE GridIsBatch
  <2> SUFFICES ASSUME NEW c \in Caller, call[c].pc = "fill"
               PROVE  LET kept == {p \in ToSet(call[c].points) :
                                     p[1] # grid.maxX /\ p[2] # grid.maxY}
                      IN /\ DataCells(grid) \ grid.filled
                              = {CellIndex(grid, p) : p \in kept}
                         /\ Cells(grid) \ DataCells(grid) = grid.void
                         /\ Cardinality(grid.filled) = call[c].patch.filled
    BY DEF GridIsBatch
  <2> DEFINE b == call[c].points
             kept == {p \in ToSet(b) : p[1] # grid.maxX /\ p[2] # grid.maxY}
  <2>1. call[c].pc \in Held
    BY DEF Held
  <2>2. /\ GridShape(grid) /\ Laid(grid) /\ Fits(grid, b)
        /\ b \in Seq(Int \X Int) /\ Measured(grid, b)
    BY <1>1, <2>1, HolderData
  <2>3. Cardinality(grid.filled) = call[c].patch.filled
    BY <1>1, <2>1, Holding
  <2> HIDE DEF b
  <2>4. /\ grid.minX \in Int /\ grid.minY \in Int
        /\ grid.maxX \in Int /\ grid.maxY \in Int
    BY <2>2 DEF GridShape
  <2>5. ASSUME NEW i \in 1 .. Len(b)
        PROVE  /\ b[i] \in Int \X Int
               /\ Inside(grid, b[i])
                    <=> b[i][1] # grid.maxX /\ b[i][2] # grid.maxY
    <3>1. b[i] \in Int \X Int /\ b[i][1] \in Int /\ b[i][2] \in Int
      BY <2>2
    <3>2. /\ grid.minX <= b[i][1] /\ b[i][1] <= grid.maxX
          /\ grid.minY <= b[i][2] /\ b[i][2] <= grid.maxY
      BY <2>2 DEF Fits
    <3> QED
      BY <2>4, <3>1, <3>2 DEF Inside
  <2>6. ToSet(b) = {b[i] : i \in 1 .. Len(b)}
    <3>1. b \in Seq(Int \X Int)
      BY <2>2
    <3>2. DOMAIN b = 1 .. Len(b)
      BY <3>1
    <3> QED
      BY <3>2, Zenon DEF ToSet
  <2>7. \A d \in Cells(grid) :
          d \in DataCells(grid) \ grid.filled <=> Hits(grid, b, d) # {}
    <3> SUFFICES ASSUME NEW d \in Cells(grid)
                 PROVE  d \in DataCells(grid) \ grid.filled
                          <=> Hits(grid, b, d) # {}
      OBVIOUS
    <3>1. /\ HasData(grid, d) <=> d \in grid.filled \/ Hits(grid, b, d) # {}
          /\ d \in grid.filled => Hits(grid, b, d) = {}
      BY <2>2 DEF Measured
    <3>2. d \in DataCells(grid) <=> HasData(grid, d)
      BY DEF DataCells
    <3> QED
      BY <3>1, <3>2
  <2>8. ASSUME NEW d \in DataCells(grid) \ grid.filled
        PROVE  d \in {CellIndex(grid, p) : p \in kept}
    <3>1. Hits(grid, b, d) # {}
      BY <2>7 DEF DataCells
    <3>2. PICK i \in 1 .. Len(b) :
            Inside(grid, b[i]) /\ CellIndex(grid, b[i]) = d
      BY <3>1 DEF Hits
    <3>3. b[i] \in kept
      BY <2>5, <2>6, <3>2
    <3> QED
      BY <3>2, <3>3
  <2>9. ASSUME NEW p \in kept
        PROVE  CellIndex(grid, p) \in DataCells(grid) \ grid.filled
    <3>1. PICK i \in 1 .. Len(b) : p = b[i]
      BY <2>6
    <3>2. Inside(grid, p) /\ p \in Int \X Int
      BY <2>5, <3>1
    <3>3. CellIndex(grid, p) \in Cells(grid)
      BY <2>2, <3>2, InsideHasCell DEF Laid
    <3>4. i \in Hits(grid, b, CellIndex(grid, p))
      BY <3>1, <3>2 DEF Hits
    <3> QED
      BY <2>7, <3>3, <3>4
  <2>10. DataCells(grid) \ grid.filled = {CellIndex(grid, p) : p \in kept}
    <3> HIDE DEF kept
    <3> QED
      BY <2>8, <2>9
  <2>11. Cells(grid) \ DataCells(grid) = grid.void
    BY <2>2 DEF Measured
  <2> QED
    BY <2>3, <2>10, <2>11 DEF b
<1> QED
  BY <1>1, DataInvariance, PTL

(* fillVoidsLocked interpolates every void cell with enough measured       *)
(* points within SearchRadius cells: GetNeighbors returns them all, and a  *)
(* cell that is skipped lacks them for good, as SetCellFilled adds to the  *)
(* points of the grid but not to those of the batch.                       *)
THEOREM EligibleCellsFilled == Spec => []EligibleFilled
<1>1. ASSUME IInv, Data PROVE EligibleFilled
  <2> SUFFICES ASSUME NEW c \in Caller, call[c].pc = "fill",
                      call[c].todo = {}, config.fallback,
                      call[c].tries < Limit(c), NEW v \in grid.void
               PROVE  Cardinality({i \in DOMAIN call[c].points :
                        LET p == call[c].points[i]
                            d == CellIndex(grid, p)
                        IN /\ Inside(grid, p)
                           /\ d[1] \in v[1] - SearchRadius
                                         .. v[1] + SearchRadius
                           /\ d[2] \in v[2] - SearchRadius
                                         .. v[2] + SearchRadius})
                      < MinPointsForKriging
    BY DEF EligibleFilled
  <2> DEFINE b == call[c].points
  <2>1. call[c].pc \in Held
    BY DEF Held
  <2>2. CallData(c) /\ b \in Seq(Int \X Int)
    BY <1>1, <2>1, HolderData
  <2>3. Few(grid, b, v)
    BY <2>2 DEF CallData
  <2> HIDE DEF b
  <2>4. DOMAIN b = 1 .. Len(b)
    BY <2>2
  <2>5. NearTo(grid, b, v) = {i \in DOMAIN b :
          LET p == b[i]
              d == CellIndex(grid, p)
          IN /\ Inside(grid, p)
             /\ d[1] \in v[1] - SearchRadius .. v[1] + SearchRadius
             /\ d[2] \in v[2] - SearchRadius .. v[2] + SearchRadius}
    BY <2>4 DEF NearTo
  <2> QED
    BY <2>3, <2>5 DEF Few, b
<1> QED
  BY <1>1, DataInvariance, PTL

(* A call that no other has overtaken returns, from the reads it makes     *)
(* without vf.mu, what it has itself put on the grid: the cells of its own *)
(* batch, each within half a cell of a point of it, and those it filled,   *)
(* of which it never reports too many.                                     *)
THEOREM OwnResultReturned == Spec => []OwnResult
<1>1. ASSUME IInv, Data PROVE OwnResult
  <2>1. ASSUME NEW c \in Caller, call[c].pc = "done", ~call[c].overtaken
        PROVE  /\ ResultOk(call[c])
               /\ call[c].left = call[c].patch.voids - call[c].patch.filled
    BY <1>1, <2>1 DEF Data, CallData, IInv, GridAdds
  <2>2. ASSUME NEW c \in Caller, call[c].pc = "done", ~call[c].overtaken
        PROVE  call[c].reported <= call[c].patch.filled
    <3> DEFINE R == call[c].result  F == {r \in R : r.filled}
    <3>1. /\ IsFiniteSet(R) /\ Cardinality(F) = call[c].patch.filled
          /\ Cardinality(R \ F) <= Len(call[c].points)
          /\ call[c].reported = Cardinality(R) - Len(call[c].points)
          /\ Len(call[c].points) \in Nat
      BY <2>1, <2>2 DEF ResultOk
    <3>2. R \cap F = F /\ F \subseteq R
      OBVIOUS
    <3> HIDE DEF R, F
    <3>3. /\ Cardinality(R \ F) = Cardinality(R) - Cardinality(F)
          /\ Cardinality(R) \in Nat /\ Cardinality(F) \in Nat
      <4>1. IsFiniteSet(F)
        BY <3>1, <3>2, FS_Subset
      <4>2. Cardinality(R \ F) = Cardinality(R) - Cardinality(R \cap F)
        BY <3>1, FS_Difference
      <4> QED
        BY <3>1, <3>2, <4>1, <4>2, FS_CardinalityType
    <3> QED
      BY <3>1, <3>3
  <2> QED
    BY <2>1, <2>2 DEF OwnResult, ResultOk
<1> QED
  BY <1>1, DataInvariance, PTL

(* The samples of an interpolation are all the neighbours, or the          *)
(* MaxKrigingNeighbors nearest of them: partitionItems and                 *)
(* quickSelectItems exchange items and lose none, for any number of        *)
(* neighbours and any distances, equal ones as well.                       *)
THEOREM NearestAreChosen == Spec => []NearestChosen
<1>1. ASSUME IInv, Data PROVE NearestChosen
  <2>1. ASSUME NEW c \in Caller, call[c].last.neighbors # <<>>
        PROVE  Nearest(call[c].last.target, call[c].last.neighbors)
    <3>1. LastOk(call[c].last)
      BY <1>1 DEF Data, CallData
    <3> QED
      BY <2>1, <3>1, SamplesNearest DEF LastOk
  <2> QED
    BY <2>1 DEF NearestChosen, Nearest, Occurs
<1> QED
  BY <1>1, DataInvariance, PTL

-----------------------------------------------------------------------------
(* The loops of a call end *)

StagesLeft(p) ==
  CASE p = "measure" -> 4 [] p \in {"autofit", "fill"} -> 3
    [] p = "read" -> 2 [] p = "analyze" -> 1 [] OTHER -> 0

(* Call k1 is nearer to its end than k: at a later stage, or with fewer    *)
(* void cells to come.                                                     *)
Nearer(k1, k) ==
  \/ StagesLeft(k1.pc) < StagesLeft(k.pc)
  \/ /\ k1.pc = k.pc
     /\ Cardinality(k.todo) \in Nat /\ Cardinality(k1.todo) \in Nat
     /\ Cardinality(k1.todo) < Cardinality(k.todo)

LEMMA MeasureIsNearer ==
  ASSUME IInv, NEW c \in Caller, Measure(c)
  PROVE  /\ Nearer(call'[c], call[c])
         /\ \A d \in Caller \ {c} : call'[d] = call[d]
<1> DEFINE k == call[c]  k1 == call'[c]
<1>1. k.pc = "measure"
  BY DEF Measure
<1>2. DOMAIN call = Caller /\ DOMAIN k = CallFields /\ k.patch \in Patches
  BY <1>1, Holding DEF Held
<1>3. \A d \in Caller \ {c} : call'[d] = call[d]
  BY <1>2 DEF Measure
<1>4. k1.pc \in {"read", "autofit", "fill"}
  BY <1>2 DEF Measure, CallFields
<1> HIDE DEF k, k1
<1>5. StagesLeft(k1.pc) < StagesLeft(k.pc)
  BY <1>1, <1>4 DEF StagesLeft
<1> QED
  BY <1>3, <1>5 DEF Nearer, k, k1

LEMMA StepIsNearer ==
  ASSUME IInv, NEW c \in Caller, Step(c)
  PROVE  Nearer(call'[c], call[c])
<1> DEFINE k == call[c]  k1 == call'[c]
<1>1. DOMAIN call = Caller /\ DOMAIN k = CallFields
  BY DEF IInv, Shape, CallShape
<1>2. CASE Measure(c)
  BY <1>2, MeasureIsNearer
<1>3. CASE FillCell(c)
  <2> DEFINE v == NextVoid(c)
  <2>1. Filling(c)
    BY <1>3 DEF FillCell
  <2>2. PICK near :
          \/ TooFew(c, v, near) \/ NoFallback(c, v, near)
          \/ Krige(c, v, near) \/ FallbackIDW(c, v, near)
    BY <1>3 DEF FillCell
  <2>3. /\ Cardinality(k.todo) \in Nat
        /\ Cardinality(k.todo \ {v}) = Cardinality(k.todo) - 1
        /\ Cardinality(k.todo) >= 1
    BY <2>1, CellTaken, Holding DEF Filling, Held
  <2> HIDE DEF v
  <2>4. k1.pc = k.pc /\ k1.todo = k.todo \ {v}
    BY <1>1, <2>2
    DEF TooFew, NoFallback, Krige, FallbackIDW, Filled, CallFields
  <2> QED
    BY <2>3, <2>4 DEF Nearer
<1>4. CASE CutShort(c)
  <2>1. k.pc = "fill" /\ k.todo # {}
    BY <1>4 DEF CutShort
  <2>2. IsFiniteSet(k.todo) /\ Cardinality(k.todo) \in Nat
    BY <2>1, Holding DEF Held
  <2>3. k1.pc = k.pc /\ k1.todo = {}
    BY <1>1, <1>4 DEF CutShort, CallFields
  <2>4. Cardinality(k.todo) # 0 /\ Cardinality({}) = 0
    BY <2>1, <2>2, FS_EmptySet
  <2> QED
    BY <2>2, <2>3, <2>4 DEF Nearer
<1>5. CASE FillDone(c)
  <2>1. k.pc = "fill" /\ k1.pc = "read"
    BY <1>1, <1>5 DEF FillDone, CallFields
  <2> QED
    BY <2>1 DEF Nearer, StagesLeft
<1>6. CASE ReadPoints(c)
  <2>1. k.pc = "read" /\ k1.pc = "analyze"
    BY <1>1, <1>6 DEF ReadPoints, CallFields
  <2> QED
    BY <2>1 DEF Nearer, StagesLeft
<1>7. CASE Analyze(c)
  <2>1. k.pc = "analyze" /\ k1.pc = "done"
    BY <1>1, <1>7 DEF Analyze, CallFields
  <2> QED
    BY <2>1 DEF Nearer, StagesLeft
<1> QED
  BY <1>2, <1>3, <1>4, <1>5, <1>6, <1>7 DEF Step

(* A step of one caller leaves the others where they are. *)
LEMMA OthersStay ==
  ASSUME IInv, NEW d \in Caller, NEW c \in Caller, c # d,
         Step(d) \/ \E b \in Batch : Begin(d, b)
  PROVE  call'[c].pc = call[c].pc /\ call'[c].todo = call[c].todo
<1>1. DOMAIN call = Caller /\ DOMAIN call[c] = CallFields
  BY DEF IInv, Shape, CallShape
<1>2. CASE Step(d)
  <2>1. CASE Measure(d)
    BY <2>1, MeasureIsNearer
  <2>2. CASE FillCell(d)
    <3>1. PICK v, near :
            \/ TooFew(d, v, near) \/ NoFallback(d, v, near)
            \/ Krige(d, v, near) \/ FallbackIDW(d, v, near)
      BY <2>2 DEF FillCell
    <3> QED
      BY <1>1, <3>1 DEF TooFew, NoFallback, Krige, FallbackIDW, Filled
  <2>3. CASE CutShort(d)
    BY <1>1, <2>3 DEF CutShort
  <2>4. CASE FillDone(d) \/ ReadPoints(d) \/ Analyze(d)
    BY <1>1, <2>4 DEF FillDone, ReadPoints, Analyze
  <2> QED
    BY <1>2, <2>1, <2>2, <2>3, <2>4 DEF Step
<1>3. CASE \E b \in Batch : Begin(d, b)
  BY <1>1, <1>3 DEF Begin, CallFields
<1> QED
  BY <1>2, <1>3

(* FillFrames cannot loop for ever: every step of a call brings it nearer  *)
(* to its end, and nothing that other callers do, or that it fills itself, *)
(* gives it more to do.  (That the steps are made is the fairness of       *)
(* FairSpec.)                                                              *)
THEOREM CallsGoForward ==
  Spec => [][\A c \in Caller :
               /\ Step(c) => Nearer(call'[c], call[c])
               /\ call[c].pc \notin {"idle", "done"} /\ ~Step(c) =>
                    call'[c].pc = call[c].pc /\ call'[c].todo = call[c].todo
            ]_vars
<1>1. ASSUME IInv, Next, NEW c \in Caller
      PROVE  /\ Step(c) => Nearer(call'[c], call[c])
             /\ call[c].pc \notin {"idle", "done"} /\ ~Step(c) =>
                  call'[c].pc = call[c].pc /\ call'[c].todo = call[c].todo
  <2>1. Step(c) => Nearer(call'[c], call[c])
    BY <1>1, StepIsNearer
  <2>2. ASSUME call[c].pc \notin {"idle", "done"}, ~Step(c)
        PROVE  call'[c].pc = call[c].pc /\ call'[c].todo = call[c].todo
    <3>1. PICK d \in Caller : Step(d) \/ \E b \in Batch : Begin(d, b)
      BY <1>1 DEF Next
    <3>2. c # d
      BY <2>2, <3>1 DEF Begin
    <3> QED
      BY <1>1, <3>1, <3>2, OthersStay
  <2> QED
    BY <2>1, <2>2
<1>2. IInv /\ [Next]_vars =>
        [\A c \in Caller :
           /\ Step(c) => Nearer(call'[c], call[c])
           /\ call[c].pc \notin {"idle", "done"} /\ ~Step(c) =>
                call'[c].pc = call[c].pc /\ call'[c].todo = call[c].todo]_vars
  BY <1>1
<1> QED
  BY <1>2, Invariance, PTL DEF Spec
=============================================================================
