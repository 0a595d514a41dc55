------------------------- MODULE ReorganizerProofs -------------------------
(***************************************************************************)
(* Proofs about Reorganizer, for any number of frames, cache size, fill    *)
(* interval, ping counters and timestamps: the type invariant and, when no *)
(* ping counter comes again while it is cached, that the cache holds the   *)
(* newest frames (CacheIsNewest), that Flush hands over exactly these      *)
(* (FlushHandsNewest), and the refinement of FrameWindow; and in any case  *)
(* that the loop of evictions ends (EvictionEnds).                         *)
(***************************************************************************)
EXTENDS Reorganizer, FiniteSetTheorems, SequenceTheorems, TLAPS

Pc == {"fill", "store", "hand"}

Shape ==
  /\ TypeOK
  /\ fills \subseteq [of : SUBSET Nat, pc : Pc]

(* While the cache is in use, frameOrder has the counters of the newest    *)
(* frames in the order of their arrival, the heap has these frames and the *)
(* map leads from each counter to its frame; there are as many entries as  *)
(* counters.  How many that are is in Filled.                              *)
InStep ==
  /\ Len(frameOrder) <= n
  /\ \A i \in 1 .. Len(frameOrder) :
       frameOrder[i] = ping[n - Len(frameOrder) + i]
  /\ frameHeap = Newest(Len(frameOrder))
  /\ DOMAIN cache = {ping[f] : f \in frameHeap}
  /\ \A f \in frameHeap : cache[ping[f]] = f
  /\ IsFiniteSet(DOMAIN cache)
  /\ Cardinality(DOMAIN cache) = Len(frameOrder)

(* The limit, or all frames if these are fewer; one more until evicted. *)
Filled ==
  /\ Len(frameOrder) \in {n, MaxCacheFrames, MaxCacheFrames + 1}
  /\ Len(frameOrder) <= MaxCacheFrames + 1
  /\ mu = "free" => Len(frameOrder) <= MaxCacheFrames

Ordered == mu \in {"free", "submit"} => InStep /\ Filled

(* Flush works on the newest frames, sorted. *)
Flushed ==
  /\ mu \in {"fill", "hand", "handfilled"}
       => flushing \in Sorted(Newest(MaxCacheFrames))
  /\ mu \in {"fill", "handfilled"} => Cardinality(Newest(MaxCacheFrames)) >= 2

(* No two goroutines work on the same frames, a fill triggered by this     *)
(* frame is yet to come, and a fill has two frames or more.                *)
Snapshots ==
  /\ \A t \in fills : Cardinality(t.of) >= 2
  /\ \A t, u \in fills : t.of = u.of => t = u
  /\ mu = "submit" => \A t \in fills : t.of \subseteq 1 .. n - 1

(* Until Flush returns only filled pieces have been handed over. *)
Pieces ==
  mu # "done" => \A i \in DOMAIN handed : Cardinality(handed[i]) >= 2

IInv == Shape /\ Ordered /\ Flushed /\ Snapshots /\ Pieces

-----------------------------------------------------------------------------
(* Shape *)

LEMMA ShapeInit ==
  ASSUME Init
  PROVE  Shape
<1>1. ping \in Seq(Ping) /\ Len(ping) = 0 /\ frameOrder \in Seq(Ping)
  BY DEF Init
<1>2. DOMAIN cache = {}
  BY DEF Init
<1>3. flushing \in Seq(1 .. n) /\ handed \in Seq(SUBSET (1 .. n))
  BY DEF Init
<1>4. framesSinceFill \in 0 .. (FillEveryNFrames - 1) /\ n \in 0 .. NFrames
  BY ReorganizerAssumption DEF Init
<1>5. fills = {} /\ filledPoints = {} /\ frameHeap = {} /\ mu = "free"
      /\ n = 0
  BY DEF Init
<1> QED
  BY <1>1, <1>2, <1>3, <1>4, <1>5 DEF Shape, TypeOK

(* Frames are numbers up to n: there are finitely many. *)
LEMMA FiniteFrames ==
  ASSUME NEW m \in Nat, NEW S \in SUBSET (1 .. m)
  PROVE  IsFiniteSet(S) /\ Cardinality(S) \in Nat
<1>1. IsFiniteSet(1 .. m)
  BY FS_Interval
<1>2. IsFiniteSet(S)
  BY <1>1, FS_Subset
<1> QED
  BY <1>2, FS_CardinalityType

(* What is numbered within 1 .. n is so when n grows. *)
LEMMA Wider ==
  ASSUME NEW m \in Nat, NEW s \in Seq(1 .. m), NEW h \in Seq(SUBSET (1 .. m))
  PROVE  s \in Seq(1 .. m + 1) /\ h \in Seq(SUBSET (1 .. m + 1))
<1>1. 1 .. m \subseteq 1 .. m + 1
  OBVIOUS
<1>2. SUBSET (1 .. m) \subseteq SUBSET (1 .. m + 1)
  BY <1>1
<1>3. s \in Seq(1 .. m + 1)
  BY <1>1, SeqMonotonic
<1>4. h \in Seq(SUBSET (1 .. m + 1))
  BY <1>2, SeqMonotonic
<1> QED
  BY <1>3, <1>4

LEMMA ShapeSubmit ==
  ASSUME Shape, NEW p \in Ping, SubmitFrame(p)
  PROVE  Shape'
<1> USE ReorganizerAssumption
<1>1. n \in Nat /\ n' = n + 1 /\ n' \in 0 .. NFrames
  BY DEF Shape, TypeOK, SubmitFrame
<1>2. ping' \in Seq(Ping) /\ Len(ping') = n'
  <2>1. ping \in Seq(Ping) /\ Len(ping) = n /\ ping' = Append(ping, p)
    BY DEF Shape, TypeOK, SubmitFrame
  <2> QED
    BY <1>1, <2>1
<1>3. DOMAIN cache' \subseteq Ping /\ \A q \in DOMAIN cache' : cache'[q] \in 1 .. n'
  <2>1. /\ DOMAIN cache \subseteq Ping
        /\ \A q \in DOMAIN cache : cache[q] \in 1 .. n
    BY DEF Shape, TypeOK
  <2>2. cache' = [q \in DOMAIN cache \cup {p} |->
                    IF q = p THEN n + 1 ELSE cache[q]]
    BY DEF SubmitFrame
  <2> QED
    BY <1>1, <2>1, <2>2
<1>4. frameHeap' \subseteq 1 .. n'
  <2>1. frameHeap \subseteq 1 .. n /\ frameHeap' = frameHeap \cup {n + 1}
    BY DEF Shape, TypeOK, SubmitFrame
  <2> QED
    BY <1>1, <2>1
<1>5. frameOrder' \in Seq(Ping)
  <2>1. frameOrder \in Seq(Ping) /\ frameOrder' = Append(frameOrder, p)
    BY DEF Shape, TypeOK, SubmitFrame
  <2> QED
    BY <2>1
<1>6. flushing' \in Seq(1 .. n') /\ handed' \in Seq(SUBSET (1 .. n'))
  <2>1. /\ flushing \in Seq(1 .. n) /\ handed \in Seq(SUBSET (1 .. n))
        /\ flushing' = flushing /\ handed' = handed
    BY DEF Shape, TypeOK, SubmitFrame
  <2> QED
    BY <1>1, <2>1, Wider
<1>7. /\ \A t \in fills' : t.of \subseteq 1 .. n' /\ t.pc \in Pc
      /\ filledPoints' \subseteq 1 .. n'
  <2>1. /\ \A t \in fills : t.of \subseteq 1 .. n /\ t.pc \in Pc
        /\ filledPoints \subseteq 1 .. n
        /\ fills' = fills /\ filledPoints' = filledPoints
    BY DEF Shape, TypeOK, SubmitFrame, Pc
  <2> QED
    BY <1>1, <2>1
<1>8. /\ framesSinceFill' \in 0 .. (FillEveryNFrames - 1)
      /\ mu' = "submit" /\ fills' \subseteq [of : SUBSET Nat, pc : Pc]
  BY DEF Shape, TypeOK, SubmitFrame
<1> QED
  BY <1>1, <1>2, <1>3, <1>4, <1>5, <1>6, <1>7, <1>8 DEF Shape, TypeOK, Pc

LEMMA ShapeEvict ==
  ASSUME Shape, EvictOldest
  PROVE  Shape'
<1>1. /\ frameOrder \in Seq(Ping) /\ frameOrder # <<>>
      /\ frameOrder' = Tail(frameOrder)
  BY DEF Shape, TypeOK, EvictOldest
<1>2. frameOrder' \in Seq(Ping)
  BY <1>1
<1>3. cache' = [q \in DOMAIN cache \ {Head(frameOrder)} |-> cache[q]]
  BY DEF EvictOldest
<1>4. frameHeap' \subseteq frameHeap
  BY DEF EvictOldest
<1>5. UNCHANGED <<n, ping, framesSinceFill, mu, flushing, fills,
                  filledPoints, handed>>
  BY DEF EvictOldest
<1> QED
  BY <1>2, <1>3, <1>4, <1>5 DEF Shape, TypeOK

LEMMA ShapeReturns ==
  ASSUME Shape, SubmitReturns
  PROVE  Shape'
<1>1. framesSinceFill' \in 0 .. (FillEveryNFrames - 1)
  BY ReorganizerAssumption DEF Shape, TypeOK, SubmitReturns
<1>2. fills' \subseteq fills \cup {[of |-> frameHeap, pc |-> "fill"]}
  BY DEF SubmitReturns
<1>3. frameHeap \subseteq 1 .. n /\ n \in Nat
  BY ReorganizerAssumption DEF Shape, TypeOK
<1>4. [of |-> frameHeap, pc |-> "fill"] \in [of : SUBSET Nat, pc : Pc]
  BY <1>3 DEF Pc
<1>5. /\ fills' \subseteq [of : SUBSET Nat, pc : Pc]
      /\ \A t \in fills' : t.of \subseteq 1 .. n /\ t.pc \in Pc
  <2>1. /\ fills \subseteq [of : SUBSET Nat, pc : Pc]
        /\ \A t \in fills : t.of \subseteq 1 .. n
    BY DEF Shape, TypeOK
  <2>2. fills' \subseteq [of : SUBSET Nat, pc : Pc]
    BY <1>2, <1>4, <2>1
  <2>3. ASSUME NEW t \in fills' PROVE t.of \subseteq 1 .. n
    <3>1. CASE t \in fills
      BY <2>1, <3>1
    <3>2. CASE t = [of |-> frameHeap, pc |-> "fill"]
      <4>1. t.of = frameHeap
        BY <3>2
      <4> QED
        BY <1>3, <4>1
    <3> QED
      BY <1>2, <3>1, <3>2
  <2> QED
    BY <2>2, <2>3
<1>6. /\ UNCHANGED <<n, ping, cache, frameHeap, frameOrder, flushing,
                     filledPoints, handed>>
      /\ mu' = "free"
  BY DEF SubmitReturns
<1> QED
  BY <1>1, <1>5, <1>6 DEF Shape, TypeOK, Pc

(* A step of a fill goroutine: it ends, or goes on with what it has. *)
LEMMA FillSteps ==
  ASSUME Shape, NEW t \in fills, FillGoroutine(t)
  PROVE  /\ \/ fills' = fills \ {t}
            \/ \E pc \in Pc :
                 fills' = (fills \ {t}) \cup {[of |-> t.of, pc |-> pc]}
         /\ fills' \subseteq [of : SUBSET Nat, pc : Pc]
         /\ t.of \subseteq 1 .. n
         /\ \/ UNCHANGED handed
            \/ fills' = fills \ {t} /\ handed' = Append(handed, t.of)
         /\ filledPoints' \in {filledPoints, t.of}
         /\ UNCHANGED <<n, ping, cache, frameHeap, frameOrder,
                        framesSinceFill, mu, flushing>>
<1>1. /\ fills \subseteq [of : SUBSET Nat, pc : Pc]
      /\ t \in [of : SUBSET Nat, pc : Pc] /\ t.of \subseteq 1 .. n
  BY DEF Shape, TypeOK
<1>2. \A pc \in Pc : [t EXCEPT !.pc = pc] = [of |-> t.of, pc |-> pc]
  BY <1>1
<1>3. \/ fills' = fills \ {t}
      \/ \E pc \in Pc :
           fills' = (fills \ {t}) \cup {[of |-> t.of, pc |-> pc]}
  BY <1>2 DEF FillGoroutine, FillFails, FillReturns, StoreFilled, HandFilled,
              Moves, Pc
<1>4. fills' \subseteq [of : SUBSET Nat, pc : Pc]
  BY <1>1, <1>3
<1>5. /\ \/ UNCHANGED handed
         \/ fills' = fills \ {t} /\ handed' = Append(handed, t.of)
      /\ filledPoints' \in {filledPoints, t.of}
      /\ UNCHANGED <<n, ping, cache, frameHeap, frameOrder, framesSinceFill,
                     mu, flushing>>
  BY DEF FillGoroutine, FillFails, FillReturns, StoreFilled, HandFilled
<1> QED
  BY <1>1, <1>3, <1>4, <1>5

LEMMA ShapeFill ==
  ASSUME Shape, NEW t \in fills, FillGoroutine(t)
  PROVE  Shape'
<1> USE FillSteps
<1>1. \A u \in fills' : u.of \subseteq 1 .. n /\ u.pc \in Pc
  BY DEF Shape, TypeOK
<1>2. filledPoints' \subseteq 1 .. n
  BY DEF Shape, TypeOK
<1>3. handed' \in Seq(SUBSET (1 .. n))
  <2>1. handed \in Seq(SUBSET (1 .. n)) /\ t.of \in SUBSET (1 .. n)
    BY DEF Shape, TypeOK
  <2>2. handed' = handed \/ handed' = Append(handed, t.of)
    OBVIOUS
  <2> QED
    BY <2>1, <2>2
<1>4. /\ fills' \subseteq [of : SUBSET Nat, pc : Pc]
      /\ UNCHANGED <<n, ping, cache, frameHeap, frameOrder, framesSinceFill,
                     mu, flushing>>
  OBVIOUS
<1> QED
  BY <1>1, <1>2, <1>3, <1>4 DEF Shape, TypeOK, Pc

LEMMA ShapeFlush ==
  ASSUME Shape, Flush \/ FlushFill \/ FlushReturns
  PROVE  Shape'
<1>1. frameHeap \subseteq 1 .. n /\ n \in Nat /\ flushing \in Seq(1 .. n)
      /\ handed \in Seq(SUBSET (1 .. n))
  BY ReorganizerAssumption DEF Shape, TypeOK
<1>2. CASE Flush
  <2>1. flushing' \in [1 .. Cardinality(frameHeap) -> frameHeap]
    BY <1>2 DEF Flush, Sorted, SetToSeqs
  <2>2. Cardinality(frameHeap) \in Nat
    BY <1>1, FiniteFrames
  <2>3. flushing' \in Seq(1 .. n)
    <3> DEFINE k == Cardinality(frameHeap)
    <3>1. k \in Nat /\ flushing' \in [1 .. k -> frameHeap]
      BY <2>1, <2>2
    <3> HIDE DEF k
    <3>2. flushing' \in [1 .. k -> 1 .. n]
      BY <1>1, <3>1
    <3>3. [1 .. k -> 1 .. n] \subseteq Seq(1 .. n)
      BY <3>1, SeqDef
    <3> QED
      BY <3>2, <3>3
  <2>4. /\ DOMAIN cache' = {} /\ frameHeap' = {} /\ frameOrder' \in Seq(Ping)
        /\ mu' \in {"fill", "hand"}
    BY <1>2 DEF Flush
  <2>5. UNCHANGED <<n, ping, framesSinceFill, fills, filledPoints, handed>>
    BY <1>2 DEF Flush
  <2> QED
    BY <2>3, <2>4, <2>5 DEF Shape, TypeOK
<1>3. CASE FlushFill
  <2>1. ToSet(flushing) \subseteq 1 .. n
    BY <1>1 DEF ToSet
  <2>2. /\ filledPoints' \in {filledPoints, ToSet(flushing)}
        /\ mu' \in {"hand", "handfilled"}
        /\ UNCHANGED <<n, ping, cache, frameHeap, frameOrder, framesSinceFill,
                       flushing, fills, handed>>
    BY <1>3 DEF FlushFill
  <2> QED
    BY <2>1, <2>2 DEF Shape, TypeOK
<1>4. CASE FlushReturns
  <2> DEFINE singles == [i \in DOMAIN flushing |-> {flushing[i]}]
             whole == IF mu = "hand" THEN <<>> ELSE <<ToSet(flushing)>>
  <2>1. singles \in Seq(SUBSET (1 .. n))
    BY <1>1
  <2>2. ToSet(flushing) \in SUBSET (1 .. n)
    BY <1>1 DEF ToSet
  <2>3. whole \in Seq(SUBSET (1 .. n))
    <3> DEFINE S == SUBSET (1 .. n)  w == ToSet(flushing)
    <3>1. w \in S
      BY <2>2
    <3> HIDE DEF S, w
    <3>2. <<w>> \in Seq(S) /\ <<>> \in Seq(S)
      BY <3>1
    <3> QED
      BY <3>2 DEF S, w
  <2>4. /\ handed' = handed \o singles \o whole /\ mu' = "done"
        /\ UNCHANGED <<n, ping, cache, frameHeap, frameOrder, framesSinceFill,
                       flushing, fills, filledPoints>>
    BY <1>4 DEF FlushReturns
  <2> HIDE DEF singles, whole
  <2>5. handed \o singles \in Seq(SUBSET (1 .. n))
    BY <1>1, <2>1, ConcatProperties
  <2>6. handed' \in Seq(SUBSET (1 .. n))
    BY <2>3, <2>4, <2>5, ConcatProperties
  <2> QED
    BY <2>4, <2>6 DEF Shape, TypeOK
<1> QED
  BY <1>2, <1>3, <1>4

LEMMA ShapeStep ==
  ASSUME Shape, [Next]_vars
  PROVE  Shape'
<1>1. CASE UNCHANGED vars
  BY <1>1 DEF Shape, TypeOK, vars
<1> QED
  BY <1>1, ShapeSubmit, ShapeEvict, ShapeReturns, ShapeFill, ShapeFlush
  DEF Next

(* The state keeps its types, whatever the ping counters. *)
THEOREM TypeCorrect == Spec => []TypeOK
<1>1. Spec => []Shape
  BY ShapeInit, ShapeStep, PTL DEF Spec
<1>2. Shape => TypeOK
  BY DEF Shape
<1> QED
  BY <1>1, <1>2, PTL

-----------------------------------------------------------------------------
(* Ordered *)

(* The window is all frames, or as many as the cache takes. *)
LEMMA WindowSize ==
  ASSUME n \in Nat, NEW k \in Nat, k \in {n, MaxCacheFrames},
         k <= MaxCacheFrames
  PROVE  Newest(k) = Newest(MaxCacheFrames)
BY ReorganizerAssumption DEF Newest

(* What InStep says of the values and the order, before cardinalities. *)
LEMMA Lengths ==
  ASSUME Shape
  PROVE  /\ n \in Nat /\ ping \in Seq(Ping) /\ Len(ping) = n
         /\ frameOrder \in Seq(Ping) /\ Len(frameOrder) \in Nat
BY ReorganizerAssumption DEF Shape, TypeOK

LEMMA OrderedSubmit ==
  ASSUME ~PingsRepeat, Shape, Ordered, NEW p \in Ping, SubmitFrame(p)
  PROVE  Ordered'
<1> USE ReorganizerAssumption
<1> DEFINE k == Len(frameOrder)
<1>1. /\ n \in Nat /\ ping \in Seq(Ping) /\ Len(ping) = n
      /\ frameOrder \in Seq(Ping) /\ k \in Nat
  BY Lengths
<1>2. mu = "free" /\ InStep /\ Filled
  BY DEF SubmitFrame, Ordered
<1>3. /\ n' = n + 1 /\ ping' = Append(ping, p)
      /\ frameOrder' = Append(frameOrder, p)
      /\ frameHeap' = frameHeap \cup {n + 1} /\ mu' = "submit"
      /\ cache' = [q \in DOMAIN cache \cup {p} |->
                     IF q = p THEN n + 1 ELSE cache[q]]
  BY DEF SubmitFrame
<1>4. k <= n /\ k <= MaxCacheFrames /\ k \in {n, MaxCacheFrames}
  BY <1>1, <1>2 DEF InStep, Filled
<1>5. frameHeap = Newest(k) /\ Newest(k) = Newest(MaxCacheFrames)
  BY <1>1, <1>2, <1>4, WindowSize DEF InStep
<1>6. \A f \in frameHeap : ping[f] # p
  BY <1>5 DEF SubmitFrame, Fresh
<1>7. /\ Len(ping') = n + 1 /\ ping'[n + 1] = p
      /\ \A i \in 1 .. n : ping'[i] = ping[i]
  BY <1>1, <1>3
<1>8. /\ Len(frameOrder') = k + 1 /\ frameOrder'[k + 1] = p
      /\ \A i \in 1 .. k : frameOrder'[i] = frameOrder[i]
  BY <1>1, <1>3
<1>9. /\ \A f \in frameHeap : f \in 1 .. n /\ ping'[f] = ping[f]
      /\ n + 1 \notin frameHeap
  BY <1>1, <1>5, <1>7 DEF Newest
<1>10. p \notin DOMAIN cache /\ DOMAIN cache = {ping[f] : f \in frameHeap}
  BY <1>2, <1>6 DEF InStep
<1> HIDE DEF k
<1>11. ASSUME NEW i \in 1 .. k + 1
       PROVE  frameOrder'[i] = ping'[n' - (k + 1) + i]
  <2>1. CASE i = k + 1
    <3>1. n' - (k + 1) + i = n + 1
      BY <1>1, <1>3, <2>1
    <3> QED
      BY <1>7, <1>8, <2>1, <3>1
  <2>2. CASE i \in 1 .. k
    <3>1. frameOrder[i] = ping[n - k + i]
      BY <1>2, <2>2 DEF InStep, k
    <3>2. n - k + i \in 1 .. n /\ n' - (k + 1) + i = n - k + i
      BY <1>1, <1>3, <1>4, <2>2
    <3> QED
      BY <1>7, <1>8, <2>2, <3>1, <3>2
  <2> QED
    BY <1>1, <2>1, <2>2
<1>12. frameHeap' = {f \in 1 .. n' : n' - (k + 1) < f}
  <2>1. frameHeap = {f \in 1 .. n : n - k < f}
    BY <1>5 DEF Newest
  <2> QED
    BY <1>1, <1>3, <1>4, <2>1
<1>13. DOMAIN cache' = {ping'[f] : f \in frameHeap'}
  <2>1. DOMAIN cache' = DOMAIN cache \cup {p}
    BY <1>3
  <2> QED
    BY <1>3, <1>7, <1>9, <1>10, <2>1
<1>14. ASSUME NEW f \in frameHeap' PROVE cache'[ping'[f]] = f
  <2>1. CASE f = n + 1
    BY <1>3, <1>7, <2>1
  <2>2. CASE f \in frameHeap
    <3>1. ping'[f] = ping[f] /\ ping[f] \in DOMAIN cache /\ ping[f] # p
      BY <1>6, <1>9, <1>10, <2>2
    <3>2. cache[ping[f]] = f
      BY <1>2, <2>2 DEF InStep
    <3> QED
      BY <1>3, <3>1, <3>2
  <2> QED
    BY <1>3, <2>1, <2>2
<1>15. IsFiniteSet(DOMAIN cache') /\ Cardinality(DOMAIN cache') = k + 1
  <2>1. DOMAIN cache' = DOMAIN cache \cup {p}
    BY <1>3
  <2> DEFINE D == DOMAIN cache
  <2>2. IsFiniteSet(D) /\ Cardinality(D) = k /\ p \notin D
    BY <1>2, <1>10 DEF InStep, k
  <2> HIDE DEF D
  <2>3. IsFiniteSet(D \cup {p}) /\ Cardinality(D \cup {p}) = k + 1
    BY <2>2, FS_AddElement
  <2> QED
    BY <2>1, <2>3 DEF D
<1>16. InStep'
  <2>1. Len(frameOrder') <= n'
    BY <1>1, <1>3, <1>4, <1>8
  <2>2. \A i \in 1 .. Len(frameOrder') :
          frameOrder'[i] = ping'[n' - Len(frameOrder') + i]
    BY <1>8, <1>11
  <2>3. frameHeap' = Newest(Len(frameOrder))'
    BY <1>8, <1>12 DEF Newest
  <2>4. IsFiniteSet(DOMAIN cache') /\ Cardinality(DOMAIN cache')
          = Len(frameOrder')
    BY <1>8, <1>15
  <2> QED
    BY <1>13, <1>14, <2>1, <2>2, <2>3, <2>4 DEF InStep
<1>17. Filled'
  BY <1>1, <1>3, <1>4, <1>8 DEF Filled
<1> QED
  BY <1>16, <1>17 DEF Ordered

LEMMA OrderedEvict ==
  ASSUME Shape, Ordered, EvictOldest
  PROVE  Ordered'
<1> USE ReorganizerAssumption
<1> DEFINE k == Len(frameOrder)  f0 == n - k + 1  oldest == Head(frameOrder)
<1>1. /\ n \in Nat /\ ping \in Seq(Ping) /\ Len(ping) = n
      /\ frameOrder \in Seq(Ping) /\ k \in Nat
  BY Lengths
<1>2. mu = "submit" /\ InStep /\ Filled /\ Overfull
  BY DEF EvictOldest, Ordered
<1>3. /\ frameOrder # <<>> /\ frameOrder' = Tail(frameOrder)
      /\ cache' = [q \in DOMAIN cache \ {oldest} |-> cache[q]]
      /\ frameHeap' = IF oldest \in DOMAIN cache
                        THEN frameHeap \ {cache[oldest]} ELSE frameHeap
      /\ UNCHANGED <<n, ping, mu>>
  BY DEF EvictOldest
<1>4. k = MaxCacheFrames + 1 /\ k <= n
  BY <1>1, <1>2 DEF InStep, Filled, Overfull
<1>5. /\ oldest = frameOrder[1] /\ Len(frameOrder') = k - 1
      /\ \A i \in 1 .. k - 1 : frameOrder'[i] = frameOrder[i + 1]
  BY <1>1, <1>3
<1> HIDE DEF k, oldest, f0
<1>6. /\ frameHeap = {f \in 1 .. n : n - k < f}
      /\ DOMAIN cache = {ping[f] : f \in frameHeap}
      /\ \A f \in frameHeap : cache[ping[f]] = f
      /\ \A i \in 1 .. k : frameOrder[i] = ping[n - k + i]
  BY <1>2 DEF InStep, Newest, k
<1>7. f0 \in frameHeap /\ oldest = ping[f0] /\ f0 = n - k + 1
  BY <1>1, <1>4, <1>5, <1>6 DEF f0
<1>8. oldest \in DOMAIN cache /\ cache[oldest] = f0
  BY <1>6, <1>7
<1>9. frameHeap' = frameHeap \ {f0}
  BY <1>3, <1>8
<1>10. frameHeap' = {f \in 1 .. n : n - (k - 1) < f}
  <2>1. \A f \in 1 .. n : n - (k - 1) < f <=> n - k < f /\ f # f0
    BY <1>1, <1>7
  <2> QED
    BY <1>6, <1>9, <2>1
<1>11. \A f \in frameHeap' : ping[f] # oldest
  BY <1>6, <1>7, <1>9
<1>12. DOMAIN cache' = {ping[f] : f \in frameHeap'}
  <2>1. DOMAIN cache' = DOMAIN cache \ {oldest}
    BY <1>3
  <2> QED
    BY <1>6, <1>7, <1>9, <1>11, <2>1
<1>13. \A f \in frameHeap' : cache'[ping[f]] = f
  BY <1>3, <1>6, <1>9, <1>11
<1>14. IsFiniteSet(DOMAIN cache') /\ Cardinality(DOMAIN cache') = k - 1
  <2>1. DOMAIN cache' = DOMAIN cache \ {oldest}
    BY <1>3
  <2>2. IsFiniteSet(DOMAIN cache) /\ Cardinality(DOMAIN cache) = k
    BY <1>2 DEF InStep, k
  <2> QED
    BY <1>8, <2>1, <2>2, FS_RemoveElement
<1>15. ASSUME NEW i \in 1 .. k - 1
       PROVE  frameOrder'[i] = ping[n - (k - 1) + i]
  <2>1. i + 1 \in 1 .. k /\ n - (k - 1) + i = n - k + (i + 1)
    BY <1>1
  <2> QED
    BY <1>5, <1>6, <2>1
<1>16. InStep'
  <2>1. Len(frameOrder') <= n'
    BY <1>1, <1>3, <1>4, <1>5
  <2>2. \A i \in 1 .. Len(frameOrder') :
          frameOrder'[i] = ping'[n' - Len(frameOrder') + i]
    BY <1>3, <1>5, <1>15
  <2>3. frameHeap' = Newest(Len(frameOrder))'
    BY <1>3, <1>5, <1>10 DEF Newest
  <2>4. DOMAIN cache' = {ping'[f] : f \in frameHeap'}
    BY <1>3, <1>12
  <2>5. \A f \in frameHeap' : cache'[ping'[f]] = f
    BY <1>3, <1>13
  <2>6. IsFiniteSet(DOMAIN cache') /\ Cardinality(DOMAIN cache')
          = Len(frameOrder')
    BY <1>5, <1>14
  <2> QED
    BY <2>1, <2>2, <2>3, <2>4, <2>5, <2>6 DEF InStep
<1>17. Filled'
  BY <1>1, <1>2, <1>3, <1>4, <1>5 DEF Filled
<1> QED
  BY <1>16, <1>17 DEF Ordered

LEMMA OrderedStep ==
  ASSUME ~PingsRepeat, Shape, Ordered, [Next]_vars
  PROVE  Ordered'
<1>1. CASE SubmitReturns
  <2>1. mu = "submit" /\ InStep /\ Filled /\ ~Overfull
    BY <1>1 DEF SubmitReturns, Ordered
  <2>2. Len(frameOrder) \in Nat /\ Len(frameOrder) <= MaxCacheFrames
    BY <2>1, Lengths, ReorganizerAssumption DEF InStep, Overfull
  <2>3. UNCHANGED <<n, ping, cache, frameHeap, frameOrder>>
    BY <1>1 DEF SubmitReturns
  <2>4. InStep'
    BY <2>1, <2>3 DEF InStep, Newest
  <2>5. Filled'
    BY <2>1, <2>2, <2>3, ReorganizerAssumption DEF Filled
  <2> QED
    BY <2>4, <2>5 DEF Ordered
<1>2. CASE Flush \/ FlushFill \/ FlushReturns
  BY <1>2 DEF Ordered, Flush, FlushFill, FlushReturns
<1>3. CASE UNCHANGED vars \/ \E t \in fills : FillGoroutine(t)
  <2>1. UNCHANGED <<n, ping, cache, frameHeap, frameOrder, mu>>
    BY <1>3, FillSteps DEF vars
  <2> QED
    BY <2>1 DEF Ordered, InStep, Filled, Newest
<1> QED
  BY <1>1, <1>2, <1>3, OrderedSubmit, OrderedEvict DEF Next

LEMMA OrderedInit == Init => Ordered
<1> SUFFICES ASSUME Init PROVE Ordered
  OBVIOUS
<1>1. /\ n = 0 /\ Len(frameOrder) = 0 /\ frameHeap = {} /\ DOMAIN cache = {}
      /\ mu = "free"
  BY DEF Init
<1>2. InStep
  BY <1>1, FS_EmptySet DEF InStep, Newest
<1> QED
  BY <1>1, <1>2, ReorganizerAssumption DEF Ordered, Filled

-----------------------------------------------------------------------------
(* Flushed, Snapshots, Pieces *)

(* Between calls, and when Flush takes the frames. *)
LEMMA HeapIsNewest ==
  ASSUME Shape, Ordered, mu = "free"
  PROVE  frameHeap = Newest(MaxCacheFrames)
<1>1. InStep /\ Filled
  BY DEF Ordered
<1> QED
  BY <1>1, Lengths, WindowSize, ReorganizerAssumption DEF InStep, Filled

(* Popping a heap yields every one of its frames, once each. *)
LEMMA PoppedAll ==
  ASSUME NEW m \in Nat, NEW S \in SUBSET (1 .. m), NEW q \in SetToSeqs(S)
  PROVE  /\ q \in Seq(S) /\ Len(q) = Cardinality(S) /\ Len(q) \in Nat
         /\ DOMAIN q = 1 .. Len(q)
         /\ ToSet(q) = S
         /\ \A i, j \in 1 .. Len(q) : i # j => q[i] # q[j]
<1> DEFINE k == Cardinality(S)
<1>1. IsFiniteSet(S) /\ k \in Nat
  BY FiniteFrames
<1>2. q \in [1 .. k -> S] /\ \A i, j \in 1 .. k : i # j => q[i] # q[j]
  BY DEF SetToSeqs
<1> HIDE DEF k
<1>3. q \in Seq(S) /\ Len(q) = k /\ DOMAIN q = 1 .. k
  <2>1. [1 .. k -> S] \subseteq Seq(S)
    BY <1>1, SeqDef
  <2>2. q \in Seq(S) /\ DOMAIN q = 1 .. k
    BY <1>2, <2>1
  <2> QED
    BY <1>1, <2>2
<1>4. IsFiniteSet(1 .. k) /\ Cardinality(1 .. k) = k
  BY <1>1, FS_Interval
<1>5. q \in Injection(1 .. k, S)
  BY <1>2 DEF Injection, IsInjective
<1>6. Cardinality(1 .. k) = Cardinality(S)
  BY <1>4 DEF k
<1>7. q \in Surjection(1 .. k, S)
  BY <1>1, <1>5, <1>6, FS_Injection
<1>8. \A x \in S : \E i \in 1 .. k : q[i] = x
  BY <1>7 DEF Surjection
<1>9. ToSet(q) = S
  <2>1. ToSet(q) = {q[i] : i \in 1 .. k}
    BY <1>3 DEF ToSet
  <2>2. \A i \in 1 .. k : q[i] \in S
    BY <1>2
  <2> QED
    BY <1>8, <2>1, <2>2
<1> QED
  BY <1>1, <1>2, <1>3, <1>9 DEF k

LEMMA Joined ==
  ASSUME NEW P, NEW s \in Seq(P), NEW t \in Seq(P)
  PROVE  /\ s \o t \in Seq(P) /\ Len(s \o t) = Len(s) + Len(t)
         /\ \A i \in 1 .. Len(s) : (s \o t)[i] = s[i]
         /\ \A i \in 1 .. Len(t) : (s \o t)[Len(s) + i] = t[i]
<1>1. Len(s) \in Nat /\ Len(t) \in Nat
  OBVIOUS
<1>2. /\ s \o t \in Seq(P) /\ Len(s \o t) = Len(s) + Len(t)
      /\ \A i \in 1 .. Len(s) + Len(t) :
           (s \o t)[i] = IF i <= Len(s) THEN s[i] ELSE t[i - Len(s)]
  BY ConcatProperties
<1> DEFINE u == s \o t  a == Len(s)  b == Len(t)
<1> HIDE DEF u, a, b
<1>3. \A i \in 1 .. a + b : u[i] = IF i <= a THEN s[i] ELSE t[i - a]
  BY <1>2 DEF u, a, b
<1>4. a \in Nat /\ b \in Nat
  BY <1>1 DEF a, b
<1>5. ASSUME NEW i \in 1 .. a PROVE u[i] = s[i]
  BY <1>3, <1>4
<1>6. ASSUME NEW i \in 1 .. b PROVE u[a + i] = t[i]
  <2>1. a + i \in 1 .. a + b /\ ~(a + i <= a) /\ (a + i) - a = i
    BY <1>4
  <2> QED
    BY <1>3, <2>1
<1> QED
  BY <1>2, <1>5, <1>6 DEF u, a, b

LEMMA FlushedStep ==
  ASSUME Shape, Ordered, Flushed, [Next]_vars
  PROVE  Flushed'
<1>1. CASE Flush
  <2>1. /\ mu = "free" /\ flushing' \in Sorted(frameHeap) /\ n' = n
        /\ mu' = IF Cardinality(frameHeap) >= 2 THEN "fill" ELSE "hand"
    BY <1>1 DEF Flush
  <2>2. Newest(MaxCacheFrames)' = frameHeap
    BY <2>1, HeapIsNewest DEF Newest
  <2> QED
    BY <2>1, <2>2 DEF Flushed
<1>2. CASE FlushFill
  <2>1. mu = "fill" /\ mu' \in {"hand", "handfilled"}
        /\ UNCHANGED <<n, flushing>>
    BY <1>2 DEF FlushFill
  <2>2. Newest(MaxCacheFrames)' = Newest(MaxCacheFrames)
    BY <2>1 DEF Newest
  <2> QED
    BY <2>1, <2>2 DEF Flushed
<1>3. CASE UNCHANGED vars \/ \E t \in fills : FillGoroutine(t)
  <2>1. UNCHANGED <<n, flushing, mu>>
    BY <1>3, FillSteps DEF vars
  <2>2. Newest(MaxCacheFrames)' = Newest(MaxCacheFrames)
    BY <2>1 DEF Newest
  <2> QED
    BY <2>1, <2>2 DEF Flushed
<1>4. CASE \/ \E p \in Ping : SubmitFrame(p)
           \/ EvictOldest \/ SubmitReturns \/ FlushReturns
  <2>1. mu' \in {"submit", "free", "done"}
    BY <1>4 DEF SubmitFrame, EvictOldest, SubmitReturns, FlushReturns
  <2> QED
    BY <2>1 DEF Flushed
<1> QED
  BY <1>1, <1>2, <1>3, <1>4 DEF Next

(* SubmitFrame triggers a fill with the frame it was called for. *)
LEMMA Triggered ==
  ASSUME Shape, Ordered, SubmitReturns, Cardinality(frameHeap) >= 2
  PROVE  n \in frameHeap
<1>1. mu = "submit" /\ InStep
  BY DEF SubmitReturns, Ordered
<1>2. n \in Nat /\ Len(frameOrder) \in Nat
  BY Lengths
<1>3. frameHeap # {}
  BY FS_EmptySet
<1>4. PICK f \in frameHeap : TRUE
  BY <1>3
<1>5. f \in 1 .. n /\ n - Len(frameOrder) < f
  BY <1>1, <1>4 DEF InStep, Newest
<1> QED
  BY <1>1, <1>2, <1>5 DEF InStep, Newest

LEMMA SnapshotsStep ==
  ASSUME Shape, Ordered, Snapshots, [Next]_vars
  PROVE  Snapshots'
<1>1. n \in Nat
  BY Lengths
<1>2. ASSUME NEW p \in Ping, SubmitFrame(p) PROVE Snapshots'
  <2>1. n' = n + 1 /\ mu' = "submit" /\ fills' = fills
    BY <1>2 DEF SubmitFrame
  <2>2. \A t \in fills : t.of \subseteq 1 .. n
    BY DEF Shape, TypeOK
  <2>3. n' - 1 = n
    BY <1>1, <2>1
  <2> QED
    BY <2>1, <2>2, <2>3 DEF Snapshots
<1>3. CASE SubmitReturns
  <2>1. mu = "submit" /\ mu' = "free"
    BY <1>3 DEF SubmitReturns
  <2>2. CASE fills' = fills
    BY <2>1, <2>2 DEF Snapshots
  <2>3. CASE /\ Cardinality(frameHeap) >= 2
             /\ fills' = fills \cup {[of |-> frameHeap, pc |-> "fill"]}
    <3> DEFINE new == [of |-> frameHeap, pc |-> "fill"]
    <3>1. new.of = frameHeap /\ n \in frameHeap
      BY <1>3, <2>3, Triggered
    <3> HIDE DEF new
    <3>2. \A t \in fills : t.of \subseteq 1 .. n - 1
      BY <2>1 DEF Snapshots
    <3>3. n \notin 1 .. n - 1
      BY <1>1
    <3>4. \A t \in fills : t.of # new.of
      BY <3>1, <3>2, <3>3
    <3>5. fills' = fills \cup {new}
      BY <2>3 DEF new
    <3>6. \A t \in fills' : Cardinality(t.of) >= 2
      BY <2>3, <3>1, <3>5 DEF Snapshots
    <3>7. \A t, u \in fills' : t.of = u.of => t = u
      BY <3>4, <3>5 DEF Snapshots
    <3> QED
      BY <2>1, <3>6, <3>7 DEF Snapshots
  <2> QED
    BY <1>3, <2>2, <2>3 DEF SubmitReturns
<1>4. ASSUME NEW t \in fills, FillGoroutine(t) PROVE Snapshots'
  <2>1. \A u \in fills' : \/ u \in fills /\ u # t
                          \/ u.of = t.of /\ u \notin fills \ {t}
    <3>1. CASE fills' = fills \ {t}
      BY <3>1
    <3>2. ASSUME NEW pc \in Pc,
                 fills' = (fills \ {t}) \cup {[of |-> t.of, pc |-> pc]}
          PROVE  \A u \in fills' : \/ u \in fills /\ u # t
                                   \/ u.of = t.of /\ u \notin fills \ {t}
      BY <3>2
    <3> QED
      BY <1>4, <3>1, <3>2, FillSteps
  <2>2. \A u, v \in fills' : u.of = v.of => u = v
    <3>1. CASE fills' = fills \ {t}
      BY <3>1 DEF Snapshots
    <3>2. ASSUME NEW pc \in Pc,
                 fills' = (fills \ {t}) \cup {[of |-> t.of, pc |-> pc]}
          PROVE  \A u, v \in fills' : u.of = v.of => u = v
      <4> DEFINE w == [of |-> t.of, pc |-> pc]
      <4>1. w.of = t.of
        OBVIOUS
      <4> HIDE DEF w
      <4>2. \A u \in fills \ {t} : u.of # w.of
        BY <4>1 DEF Snapshots
      <4>3. fills' = (fills \ {t}) \cup {w}
        BY <3>2 DEF w
      <4> QED
        BY <4>2, <4>3 DEF Snapshots
    <3> QED
      BY <1>4, <3>1, <3>2, FillSteps
  <2>3. UNCHANGED <<n, mu>>
    BY <1>4, FillSteps
  <2>4. \A u \in fills' : \E v \in fills : u.of = v.of
    BY <2>1
  <2>5. \A u \in fills' : Cardinality(u.of) >= 2
    BY <2>4 DEF Snapshots
  <2>6. mu' = "submit" => \A u \in fills' : u.of \subseteq 1 .. n' - 1
    BY <2>3, <2>4 DEF Snapshots
  <2> QED
    BY <2>2, <2>5, <2>6 DEF Snapshots
<1>5. CASE EvictOldest \/ Flush \/ FlushFill \/ FlushReturns
           \/ UNCHANGED vars
  <2>1. /\ n' = n /\ fills' = fills
        /\ mu' = "submit" => mu = "submit"
    BY <1>5 DEF EvictOldest, Flush, FlushFill, FlushReturns, vars
  <2> QED
    BY <2>1 DEF Snapshots
<1> QED
  BY <1>2, <1>3, <1>4, <1>5 DEF Next

LEMMA PiecesStep ==
  ASSUME Shape, Snapshots, Pieces, [Next]_vars
  PROVE  Pieces'
<1>1. ASSUME NEW t \in fills, FillGoroutine(t) PROVE Pieces'
  <2>1. handed \in Seq(SUBSET (1 .. n)) /\ t.of \in SUBSET (1 .. n)
    BY <1>1, FillSteps DEF Shape, TypeOK
  <2>2. Cardinality(t.of) >= 2 /\ mu' = mu
    BY <1>1, FillSteps DEF Snapshots
  <2>3. CASE handed' = handed
    BY <2>2, <2>3 DEF Pieces
  <2>4. CASE handed' = Append(handed, t.of)
    <3>1. \A i \in DOMAIN handed' : i \in DOMAIN handed \/ handed'[i] = t.of
      BY <2>1, <2>4
    <3>2. \A i \in DOMAIN handed : handed'[i] = handed[i]
      BY <2>1, <2>4
    <3> QED
      BY <2>2, <3>1, <3>2 DEF Pieces
  <2> QED
    BY <1>1, <2>3, <2>4, FillSteps
<1>2. CASE FlushReturns
  BY <1>2 DEF FlushReturns, Pieces
<1>3. CASE \/ \E p \in Ping : SubmitFrame(p)
           \/ EvictOldest \/ SubmitReturns \/ Flush \/ FlushFill
           \/ UNCHANGED vars
  <2>1. handed' = handed /\ (mu = "done" => mu' = "done")
    BY <1>3 DEF SubmitFrame, EvictOldest, SubmitReturns, Flush, FlushFill, vars
  <2> QED
    BY <2>1 DEF Pieces
<1> QED
  BY <1>1, <1>2, <1>3 DEF Next

(* With pings that never repeat, every reachable state of SubmitFrame,     *)
(* eviction, fill goroutines and Flush satisfies the inductive invariant.  *)
THEOREM Invariance ==
  ASSUME ~PingsRepeat
  PROVE  Spec => []IInv
<1>1. Init => IInv
  <2>1. Init => Flushed /\ Snapshots /\ Pieces
    BY DEF Init, Flushed, Snapshots, Pieces
  <2> QED
    BY <2>1, ShapeInit, OrderedInit DEF IInv
<1>2. IInv /\ [Next]_vars => IInv'
  BY ShapeStep, OrderedStep, FlushedStep, SnapshotsStep, PiecesStep DEF IInv
<1> QED
  BY <1>1, <1>2, PTL DEF Spec

(* Between calls the map and the heap hold the newest maxCacheFrames       *)
(* frames submitted, if no ping counter comes again while it is cached.    *)
THEOREM CacheHoldsNewest ==
  ASSUME ~PingsRepeat
  PROVE  Spec => []CacheIsNewest
<1>1. IInv => CacheIsNewest
  <2> SUFFICES ASSUME IInv, mu = "free"
               PROVE  /\ {cache[p] : p \in DOMAIN cache}
                           = Newest(MaxCacheFrames)
                      /\ frameHeap = Newest(MaxCacheFrames)
    BY DEF CacheIsNewest
  <2>1. frameHeap = Newest(MaxCacheFrames)
    BY HeapIsNewest DEF IInv
  <2>2. {cache[p] : p \in DOMAIN cache} = frameHeap
    BY DEF IInv, Ordered, InStep
  <2> QED
    BY <2>1, <2>2
<1> QED
  BY <1>1, Invariance, PTL

-----------------------------------------------------------------------------
(* What Flush hands over *)

(* The pieces Flush adds: each frame by itself, and perhaps all of them. *)
LEMMA FlushPieces ==
  ASSUME IInv, FlushReturns
  PROVE  /\ mu \in {"hand", "handfilled"} /\ mu' = "done" /\ n' = n
         /\ n \in Nat /\ Newest(MaxCacheFrames) \in SUBSET (1 .. n)
         /\ flushing \in Sorted(Newest(MaxCacheFrames))
         /\ flushing \in SetToSeqs(Newest(MaxCacheFrames))
         /\ ToSet(flushing) = Newest(MaxCacheFrames)
         /\ handed' = handed \o [i \in DOMAIN flushing |-> {flushing[i]}]
                     \o (IF mu = "hand" THEN <<>> ELSE <<ToSet(flushing)>>)
<1>1. n \in Nat /\ Newest(MaxCacheFrames) \in SUBSET (1 .. n)
  BY Lengths DEF IInv, Newest
<1>2. /\ mu \in {"hand", "handfilled"} /\ mu' = "done" /\ n' = n
      /\ handed' = handed \o [i \in DOMAIN flushing |-> {flushing[i]}]
                     \o (IF mu = "hand" THEN <<>> ELSE <<ToSet(flushing)>>)
  BY DEF FlushReturns
<1>3. flushing \in Sorted(Newest(MaxCacheFrames))
  BY <1>2 DEF IInv, Flushed
<1>4. flushing \in SetToSeqs(Newest(MaxCacheFrames))
  BY <1>3 DEF Sorted
<1>5. ToSet(flushing) = Newest(MaxCacheFrames)
  BY <1>1, <1>4, PoppedAll
<1> QED
  BY <1>1, <1>2, <1>3, <1>4, <1>5

LEMMA HandsNewestFlush ==
  ASSUME IInv, FlushReturns
  PROVE  FlushHandsNewest'
<1> DEFINE W == Newest(MaxCacheFrames)
           one == [i \in DOMAIN flushing |-> {flushing[i]}]
           whole == IF mu = "hand" THEN <<>> ELSE <<ToSet(flushing)>>
           a == Len(handed)  m == Len(flushing)
           P == SUBSET (1 .. n)
<1>1. /\ mu \in {"hand", "handfilled"} /\ mu' = "done" /\ n' = n /\ n \in Nat
      /\ W \in SUBSET (1 .. n) /\ ToSet(flushing) = W
      /\ flushing \in Sorted(W) /\ flushing \in SetToSeqs(W)
      /\ handed' = handed \o one \o whole
  BY FlushPieces
<1>2. W' = W
  BY <1>1 DEF Newest
<1>3. /\ flushing \in Seq(W) /\ m \in Nat /\ DOMAIN flushing = 1 .. m
      /\ \A i, j \in 1 .. m : i # j => flushing[i] # flushing[j]
  BY <1>1, PoppedAll
<1>4. \A i, j \in 1 .. m : i < j => Ts[flushing[i]] <= Ts[flushing[j]]
  BY <1>1, <1>3 DEF Sorted
<1>5. handed \in Seq(P) /\ a \in Nat
      /\ \A i \in 1 .. a : Cardinality(handed[i]) >= 2
  BY <1>1 DEF IInv, Shape, TypeOK, Pieces
<1>6. one \in Seq(P) /\ Len(one) = m /\ \A i \in 1 .. m : one[i] = {flushing[i]}
  BY <1>1, <1>3
<1>7. /\ whole \in Seq(P) /\ Len(whole) \in {0, 1}
      /\ Len(whole) = 1 => whole[1] = W /\ Cardinality(W) >= 2
  <2>1. CASE mu = "hand"
    BY <2>1
  <2>2. CASE mu # "hand"
    <3>1. Cardinality(W) >= 2
      BY <1>1, <2>2 DEF IInv, Flushed
    <3>2. whole = <<W>> /\ W \in P
      BY <1>1, <2>2
    <3> HIDE DEF W, P, whole
    <3>3. whole \in Seq(P) /\ Len(whole) = 1 /\ whole[1] = W
      BY <3>2
    <3> QED
      BY <3>1, <3>3
  <2> QED
    BY <2>1, <2>2
<1> HIDE DEF W, one, whole, a, m, P
<1> DEFINE h == handed \o one
<1>8. /\ h \in Seq(P) /\ Len(h) = a + m
      /\ \A i \in 1 .. a : h[i] = handed[i]
      /\ \A i \in 1 .. m : h[a + i] = one[i]
  <2>1. /\ handed \o one \in Seq(P)
        /\ Len(handed \o one) = Len(handed) + Len(one)
        /\ \A i \in 1 .. Len(handed) : (handed \o one)[i] = handed[i]
        /\ \A i \in 1 .. Len(one) : (handed \o one)[Len(handed) + i] = one[i]
    <3>1. handed \in Seq(P) /\ one \in Seq(P)
      BY <1>5, <1>6
    <3> QED
      BY <3>1, Joined
  <2> QED
    BY <1>6, <2>1 DEF a
<1> HIDE DEF h
<1>9. /\ handed' \in Seq(P) /\ Len(handed') = a + m + Len(whole)
      /\ \A i \in 1 .. a + m : handed'[i] = h[i]
      /\ Len(whole) = 1 => handed'[a + m + 1] = whole[1]
  <2>1. handed' = h \o whole
    BY <1>1 DEF h
  <2>2. /\ h \o whole \in Seq(P) /\ Len(h \o whole) = Len(h) + Len(whole)
        /\ \A i \in 1 .. Len(h) : (h \o whole)[i] = h[i]
        /\ \A i \in 1 .. Len(whole) : (h \o whole)[Len(h) + i] = whole[i]
    BY <1>7, <1>8, Joined
  <2>3. Len(whole) = 1 => 1 \in 1 .. Len(whole)
    OBVIOUS
  <2> QED
    BY <1>8, <2>1, <2>2, <2>3
<1>10. DOMAIN handed' = 1 .. a + m + Len(whole)
  BY <1>9
<1>11. \A i \in 1 .. a : handed'[i] = handed[i]
  BY <1>3, <1>5, <1>8, <1>9
<1>12. ASSUME NEW i \in a + 1 .. a + m
       PROVE  i - a \in 1 .. m /\ handed'[i] = {flushing[i - a]}
  <2>1. i - a \in 1 .. m /\ i \in 1 .. a + m /\ a + (i - a) = i
    BY <1>3, <1>5
  <2> QED
    BY <1>6, <1>8, <1>9, <2>1
<1> DEFINE single == {i \in DOMAIN handed' : Cardinality(handed'[i]) = 1}
<1>13. single = a + 1 .. a + m
  <2>1. \A i \in 1 .. a : Cardinality(handed'[i]) # 1
    <3>1. ASSUME NEW i \in 1 .. a PROVE Cardinality(handed'[i]) # 1
      <4>1. Cardinality(handed[i]) >= 2 /\ handed'[i] = handed[i]
        BY <1>5, <1>11
      <4>2. handed[i] \in P
        BY <1>5 DEF a
      <4>3. Cardinality(handed[i]) \in Nat
        BY <1>1, <4>2, FiniteFrames DEF P
      <4> QED
        BY <4>1, <4>3
    <3> QED
      BY <3>1
  <2>2. \A i \in a + 1 .. a + m : Cardinality(handed'[i]) = 1
    BY <1>12, FS_Singleton
  <2>3. Len(whole) = 1 => Cardinality(handed'[a + m + 1]) # 1
    <3>1. Cardinality(W) \in Nat
      BY <1>1, FiniteFrames
    <3> QED
      BY <1>7, <1>9, <3>1
  <2>4. ASSUME NEW i \in DOMAIN handed'
        PROVE  i \in 1 .. a \/ i \in a + 1 .. a + m
               \/ (Len(whole) = 1 /\ i = a + m + 1)
    <3>1. i \in 1 .. a + m + Len(whole)
      BY <1>10
    <3>2. CASE Len(whole) = 0
      BY <1>3, <1>5, <3>1, <3>2
    <3>3. CASE Len(whole) = 1
      BY <1>3, <1>5, <3>1, <3>3
    <3> QED
      BY <1>7, <3>2, <3>3
  <2>5. a + 1 .. a + m \subseteq DOMAIN handed'
    BY <1>3, <1>5, <1>7, <1>10
  <2>6. \A i \in 1 .. a : i \notin a + 1 .. a + m
    BY <1>5
  <2> QED
    BY <2>1, <2>2, <2>3, <2>4, <2>5, <2>6
<1> HIDE DEF single
<1>14. {handed'[i] : i \in single} = {{f} : f \in W}
  <2>1. \A i \in single : \E f \in W : handed'[i] = {f}
    BY <1>3, <1>12, <1>13
  <2>2. ASSUME NEW f \in W PROVE \E i \in single : handed'[i] = {f}
    <3>1. PICK j \in 1 .. m : flushing[j] = f
      BY <1>1, <1>3 DEF ToSet
    <3>2. a + j \in single /\ (a + j) - a = j
      BY <1>3, <1>5, <1>13, <3>1
    <3> QED
      BY <1>12, <1>13, <3>1, <3>2
  <2>3. {handed'[i] : i \in single} \subseteq {{f} : f \in W}
    BY <2>1
  <2>4. {{f} : f \in W} \subseteq {handed'[i] : i \in single}
    BY <2>2
  <2> QED
    BY <2>3, <2>4
<1>15. ASSUME NEW i \in single, NEW j \in single, i < j
       PROVE  /\ handed'[i] # handed'[j]
              /\ \A f \in handed'[i], g \in handed'[j] : Ts[f] <= Ts[g]
  <2>1. /\ i - a \in 1 .. m /\ j - a \in 1 .. m /\ i - a < j - a
        /\ i - a # j - a
    BY <1>3, <1>5, <1>13, <1>15
  <2>2. handed'[i] = {flushing[i - a]} /\ handed'[j] = {flushing[j - a]}
    BY <1>12, <1>13
  <2>3. flushing[i - a] # flushing[j - a]
        /\ Ts[flushing[i - a]] <= Ts[flushing[j - a]]
    BY <1>3, <1>4, <2>1
  <2> QED
    BY <2>2, <2>3
<1> QED
  BY <1>2, <1>14, <1>15 DEF FlushHandsNewest, single, W

(* Of the frames submitted, Flush hands over exactly the newest            *)
(* maxCacheFrames, once each and in the order of their timestamps, and no  *)
(* fill goroutine that ends later adds a single frame.                     *)
THEOREM FlushHandsOver ==
  ASSUME ~PingsRepeat
  PROVE  Spec => []FlushHandsNewest
<1>1. Init => FlushHandsNewest
  BY DEF Init, FlushHandsNewest
<1>2. IInv /\ FlushHandsNewest /\ [Next]_vars => FlushHandsNewest'
  <2> SUFFICES ASSUME IInv, FlushHandsNewest, [Next]_vars
               PROVE  FlushHandsNewest'
    OBVIOUS
  <2>1. ASSUME NEW t \in fills, FillGoroutine(t) PROVE FlushHandsNewest'
    <3>1. /\ handed \in Seq(SUBSET (1 .. n)) /\ t.of \in SUBSET (1 .. n)
          /\ n \in Nat
      BY <2>1, FillSteps, Lengths DEF IInv, Shape, TypeOK
    <3>2. /\ UNCHANGED <<mu, n>>
          /\ handed' = handed \/ handed' = Append(handed, t.of)
      BY <2>1, FillSteps DEF IInv
    <3>3. Newest(MaxCacheFrames)' = Newest(MaxCacheFrames)
      BY <3>2 DEF Newest
    <3>4. CASE handed' = handed
      BY <3>2, <3>3, <3>4 DEF FlushHandsNewest
    <3>5. CASE handed' = Append(handed, t.of)
      <4>1. Cardinality(t.of) >= 2 /\ Cardinality(t.of) \in Nat
        BY <3>1, FiniteFrames DEF IInv, Snapshots
      <4>2. /\ DOMAIN handed = 1 .. Len(handed) /\ Len(handed) \in Nat
            /\ DOMAIN handed' = 1 .. Len(handed) + 1
            /\ handed'[Len(handed) + 1] = t.of
            /\ \A i \in 1 .. Len(handed) : handed'[i] = handed[i]
        BY <3>1, <3>5
      <4> DEFINE single == {i \in DOMAIN handed : Cardinality(handed[i]) = 1}
                 later == {i \in DOMAIN handed' : Cardinality(handed'[i]) = 1}
      <4>3. Cardinality(handed'[Len(handed) + 1]) # 1
        BY <4>1, <4>2
      <4>4. later = single
        BY <4>2, <4>3
      <4>5. \A i \in single : handed'[i] = handed[i]
        BY <4>2
      <4> HIDE DEF single, later
      <4>6. {handed'[i] : i \in single} = {handed[i] : i \in single}
        BY <4>5
      <4>7. mu = "done" =>
              /\ {handed[i] : i \in single} = {{f} : f \in Newest(MaxCacheFrames)}
              /\ \A i, j \in single : i < j =>
                   /\ handed[i] # handed[j]
                   /\ \A f \in handed[i], g \in handed[j] : Ts[f] <= Ts[g]
        BY DEF FlushHandsNewest, single
      <4>8. mu' = "done" =>
              /\ {handed'[i] : i \in later}
                   = {{f} : f \in Newest(MaxCacheFrames)'}
              /\ \A i, j \in later : i < j =>
                   /\ handed'[i] # handed'[j]
                   /\ \A f \in handed'[i], g \in handed'[j] : Ts[f] <= Ts[g]
        BY <3>2, <3>3, <4>4, <4>5, <4>6, <4>7
      <4> QED
        BY <4>8 DEF FlushHandsNewest, later
    <3> QED
      BY <3>2, <3>4, <3>5
  <2>2. CASE UNCHANGED vars
    BY <2>2 DEF FlushHandsNewest, Newest, vars
  <2>3. CASE \/ \E p \in Ping : SubmitFrame(p)
             \/ EvictOldest \/ SubmitReturns \/ Flush \/ FlushFill
    <3>1. mu' # "done"
      BY <2>3 DEF SubmitFrame, EvictOldest, SubmitReturns, Flush, FlushFill
    <3> QED
      BY <3>1 DEF FlushHandsNewest
  <2> QED
    BY <2>1, <2>2, <2>3, HandsNewestFlush DEF Next
<1> QED
  BY <1>1, <1>2, Invariance, PTL DEF Spec

-----------------------------------------------------------------------------
(* The refinement of FrameWindow *)

USE DEF Window!vars

LEMMA WindowFramesIs ==
  /\ mu = "free" => WindowFrames = frameHeap
  /\ mu = "submit" =>
       WindowFrames = {f \in 1 .. n - 1 : n - 1 - MaxCacheFrames < f}
  /\ mu \in {"fill", "hand", "handfilled"} => WindowFrames = ToSet(flushing)
  /\ mu = "done" => WindowFrames = {}
BY DEF WindowFrames

LEMMA WindowFramesNext ==
  /\ mu' = "free" => WindowFrames' = frameHeap'
  /\ mu' = "submit" =>
       WindowFrames' = {f \in 1 .. n' - 1 : n' - 1 - MaxCacheFrames < f}
  /\ mu' \in {"fill", "hand", "handfilled"}
       => WindowFrames' = ToSet(flushing')
  /\ mu' = "done" => WindowFrames' = {}
BY DEF WindowFrames

LEMMA RefinesInit == Init => Window!Init
<1> SUFFICES ASSUME Init PROVE Window!Init
  OBVIOUS
<1>1. WindowFrames = {}
  BY WindowFramesIs DEF Init
<1> QED
  BY <1>1 DEF Init, Window!Init, SubmittedFrames

(* SubmitFrame is under way: the window is still the one before it. *)
LEMMA RefinesSubmit ==
  ASSUME IInv, NEW p \in Ping, SubmitFrame(p)
  PROVE  UNCHANGED Window!vars
<1>1. /\ mu = "free" /\ mu' = "submit" /\ n' = n + 1
      /\ UNCHANGED <<fills, handed>>
  BY DEF SubmitFrame
<1>2. n \in Nat
  BY Lengths DEF IInv
<1>3. SubmittedFrames' = SubmittedFrames
  BY <1>1, <1>2 DEF SubmittedFrames
<1>4. WindowFrames = Newest(MaxCacheFrames)
  BY <1>1, HeapIsNewest, WindowFramesIs DEF IInv
<1>5. n' - 1 = n
  BY <1>1, <1>2
<1>6. WindowFrames' = {f \in 1 .. n : n - MaxCacheFrames < f}
  BY <1>1, <1>5, WindowFramesNext
<1> QED
  BY <1>1, <1>3, <1>4, <1>6 DEF Newest

LEMMA RefinesEvict ==
  ASSUME EvictOldest
  PROVE  UNCHANGED Window!vars
<1>1. mu = "submit" /\ UNCHANGED <<mu, n, fills, handed>>
  BY DEF EvictOldest
<1>2. SubmittedFrames' = SubmittedFrames
  BY <1>1 DEF SubmittedFrames
<1>3. WindowFrames' = WindowFrames
  BY <1>1, WindowFramesIs, WindowFramesNext
<1> QED
  BY <1>1, <1>2, <1>3

(* With the return of SubmitFrame the window moves on by one frame, and is *)
(* what a fill triggered now works on.                                     *)
LEMMA RefinesReturns ==
  ASSUME IInv, IInv', SubmitReturns
  PROVE  Window!Submit
<1>1. /\ mu = "submit" /\ mu' = "free"
      /\ UNCHANGED <<n, frameHeap, handed>>
  BY DEF SubmitReturns
<1>2. n \in Nat
  BY Lengths DEF IInv
<1>3. SubmittedFrames = n - 1 /\ SubmittedFrames' = n
  BY <1>1 DEF SubmittedFrames
<1>4. WindowFrames' = frameHeap'
  BY <1>1, WindowFramesNext
<1>5. frameHeap' = {f \in 1 .. n : n - MaxCacheFrames < f}
  <2>1. InStep' /\ Filled'
    BY <1>1 DEF IInv, Ordered
  <2>2. /\ frameHeap' = {f \in 1 .. n' : n' - Len(frameOrder') < f}
        /\ Len(frameOrder') <= MaxCacheFrames
        /\ Len(frameOrder') \in {n', MaxCacheFrames}
        /\ Len(frameOrder') \in Nat
    BY <1>1, <2>1, ReorganizerAssumption
    DEF InStep, Filled, Newest, IInv, Shape, TypeOK
  <2> QED
    BY <1>1, <1>2, <2>2, ReorganizerAssumption
<1>6. \/ fills' = fills
      \/ fills' = fills \cup {[of |-> frameHeap', pc |-> "fill"]}
  BY <1>1 DEF SubmitReturns
<1>7. \/ {t.of : t \in fills'} = {t.of : t \in fills}
      \/ {t.of : t \in fills'} = {t.of : t \in fills} \cup {frameHeap'}
  <2> DEFINE new == [of |-> frameHeap', pc |-> "fill"]
  <2>1. new.of = frameHeap'
    OBVIOUS
  <2> HIDE DEF new
  <2>2. fills' = fills \/ fills' = fills \cup {new}
    BY <1>6 DEF new
  <2> QED
    BY <2>1, <2>2
<1>8. SubmittedFrames' = SubmittedFrames + 1
  BY <1>2, <1>3
<1>9. WindowFrames' = {f \in 1 .. SubmittedFrames + 1 :
                         SubmittedFrames + 1 - MaxCacheFrames < f}
  <2>1. SubmittedFrames \in Int /\ SubmittedFrames + 1 = n
    BY <1>2, <1>3
  <2> QED
    BY <1>2, <1>4, <1>5, <2>1, ReorganizerAssumption
<1>10. \/ {t.of : t \in fills}' = {t.of : t \in fills}
       \/ {t.of : t \in fills}' = {t.of : t \in fills} \cup {WindowFrames'}
  BY <1>4, <1>7
<1>11. ~(mu = "done") /\ UNCHANGED <<handed, mu = "done">>
  BY <1>1
<1> QED
  BY <1>8, <1>9, <1>10, <1>11 DEF Window!Submit

(* A fill goroutine moves on, or ends with or without points. *)
LEMMA RefinesFill ==
  ASSUME IInv, NEW t \in fills, FillGoroutine(t)
  PROVE  Window!EndFill \/ UNCHANGED Window!vars
<1>1. UNCHANGED <<n, frameHeap, mu, flushing>>
  BY FillSteps DEF IInv
<1>2. SubmittedFrames' = SubmittedFrames /\ WindowFrames' = WindowFrames
  BY <1>1 DEF SubmittedFrames, WindowFrames
<1>3. CASE /\ fills' = fills \ {t}
           /\ handed' = handed \/ handed' = Append(handed, t.of)
  <2>1. \A u \in fills \ {t} : u.of # t.of
    BY DEF IInv, Snapshots
  <2>2. {u.of : u \in fills'} = {u.of : u \in fills} \ {t.of}
    BY <1>3, <2>1
  <2>3. t.of \in {u.of : u \in fills}
    OBVIOUS
  <2> QED
    BY <1>1, <1>2, <1>3, <2>2, <2>3 DEF Window!EndFill
<1>4. CASE /\ handed' = handed
           /\ \E pc \in Pc :
                fills' = (fills \ {t}) \cup {[of |-> t.of, pc |-> pc]}
  <2>1. PICK pc \in Pc :
          fills' = (fills \ {t}) \cup {[of |-> t.of, pc |-> pc]}
    BY <1>4
  <2> DEFINE w == [of |-> t.of, pc |-> pc]
  <2>2. w.of = t.of
    OBVIOUS
  <2> HIDE DEF w
  <2>3. fills' = (fills \ {t}) \cup {w}
    BY <2>1 DEF w
  <2>4. {u.of : u \in fills'} = {u.of : u \in fills}
    BY <2>2, <2>3
  <2> QED
    BY <1>1, <1>2, <1>4, <2>4
<1> QED
  BY <1>3, <1>4, FillSteps DEF IInv

(* Flush has taken the frames: they are the window still. *)
LEMMA RefinesFlush ==
  ASSUME IInv, Flush \/ FlushFill
  PROVE  UNCHANGED Window!vars
<1>1. UNCHANGED <<n, fills, handed>>
  BY DEF Flush, FlushFill
<1>2. mu # "submit" /\ mu # "done" /\ mu' # "submit" /\ mu' # "done"
  BY DEF Flush, FlushFill
<1>3. SubmittedFrames' = SubmittedFrames
  BY <1>1, <1>2 DEF SubmittedFrames
<1>4. CASE Flush
  <2>1. /\ mu = "free" /\ mu' \in {"fill", "hand"}
        /\ flushing' \in SetToSeqs(frameHeap)
    BY <1>4 DEF Flush, Sorted
  <2>2. n \in Nat /\ frameHeap \in SUBSET (1 .. n)
    BY Lengths DEF IInv, Shape, TypeOK
  <2>3. ToSet(flushing') = frameHeap
    BY <2>1, <2>2, PoppedAll
  <2>4. WindowFrames' = WindowFrames
    BY <2>1, <2>3, WindowFramesIs, WindowFramesNext
  <2> QED
    BY <1>1, <1>2, <1>3, <2>4
<1>5. CASE FlushFill
  <2>1. /\ mu = "fill" /\ mu' \in {"hand", "handfilled"}
        /\ flushing' = flushing
    BY <1>5 DEF FlushFill
  <2>2. WindowFrames' = WindowFrames
    BY <2>1, WindowFramesIs, WindowFramesNext
  <2> QED
    BY <1>1, <1>2, <1>3, <2>2
<1> QED
  BY <1>4, <1>5

LEMMA RefinesFlushReturns ==
  ASSUME IInv, FlushReturns
  PROVE  Window!Close
<1>1. /\ mu \in {"hand", "handfilled"} /\ mu' = "done" /\ n' = n
      /\ flushing \in Sorted(Newest(MaxCacheFrames))
      /\ flushing \in SetToSeqs(Newest(MaxCacheFrames))
      /\ ToSet(flushing) = Newest(MaxCacheFrames)
      /\ handed' = handed \o [i \in DOMAIN flushing |-> {flushing[i]}]
                     \o (IF mu = "hand" THEN <<>> ELSE <<ToSet(flushing)>>)
  BY FlushPieces
<1>2. WindowFrames = ToSet(flushing) /\ WindowFrames' = {}
  BY <1>1, WindowFramesIs, WindowFramesNext
<1>3. SubmittedFrames' = SubmittedFrames /\ fills' = fills
  BY <1>1 DEF SubmittedFrames, FlushReturns
<1>4. Window!ByTime(flushing)
  BY <1>1 DEF Sorted, Window!ByTime
<1>5. PICK filled \in {<<>>, <<WindowFrames>>} :
        handed' = handed \o [i \in DOMAIN flushing |-> {flushing[i]}] \o filled
  BY <1>1, <1>2
<1>6. flushing \in Window!SetToSeqs(WindowFrames)
  <2>1. Window!SetToSeqs(WindowFrames) = SetToSeqs(WindowFrames)
    <3>1. Window!Cardinality(WindowFrames) = Cardinality(WindowFrames)
      BY Zenon DEF Cardinality, Window!Cardinality
    <3> QED
      BY <3>1 DEF SetToSeqs, Window!SetToSeqs
  <2>2. WindowFrames = Newest(MaxCacheFrames)
    BY <1>1, <1>2
  <2> QED
    BY <1>1, <2>1, <2>2
<1>7. \E q \in Window!SetToSeqs(WindowFrames), f \in {<<>>, <<WindowFrames>>} :
        /\ Window!ByTime(q)
        /\ handed' = handed \o [i \in DOMAIN q |-> {q[i]}] \o f
  BY <1>4, <1>5, <1>6
<1>8. ~(mu = "done") /\ (mu = "done")' = TRUE
  BY <1>1
<1>9. UNCHANGED <<SubmittedFrames, {t.of : t \in fills}>>
  BY <1>3
<1> QED
  BY <1>2, <1>7, <1>8, <1>9 DEF Window!Close

(* Map, heap, list, mutex and goroutines implement FrameWindow, a window   *)
(* of the newest frames, if no ping counter comes again while it is        *)
(* cached: every fill works on the window as it was when it was triggered  *)
(* and is handed over at most once, and Flush hands over the window by     *)
(* time.                                                                   *)
THEOREM Refinement ==
  ASSUME ~PingsRepeat
  PROVE  Spec => ImplementsFrameWindow
<1>1. IInv /\ IInv' /\ [Next]_vars => [Window!Next]_(Window!vars)
  <2> SUFFICES ASSUME IInv, IInv', [Next]_vars
               PROVE  Window!Next \/ UNCHANGED Window!vars
    OBVIOUS
  <2>1. CASE UNCHANGED vars
    BY <2>1 DEF vars, SubmittedFrames, WindowFrames
  <2> QED
    BY <2>1, RefinesSubmit, RefinesEvict, RefinesReturns, RefinesFill,
       RefinesFlush, RefinesFlushReturns DEF Next, Window!Next
<1> QED
  BY <1>1, RefinesInit, Invariance, PTL
  DEF Spec, ImplementsFrameWindow, Window!Spec

-----------------------------------------------------------------------------
(* The loop of evictions *)

(* Every counter in the map is in frameOrder, also one that came again. *)
Listed == DOMAIN cache \subseteq ToSet(frameOrder)

LEMMA ListedStep ==
  ASSUME Shape, Listed, [Next]_vars
  PROVE  Listed'
<1>0. frameOrder \in Seq(Ping)
  BY DEF Shape, TypeOK
<1>1. CASE UNCHANGED <<cache, frameOrder>>
  BY <1>1 DEF Listed
<1>2. ASSUME NEW p \in Ping, SubmitFrame(p) PROVE Listed'
  <2>1. DOMAIN cache' = DOMAIN cache \cup {p}
    BY <1>2 DEF SubmitFrame
  <2>2. frameOrder' = Append(frameOrder, p)
    BY <1>2 DEF SubmitFrame
  <2> DEFINE l == Len(frameOrder)
  <2>3. /\ l \in Nat /\ DOMAIN frameOrder = 1 .. l
        /\ DOMAIN frameOrder' = 1 .. l + 1
        /\ frameOrder'[l + 1] = p
        /\ \A i \in 1 .. l : frameOrder'[i] = frameOrder[i]
    BY <1>0, <2>2
  <2> HIDE DEF l
  <2>4. p \in ToSet(frameOrder')
    BY <2>3 DEF ToSet
  <2>5. \A i \in DOMAIN frameOrder : i \in DOMAIN frameOrder'
    BY <2>3
  <2>6. ToSet(frameOrder) \subseteq ToSet(frameOrder')
    BY <2>3, <2>5 DEF ToSet
  <2> QED
    BY <2>1, <2>4, <2>6 DEF Listed
<1>3. CASE EvictOldest
  <2>1. /\ frameOrder # <<>> /\ frameOrder' = Tail(frameOrder)
        /\ DOMAIN cache' = DOMAIN cache \ {Head(frameOrder)}
    BY <1>3 DEF EvictOldest
  <2> DEFINE l == Len(frameOrder)
  <2>2. /\ l \in Nat /\ DOMAIN frameOrder = 1 .. l
        /\ DOMAIN frameOrder' = 1 .. l - 1
        /\ Head(frameOrder) = frameOrder[1]
        /\ \A i \in 1 .. l - 1 : frameOrder'[i] = frameOrder[i + 1]
    BY <1>0, <2>1
  <2> HIDE DEF l
  <2>3. ASSUME NEW i \in 1 .. l, i # 1
        PROVE  frameOrder[i] \in ToSet(frameOrder')
    <3>1. i - 1 \in 1 .. l - 1 /\ (i - 1) + 1 = i
      BY <2>2, <2>3
    <3>2. frameOrder'[i - 1] = frameOrder[i] /\ i - 1 \in DOMAIN frameOrder'
      BY <2>2, <3>1
    <3> QED
      BY <3>2 DEF ToSet
  <2>4. ToSet(frameOrder) \ {Head(frameOrder)} \subseteq ToSet(frameOrder')
    BY <2>2, <2>3 DEF ToSet
  <2> QED
    BY <2>1, <2>4 DEF Listed
<1>4. CASE Flush
  <2>1. DOMAIN cache' = {}
    BY <1>4 DEF Flush
  <2> QED
    BY <2>1 DEF Listed
<1>5. CASE SubmitReturns \/ FlushFill \/ FlushReturns \/ UNCHANGED vars
  BY <1>1, <1>5 DEF SubmitReturns, FlushFill, FlushReturns, vars
<1>6. ASSUME NEW t \in fills, FillGoroutine(t) PROVE Listed'
  BY <1>1, <1>6, FillSteps
<1> QED
  BY <1>2, <1>3, <1>4, <1>5, <1>6 DEF Next

(* A cache over its limit is not empty, and so is the list. *)
LEMMA NeverOut ==
  ASSUME Shape, Listed, Overfull
  PROVE  frameOrder # <<>>
<1> SUFFICES ASSUME frameOrder = <<>> PROVE FALSE
  OBVIOUS
<1>1. ToSet(frameOrder) = {}
  BY DEF ToSet
<1>2. DOMAIN cache = {}
  BY <1>1 DEF Listed
<1>3. Cardinality(DOMAIN cache) = 0
  BY <1>2, FS_EmptySet
<1> QED
  BY <1>3, ReorganizerAssumption DEF Overfull

(* The loop of evictions in SubmitFrame ends, also when a ping counter     *)
(* comes again while it is cached: as long as the cache is over its limit  *)
(* there is a counter to evict, each eviction takes one off the list, and  *)
(* what goroutines do meanwhile leaves cache and list alone.               *)
THEOREM EvictionEnds ==
  Spec => /\ [](mu = "submit" /\ Overfull => frameOrder # <<>>)
          /\ [][mu = "submit" =>
                  \/ mu' = "free"
                  \/ mu' = mu /\ Len(frameOrder') < Len(frameOrder)
                  \/ UNCHANGED <<mu, cache, frameOrder>>]_vars
<1>1. Init => Listed
  BY DEF Init, Listed
<1>2. Spec => [](Shape /\ Listed)
  BY <1>1, ShapeInit, ShapeStep, ListedStep, PTL DEF Spec
<1>3. Shape /\ Listed => (mu = "submit" /\ Overfull => frameOrder # <<>>)
  BY NeverOut
<1>4. ASSUME Shape, Next, mu = "submit"
      PROVE  \/ mu' = "free"
             \/ mu' = mu /\ Len(frameOrder') < Len(frameOrder)
             \/ UNCHANGED <<mu, cache, frameOrder>>
  <2>1. CASE EvictOldest
    <3>1. frameOrder \in Seq(Ping)
      BY <1>4 DEF Shape, TypeOK
    <3>2. /\ frameOrder # <<>> /\ frameOrder' = Tail(frameOrder)
          /\ UNCHANGED mu
      BY <2>1 DEF EvictOldest
    <3>3. Len(Tail(frameOrder)) = Len(frameOrder) - 1
          /\ Len(frameOrder) \in Nat
      BY <3>1, <3>2, HeadTailProperties
    <3>4. Len(frameOrder') < Len(frameOrder)
      <4>1. Len(frameOrder') = Len(Tail(frameOrder))
        BY <3>2
      <4> QED
        BY <3>3, <4>1
    <3> QED
      BY <3>2, <3>4
  <2>2. CASE SubmitReturns
    BY <2>2 DEF SubmitReturns
  <2>3. ASSUME NEW t \in fills, FillGoroutine(t)
        PROVE  UNCHANGED <<mu, cache, frameOrder>>
    BY <1>4, <2>3, FillSteps
  <2> QED
    BY <1>4, <2>1, <2>2, <2>3
    DEF Next, SubmitFrame, Flush, FlushFill, FlushReturns
<1>5. Shape /\ Listed /\ [Next]_vars =>
        [mu = "submit" =>
           \/ mu' = "free"
           \/ mu' = mu /\ Len(frameOrder') < Len(frameOrder)
           \/ UNCHANGED <<mu, cache, frameOrder>>]_vars
  BY <1>4
<1> QED
  BY <1>2, <1>3, <1>5, PTL DEF Spec
=============================================================================
