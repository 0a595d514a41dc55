---------------------------- MODULE Reorganizer ----------------------------
(***************************************************************************)
(* The frame cache in front of the void filler and the store               *)
(* (internal/pointcloud): the receiving goroutines submit frames under     *)
(* r.mu, every fillEveryNFrames frames a goroutine fills a snapshot of the *)
(* cache, and Flush empties the cache at shutdown.  r.mu is held through   *)
(* all the steps of one SubmitFrame and of Flush.                          *)
(*                                                                         *)
(* Frames are numbered in the order they are submitted (frames without     *)
(* points are turned away at once and left out).  What the filler does     *)
(* with a snapshot is not modelled: it returns points, or an error.        *)
(*                                                                         *)
(* A definition whose comment begins with `Defect' is not part of Next: it *)
(* is a mistake the definition after it might have had, and is there to    *)
(* show that a property notices it.                                        *)
(***************************************************************************)
EXTENDS Integers, FiniteSets, Sequences, SequencesExt

CONSTANTS
  NFrames,           \* bound of the model: frames submitted in a behaviour
  Ping,              \* the ping counters (uint16 in the code)
  Ts,                \* the timestamp of each frame
  MaxCacheFrames,    \* maxCacheFrames
  FillEveryNFrames,  \* fillEveryNFrames
  PingsRepeat        \* a ping counter may come again while it is cached, as
                     \* when two sonars or two links deliver it

ASSUME ReorganizerAssumption ==
  /\ NFrames \in Nat
  /\ Ts \in [1..NFrames -> Nat]
  /\ MaxCacheFrames \in Nat /\ FillEveryNFrames \in Nat \ {0}
  /\ PingsRepeat \in BOOLEAN

Frame == 1..NFrames

VARIABLES
  n,                \* frames submitted so far
  ping,             \* the ping counter of each of them
  cache,            \* r.cache: ping counter -> frame
  frameHeap,        \* the frames in r.frameHeap
  frameOrder,       \* r.frameOrder: ping counters, oldest first
  framesSinceFill,  \* r.framesSinceFill
  mu,               \* what r.mu is held for: "free", "submit", "fill"
                    \* (Flush, inside the filler), "hand" or "handfilled"
                    \* (Flush, after it), "done" (Flush has returned)
  flushing,         \* the frames Flush took, earliest first
  fills,            \* fill goroutines: the snapshot and where they stand
  filledPoints,     \* the snapshot r.filledPoints was made from, or {}
  handed            \* what onReadyFrames was given, in order: for each
                    \* frame the set of submitted frames it is made of

vars == <<n, ping, cache, frameHeap, frameOrder, framesSinceFill, mu,
          flushing, fills, filledPoints, handed>>

Init ==
  /\ n = 0
  /\ ping = <<>>
  /\ cache = <<>>
  /\ frameHeap = {}
  /\ frameOrder = <<>>
  /\ framesSinceFill = 0
  /\ mu = "free"
  /\ flushing = <<>>
  /\ fills = {}
  /\ filledPoints = {}
  /\ handed = <<>>

(* The newest k frames submitted. *)
Newest(k) == {f \in 1..n : n - k < f}

-----------------------------------------------------------------------------
(* SubmitFrame *)

(* A sonar's own counter repeats only once that frame has been evicted.    *)
Fresh(p) == \A f \in Newest(MaxCacheFrames) : ping[f] # p

(* Defect: the counter is not entered in frameOrder. *)
SubmitUnordered(p) ==
  /\ mu = "free"
  /\ n < NFrames
  /\ PingsRepeat \/ Fresh(p)
  /\ n' = n + 1
  /\ ping' = Append(ping, p)
  /\ cache' = [q \in DOMAIN cache \cup {p} |->
                 IF q = p THEN n + 1 ELSE cache[q]]
  /\ frameHeap' = frameHeap \cup {n + 1}
  /\ mu' = "submit"
  /\ UNCHANGED <<frameOrder, framesSinceFill, flushing, fills, filledPoints,
                 handed>>

SubmitFrame(p) ==
  /\ mu = "free"
  /\ n < NFrames
  /\ PingsRepeat \/ Fresh(p)
  /\ n' = n + 1
  /\ ping' = Append(ping, p)
  /\ cache' = [q \in DOMAIN cache \cup {p} |->
                 IF q = p THEN n + 1 ELSE cache[q]]
  /\ frameHeap' = frameHeap \cup {n + 1}
  /\ frameOrder' = Append(frameOrder, p)
  /\ mu' = "submit"
  /\ UNCHANGED <<framesSinceFill, flushing, fills, filledPoints, handed>>

Overfull == Cardinality(DOMAIN cache) > MaxCacheFrames

(* Defect: the frame stays in the heap. *)
EvictKeepingHeap ==
  /\ mu = "submit" /\ Overfull
  /\ frameOrder # <<>>
  /\ frameOrder' = Tail(frameOrder)
  /\ cache' = [q \in DOMAIN cache \ {Head(frameOrder)} |-> cache[q]]
  /\ UNCHANGED <<n, ping, frameHeap, framesSinceFill, mu, flushing, fills,
                 filledPoints, handed>>

(* Defect: the frame evicted is the earliest by its own clock. *)
EvictEarliest ==
  /\ mu = "submit" /\ Overfull
  /\ \E f \in frameHeap :
       /\ \A g \in frameHeap : Ts[f] <= Ts[g]
       /\ cache' = [q \in DOMAIN cache \ {ping[f]} |-> cache[q]]
       /\ frameHeap' = frameHeap \ {f}
       /\ frameOrder' = SelectSeq(frameOrder, LAMBDA q : q # ping[f])
  /\ UNCHANGED <<n, ping, framesSinceFill, mu, flushing, fills, filledPoints,
                 handed>>

(* evictOldestLocked, called until the cache is within its limit. *)
EvictOldest ==
  /\ mu = "submit" /\ Overfull
  /\ frameOrder # <<>>
  /\ LET oldest == Head(frameOrder)
     IN /\ frameOrder' = Tail(frameOrder)
        /\ cache' = [q \in DOMAIN cache \ {oldest} |-> cache[q]]
        /\ frameHeap' = IF oldest \in DOMAIN cache
                          THEN frameHeap \ {cache[oldest]} ELSE frameHeap
  /\ UNCHANGED <<n, ping, framesSinceFill, mu, flushing, fills, filledPoints,
                 handed>>

(* Defect: framesSinceFill is not set back after a fill. *)
SubmitReturnsUncleared ==
  /\ mu = "submit" /\ ~Overfull
  /\ mu' = "free"
  /\ framesSinceFill' = framesSinceFill + 1
  /\ fills' = IF framesSinceFill + 1 >= FillEveryNFrames
                THEN fills \cup {[of |-> frameHeap, pc |-> "fill"]} ELSE fills
  /\ UNCHANGED <<n, ping, cache, frameHeap, frameOrder, flushing,
                 filledPoints, handed>>

(* The rest of SubmitFrame: every so often a snapshot goes to the filler,  *)
(* if it holds two frames.                                                 *)
SubmitReturns ==
  /\ mu = "submit" /\ ~Overfull
  /\ mu' = "free"
  /\ LET due == framesSinceFill + 1 >= FillEveryNFrames
     IN /\ framesSinceFill' = IF due THEN 0 ELSE framesSinceFill + 1
        /\ fills' = IF due /\ Cardinality(frameHeap) >= 2
                      THEN fills \cup {[of |-> frameHeap, pc |-> "fill"]}
                      ELSE fills
  /\ UNCHANGED <<n, ping, cache, frameHeap, frameOrder, flushing,
                 filledPoints, handed>>

-----------------------------------------------------------------------------
(* The goroutine of triggerFillLocked.  Its snapshot was taken under r.mu; *)
(* it goes on without it.                                                  *)

Moves(t, to) == fills' = (fills \ {t}) \cup {[t EXCEPT !.pc = to]}

FillFails(t) ==
  /\ t.pc = "fill"
  /\ fills' = fills \ {t}
  /\ UNCHANGED <<n, ping, cache, frameHeap, frameOrder, framesSinceFill, mu,
                 flushing, filledPoints, handed>>

FillReturns(t) ==
  /\ t.pc = "fill"
  /\ Moves(t, "store")
  /\ UNCHANGED <<n, ping, cache, frameHeap, frameOrder, framesSinceFill, mu,
                 flushing, filledPoints, handed>>

StoreFilled(t) ==
  /\ t.pc = "store"
  /\ Moves(t, "hand")
  /\ filledPoints' = t.of
  /\ UNCHANGED <<n, ping, cache, frameHeap, frameOrder, framesSinceFill, mu,
                 flushing, handed>>

HandFilled(t) ==
  /\ t.pc = "hand"
  /\ fills' = fills \ {t}
  /\ handed' = Append(handed, t.of)
  /\ UNCHANGED <<n, ping, cache, frameHeap, frameOrder, framesSinceFill, mu,
                 flushing, filledPoints>>

FillGoroutine(t) ==
  FillFails(t) \/ FillReturns(t) \/ StoreFilled(t) \/ HandFilled(t)

-----------------------------------------------------------------------------
(* Flush, which Gateway.Stop calls once the receivers have stopped. *)

(* The orders in which popping a heap may yield the frames of s: frames of *)
(* one timestamp come in any order.                                        *)
Sorted(s) ==
  {q \in SetToSeqs(s) : \A i, j \in DOMAIN q : i < j => Ts[q[i]] <= Ts[q[j]]}

(* Defect: the heap's slice is taken as it stands. *)
FlushUnsorted ==
  /\ mu = "free"
  /\ flushing' \in SetToSeqs(frameHeap)
  /\ cache' = <<>>
  /\ frameHeap' = {}
  /\ frameOrder' = <<>>
  /\ mu' = IF Cardinality(frameHeap) >= 2 THEN "fill" ELSE "hand"
  /\ UNCHANGED <<n, ping, framesSinceFill, fills, filledPoints, handed>>

Flush ==
  /\ mu = "free"
  /\ flushing' \in Sorted(frameHeap)
  /\ cache' = <<>>
  /\ frameHeap' = {}
  /\ frameOrder' = <<>>
  /\ mu' = IF Cardinality(frameHeap) >= 2 THEN "fill" ELSE "hand"
  /\ UNCHANGED <<n, ping, framesSinceFill, fills, filledPoints, handed>>

(* Still under r.mu, the filler returns points, or an error. *)
FlushFill ==
  /\ mu = "fill"
  /\ \/ mu' = "handfilled" /\ filledPoints' = ToSet(flushing)
     \/ mu' = "hand" /\ filledPoints' = filledPoints
  /\ UNCHANGED <<n, ping, cache, frameHeap, frameOrder, framesSinceFill,
                 flushing, fills, handed>>

FlushReturns ==
  /\ mu \in {"hand", "handfilled"}
  /\ mu' = "done"
  /\ handed' = handed \o [i \in DOMAIN flushing |-> {flushing[i]}]
                    \o (IF mu = "hand" THEN <<>> ELSE <<ToSet(flushing)>>)
  /\ UNCHANGED <<n, ping, cache, frameHeap, frameOrder, framesSinceFill,
                 flushing, fills, filledPoints>>

-----------------------------------------------------------------------------

Next ==
  \/ \E p \in Ping : SubmitFrame(p)
  \/ EvictOldest \/ SubmitReturns
  \/ \E t \in fills : FillGoroutine(t)
  \/ Flush \/ FlushFill \/ FlushReturns

Spec == Init /\ [][Next]_vars

(* A goroutine inside SubmitFrame runs on; nothing else has to happen. *)
FairSpec == Spec /\ WF_vars(EvictOldest \/ SubmitReturns)

-----------------------------------------------------------------------------

TypeOK ==
  /\ n \in 0..NFrames
  /\ ping \in Seq(Ping) /\ Len(ping) = n
  /\ DOMAIN cache \subseteq Ping /\ \A p \in DOMAIN cache : cache[p] \in 1..n
  /\ frameHeap \subseteq 1..n
  /\ frameOrder \in Seq(Ping)
  /\ framesSinceFill \in 0..(FillEveryNFrames - 1)
  /\ mu \in {"free", "submit", "fill", "hand", "handfilled", "done"}
  /\ flushing \in Seq(1..n)
  /\ \A t \in fills : t.of \subseteq 1..n /\ t.pc \in {"fill", "store", "hand"}
  /\ filledPoints \subseteq 1..n
  /\ handed \in Seq(SUBSET (1..n))

(* Between calls the map and the heap hold the same frames, the newest     *)
(* maxCacheFrames submitted, whatever their timestamps and also when the   *)
(* ping counter wraps.                                                     *)
CacheIsNewest ==
  mu = "free" =>
    /\ {cache[p] : p \in DOMAIN cache} = Newest(MaxCacheFrames)
    /\ frameHeap = Newest(MaxCacheFrames)

(* A frame counts as submitted when SubmitFrame lets go of r.mu, and the   *)
(* cache is open until Flush does.                                         *)
SubmittedFrames == IF mu = "submit" THEN n - 1 ELSE n

WindowFrames ==
  CASE mu = "free" -> frameHeap
    [] mu = "submit" -> {f \in 1 .. n - 1 : n - 1 - MaxCacheFrames < f}
    [] mu \in {"fill", "hand", "handfilled"} -> ToSet(flushing)
    [] mu = "done" -> {}

Window == INSTANCE FrameWindow WITH
  Size <- MaxCacheFrames, n <- SubmittedFrames, window <- WindowFrames,
  filling <- {t.of : t \in fills}, out <- handed, closed <- mu = "done"

(* Map, heap, list and mutex together are a window of the newest frames:   *)
(* every fill works on the window as it was when it was triggered, with    *)
(* none missing in between and none left over from before, is handed over  *)
(* once or not at all, and Flush hands over the window in order of time.   *)
ImplementsFrameWindow == Window!Spec

(* Of the frames submitted, shutdown hands over exactly the newest         *)
(* maxCacheFrames, once each and ordered by their timestamps, whether or   *)
(* not the filler failed and whatever fill goroutines are still running.   *)
FlushHandsNewest ==
  LET single == {i \in DOMAIN handed : Cardinality(handed[i]) = 1}
  IN mu = "done" =>
       /\ {handed[i] : i \in single} = {{f} : f \in Newest(MaxCacheFrames)}
       /\ \A i, j \in single : i < j =>
            /\ handed[i] # handed[j]
            /\ \A f \in handed[i], g \in handed[j] : Ts[f] <= Ts[g]

(* SubmitFrame returns: its loop of evictions never runs out of counters   *)
(* while the cache is over its limit.                                      *)
SubmitTerminates == mu = "submit" ~> mu # "submit"

(* "Frame cache: %d frames": what is kept of past frames, and handed to    *)
(* every fill, is within the limit of the configuration.                   *)
HeapBounded == mu = "free" => Cardinality(frameHeap) <= MaxCacheFrames
=============================================================================
