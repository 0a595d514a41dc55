--------------------------- MODULE GatewayProofs ---------------------------
(***************************************************************************)
(* Proofs about Gateway, for any number of connection handlers, pings and  *)
(* frames in the cache: the type invariant, that the Redis client is       *)
(* closed after the last link and the last frame (HubOutlivesLinks), and   *)
(* that a gateway that has stopped has handed over the newest frames       *)
(* (NothingLeftBehind); and what StopEndsOrHangs rests on: whoever Stop    *)
(* waits for can move or has locked itself (OnlySelfLocks), and the links  *)
(* wind down (LinksWindDown).                                              *)
(***************************************************************************)
EXTENDS Gateway, TLAPS

Pc == {"read", "publish", "process", "submit", "blocked", "exited"}

(* The types that the steps need: sequences of frames, records. *)
Shape ==
  /\ at \in [Receiver -> [pc : Pc, ping : Nat]]
  /\ open \subseteq Receiver
  /\ insSeen \in BOOLEAN
  /\ pings \in 0 .. NPings
  /\ \A r \in Receiver : at[r].ping <= pings
  /\ cache \in Seq(Nat) /\ submitted \in Seq(Nat) /\ flushing \in Seq(Nat)
  /\ sinceFill \in 0 .. (FillEveryNFrames - 1)
  /\ fills \subseteq [of : Seq(Nat), pc : {"lock", "fill", "hand"}]

(* The order in which Stop takes the links down: a link whose Stop has     *)
(* begun is not running, and one whose Stop has returned has no goroutine. *)
LinksUp == {"running", "tcp", "await tcp", "udp", "await udp", "ins",
            "await ins"}

Phase == LinksUp \cup {"flush", "flushing", "handing", "disconnect", "stats",
                       "stopped"}

Down ==
  /\ stop \in Phase
  /\ stop \notin {"running", "tcp"} => open \cap Handler = {}
  /\ stop \notin {"running", "tcp", "await tcp"} => Exited(Handler)
  /\ stop \notin {"running", "tcp", "await tcp", "udp"} => Udp \notin open
  /\ stop \notin {"running", "tcp", "await tcp", "udp", "await udp"}
       => Exited({Udp})
  /\ stop \notin (LinksUp \ {"await ins"}) => Ins \notin open
  /\ stop \notin LinksUp => Exited({Ins})
  /\ hub = IF stop \in {"stats", "stopped"} THEN "closed" ELSE "open"

(* Frame i is one of the newest maxCacheFrames. *)
IsNewest(i) == i \in 1 .. Len(submitted) /\ i > Len(submitted) - MaxCacheFrames

(* Where the newest frames are: in the cache until Flush takes them, then  *)
(* handed over or in Flush's hands.  The cache holds no others.            *)
Kept ==
  /\ Len(cache) <= MaxCacheFrames /\ Len(cache) <= Len(submitted)
  /\ \A i \in 1 .. Len(cache) :
       cache[i] = submitted[Len(submitted) - Len(cache) + i]
  /\ stop \in LinksUp \cup {"flush"} =>
       Len(cache) = MaxCacheFrames \/ Len(cache) = Len(submitted)
  /\ stop \notin LinksUp \cup {"flush"} =>
       /\ cache = <<>>
       /\ \A i \in 1 .. Len(submitted) :
            IsNewest(i) => submitted[i] \in handed \cup ToSet(flushing)
  /\ stop \notin {"flushing", "handing"} => flushing = <<>>

(* Nothing but submitted frames is handed over or filled. *)
OnlySubmitted ==
  /\ ToSet(flushing) \subseteq ToSet(submitted)
  /\ handed \subseteq ToSet(submitted)
  /\ \A t \in fills : ToSet(t.of) \subseteq ToSet(submitted)

IInv == Shape /\ Down /\ Kept /\ OnlySubmitted

USE DEF sonarVars, cacheVars, fillVars, hubVars, stopVars, Takes

-----------------------------------------------------------------------------
(* What the operators on sequences do *)

(* A suffix, element by element. *)
LEMMA SuffixIs ==
  ASSUME NEW s \in Seq(Nat), NEW t \in Seq(Nat), Len(s) <= Len(t),
         \A i \in 1 .. Len(s) : s[i] = t[Len(t) - Len(s) + i]
  PROVE  IsSuffix(s, t)
<1> DEFINE rs == Reverse(s)  rt == Reverse(t)
<1>1. /\ rs \in Seq(Nat) /\ Len(rs) = Len(s)
      /\ rt \in Seq(Nat) /\ Len(rt) = Len(t)
  BY DEF Reverse
<1>2. \A i \in 1 .. Len(s) : rs[i] = rt[i]
  BY DEF Reverse
<1> HIDE DEF rs, rt
<1>3. SubSeq(rs, 1, Len(rs)) = SubSeq(rt, 1, Len(rs))
  BY <1>1, <1>2
<1> QED
  BY <1>1, <1>3 DEF IsSuffix, IsPrefix, rs, rt

LEMMA SuffixToSet ==
  ASSUME NEW s \in Seq(Nat), NEW t \in Seq(Nat), Len(s) <= Len(t),
         \A i \in 1 .. Len(s) : s[i] = t[Len(t) - Len(s) + i]
  PROVE  ToSet(s) \subseteq ToSet(t)
<1>1. /\ DOMAIN s = 1 .. Len(s) /\ Len(s) \in Nat
      /\ DOMAIN t = 1 .. Len(t) /\ Len(t) \in Nat
  OBVIOUS
<1>2. \A i \in DOMAIN s : Len(t) - Len(s) + i \in DOMAIN t
  BY <1>1
<1> QED
  BY <1>1, <1>2 DEF ToSet

LEMMA ToSetAppend ==
  ASSUME NEW s \in Seq(Nat), NEW x \in Nat
  PROVE  ToSet(Append(s, x)) = ToSet(s) \cup {x}
<1> DEFINE a == Append(s, x)
<1>1. a \in Seq(Nat) /\ Len(a) = Len(s) + 1 /\ Len(s) \in Nat
  OBVIOUS
<1>2. a[Len(s) + 1] = x /\ \A i \in 1 .. Len(s) : a[i] = s[i]
  OBVIOUS
<1> HIDE DEF a
<1>3. DOMAIN a = 1 .. Len(s) + 1 /\ DOMAIN s = 1 .. Len(s)
  BY <1>1
<1> QED
  BY <1>1, <1>2, <1>3 DEF ToSet, a

LEMMA ToSetHeadTail ==
  ASSUME NEW s \in Seq(Nat), s # <<>>
  PROVE  ToSet(s) = {Head(s)} \cup ToSet(Tail(s))
<1> DEFINE t == Tail(s)
<1>1. t \in Seq(Nat) /\ Len(t) = Len(s) - 1 /\ Len(s) \in Nat \ {0}
  OBVIOUS
<1>2. Head(s) = s[1] /\ \A i \in 1 .. Len(t) : t[i] = s[i + 1]
  OBVIOUS
<1> HIDE DEF t
<1>3. DOMAIN s = 1 .. Len(s) /\ DOMAIN t = 1 .. Len(s) - 1
  BY <1>1
<1>4. ASSUME NEW i \in DOMAIN s PROVE s[i] \in {Head(s)} \cup ToSet(t)
  <2>1. CASE i = 1
    BY <1>2, <2>1
  <2>2. CASE i # 1
    <3>1. i - 1 \in 1 .. Len(t) /\ i - 1 \in DOMAIN t
      BY <1>1, <1>3, <2>2
    <3>2. s[i] = t[i - 1]
      BY <1>2, <1>3, <3>1
    <3> QED
      BY <3>1, <3>2 DEF ToSet
  <2> QED
    BY <2>1, <2>2
<1>5. ASSUME NEW i \in DOMAIN t PROVE t[i] = s[i + 1] /\ i + 1 \in DOMAIN s
  BY <1>1, <1>2, <1>3
<1>6. Head(s) \in ToSet(s)
  BY <1>1, <1>2, <1>3 DEF ToSet
<1>7. ToSet(t) \subseteq ToSet(s)
  BY <1>5 DEF ToSet
<1>8. ToSet(s) \subseteq {Head(s)} \cup ToSet(t)
  BY <1>4 DEF ToSet
<1> QED
  BY <1>6, <1>7, <1>8 DEF t

(* A new frame at the end, and the oldest one out or not. *)
LEMMA AppendedIsSeq ==
  ASSUME NEW s \in Seq(Nat), NEW x \in Nat
  PROVE  /\ Append(s, x) \in Seq(Nat)
         /\ Tail(Append(s, x)) \in Seq(Nat)
<1>1. Append(s, x) \in Seq(Nat) /\ Len(Append(s, x)) = Len(s) + 1
  OBVIOUS
<1>2. Append(s, x) # <<>>
  BY <1>1
<1> QED
  BY <1>1, <1>2

-----------------------------------------------------------------------------
(* Shape *)

LEMMA ShapeInit ==
  ASSUME Init
  PROVE  Shape
<1>1. insSeen \in BOOLEAN
  BY DEF Init
<1>2. /\ at \in [Receiver -> [pc : Pc, ping : Nat]]
      /\ \A r \in Receiver : at[r].ping = 0
  BY DEF Init, Pc
<1>3. cache \in Seq(Nat) /\ submitted \in Seq(Nat) /\ flushing \in Seq(Nat)
  BY DEF Init
<1> QED
  BY <1>1, <1>2, <1>3, GatewayAssumption DEF Init, Shape

(* One receiver moves on, with the ping it has. *)
LEMMA Going ==
  ASSUME Shape, NEW r \in Receiver, NEW pc \in Pc, Goes(r, pc)
  PROVE  /\ at' \in [Receiver -> [pc : Pc, ping : Nat]]
         /\ \A q \in Receiver : at'[q].ping = at[q].ping
         /\ \A q \in Receiver : q # r => at'[q] = at[q]
         /\ at'[r].pc = pc
BY DEF Shape, Goes

LEMMA ShapeStep ==
  ASSUME Shape, [Next]_vars
  PROVE  Shape'
<1> USE GatewayAssumption
<1>1. ASSUME NEW r \in Sonar, Receive(r) PROVE Shape'
  <2>1. r \in Receiver
    BY DEF Receiver
  <2>2. at' \in [Receiver -> [pc : Pc, ping : Nat]]
    BY <1>1, <2>1 DEF Shape, Receive, Pc
  <2>3. \A q \in Receiver : at'[q].ping <= pings'
    BY <1>1, <2>1 DEF Shape, Receive
  <2>4. insSeen' \in BOOLEAN
    BY <1>1 DEF Shape, Receive
  <2> QED
    BY <1>1, <2>2, <2>3, <2>4 DEF Shape, Receive
<1>2. CASE ReceiveINS
  <2>1. /\ at' \in [Receiver -> [pc : Pc, ping : Nat]]
        /\ \A q \in Receiver : at'[q].ping = at[q].ping
    BY <1>2, Going DEF ReceiveINS, Receiver, Pc
  <2>2. insSeen' \in BOOLEAN
    BY <1>2 DEF ReceiveINS
  <2> QED
    BY <1>2, <2>1, <2>2 DEF Shape, ReceiveINS
<1>3. CASE PublishINS
  <2>1. /\ at' \in [Receiver -> [pc : Pc, ping : Nat]]
        /\ \A q \in Receiver : at'[q].ping = at[q].ping
    BY <1>3, Going DEF PublishINS, Receiver, Pc
  <2>2. insSeen' \in BOOLEAN
    BY <1>3 DEF Shape, PublishINS
  <2> QED
    BY <1>3, <2>1, <2>2 DEF Shape, PublishINS
<1>4. ASSUME NEW r \in Receiver,
             Exit(r) \/ PublishPing(r) \/ ProcessPing(r) \/ FeedBlocks(r)
      PROVE  Shape'
  <2>1. PICK pc \in Pc : Goes(r, pc)
    BY <1>4 DEF Exit, PublishPing, ProcessPing, FeedBlocks, Pc
  <2>2. /\ at' \in [Receiver -> [pc : Pc, ping : Nat]]
        /\ \A q \in Receiver : at'[q].ping = at[q].ping
    BY <2>1, Going
  <2>3. insSeen' \in BOOLEAN
    BY <1>4 DEF Shape, Exit, PublishPing, ProcessPing, FeedBlocks
  <2> QED
    BY <1>4, <2>2, <2>3 DEF Shape, Exit, PublishPing, ProcessPing, FeedBlocks
<1>5. ASSUME NEW r \in Receiver, SubmitFrame(r) PROVE Shape'
  <2> DEFINE all == Append(cache, at[r].ping)
  <2>1. /\ at' \in [Receiver -> [pc : Pc, ping : Nat]]
        /\ \A q \in Receiver : at'[q].ping = at[q].ping
    BY <1>5, Going DEF SubmitFrame, Pc
  <2>2. at[r].ping \in Nat /\ cache \in Seq(Nat) /\ submitted \in Seq(Nat)
    BY DEF Shape
  <2>3. submitted' = Append(submitted, at[r].ping)
    BY <1>5 DEF SubmitFrame
  <2>4. cache' = IF Len(all) > MaxCacheFrames THEN Tail(all) ELSE all
    BY <1>5 DEF SubmitFrame
  <2>5. submitted' \in Seq(Nat) /\ cache' \in Seq(Nat)
    BY <2>2, <2>3, <2>4, AppendedIsSeq
  <2>6. sinceFill' \in 0 .. (FillEveryNFrames - 1)
    BY <1>5 DEF Shape, SubmitFrame
  <2>7. fills' \subseteq fills \cup {[of |-> cache', pc |-> "lock"]}
    BY <1>5 DEF SubmitFrame
  <2>8. insSeen' \in BOOLEAN
    BY <1>5 DEF Shape, SubmitFrame
  <2>9. fills' \subseteq [of : Seq(Nat), pc : {"lock", "fill", "hand"}]
    BY <2>5, <2>7 DEF Shape
  <2> QED
    BY <1>5, <2>1, <2>5, <2>6, <2>8, <2>9 DEF Shape, SubmitFrame
<1>6. ASSUME NEW t \in fills, Fill(t) PROVE Shape'
  <2>1. /\ t = [of |-> t.of, pc |-> t.pc] /\ t.of \in Seq(Nat)
        /\ fills \subseteq [of : Seq(Nat), pc : {"lock", "fill", "hand"}]
    BY DEF Shape
  <2>3. \/ fills' = fills \ {t}
        \/ \E pc \in {"fill", "hand"} :
             fills' = (fills \ {t}) \cup {[of |-> t.of, pc |-> pc]}
    BY <1>6, <2>1 DEF Fill, FillLocks, FillEnds, FillHands
  <2>4. fills' \subseteq [of : Seq(Nat), pc : {"lock", "fill", "hand"}]
    BY <2>1, <2>3
  <2>2. UNCHANGED <<sonarVars, cacheVars, stopVars>>
    BY <1>6 DEF Fill, FillLocks, FillEnds, FillHands
  <2> QED
    BY <2>2, <2>4 DEF Shape
<1>7. CASE Signal
  BY <1>7 DEF Shape, Signal
<1>8. CASE StopLinks
  BY <1>8 DEF Shape, StopLinks, StopLink, CloseLink, AwaitLink
<1>9. CASE Flush
  <2>3. /\ cache \in Seq(Nat) /\ flushing \in Seq(Nat) /\ <<>> \in Seq(Nat)
        /\ flushing # <<>> => Tail(flushing) \in Seq(Nat)
    BY DEF Shape
  <2>4. /\ cache' = cache \/ cache' = <<>>
        /\ \/ flushing' = flushing \/ flushing' = cache
           \/ flushing # <<>> /\ flushing' = Tail(flushing)
    BY <1>9 DEF Flush, FlushBegins, FlushLocks, FlushFilled, FlushHands,
                FlushReturns
  <2>1. cache' \in Seq(Nat) /\ flushing' \in Seq(Nat)
    BY <2>3, <2>4
  <2>2. UNCHANGED <<sonarVars, submitted, sinceFill, fills>>
    BY <1>9 DEF Flush, FlushBegins, FlushLocks, FlushFilled, FlushHands,
                FlushReturns
  <2> QED
    BY <2>1, <2>2 DEF Shape
<1>10. CASE Disconnect \/ FinalStats
  BY <1>10 DEF Shape, Disconnect, FinalStats
<1>11. CASE UNCHANGED vars
  BY <1>11 DEF Shape, vars
<1>12. CASE FlushHangs \/ \E t \in fills : FillHangs(t)
  BY <1>12 DEF Shape, FlushHangs, FillHangs
<1> QED
  BY <1>1, <1>2, <1>3, <1>4, <1>5, <1>6, <1>7, <1>8, <1>9, <1>10, <1>11, <1>12
  DEF Next, Handle, Receiver

-----------------------------------------------------------------------------
(* Down *)

(* A receiver that has exited stays where it is, and no link comes up. *)
LEMMA NoWayBack ==
  ASSUME Shape, [Next]_vars
  PROVE  /\ open' \subseteq open
         /\ \A r \in Receiver : at[r].pc = "exited" => at'[r].pc = "exited"
<1>1. ASSUME NEW r \in Sonar, Receive(r)
      PROVE  \A q \in Receiver : at[q].pc = "exited" => at'[q] = at[q]
  BY <1>1 DEF Shape, Receive
<1>2. ASSUME NEW r \in Receiver, at[r].pc # "exited", NEW pc \in Pc,
             Goes(r, pc)
      PROVE  \A q \in Receiver : at[q].pc = "exited" => at'[q] = at[q]
  BY <1>2, Going
<1>3. CASE ReceiveINS \/ PublishINS
  <2>1. \A q \in Receiver : at[q].pc = "exited" => at'[q] = at[q]
    BY <1>2, <1>3 DEF ReceiveINS, PublishINS, Receiver, Pc
  <2> QED
    BY <1>3, <2>1 DEF ReceiveINS, PublishINS
<1>4. ASSUME NEW r \in Receiver, Handle(r) \/ FeedBlocks(r)
      PROVE  /\ \A q \in Receiver : at[q].pc = "exited" => at'[q] = at[q]
             /\ UNCHANGED open
  <2>1. PICK pc \in Pc : Goes(r, pc)
    BY <1>4 DEF Handle, Exit, PublishPing, ProcessPing, SubmitFrame,
                FeedBlocks, Pc
  <2>2. at[r].pc # "exited" /\ UNCHANGED open
    BY <1>4 DEF Handle, Exit, PublishPing, ProcessPing, SubmitFrame,
                FeedBlocks
  <2> QED
    BY <1>2, <2>1, <2>2
<1>5. ASSUME NEW t \in fills, Fill(t) PROVE UNCHANGED <<at, open>>
  BY <1>5 DEF Fill, FillLocks, FillEnds, FillHands
<1>6. CASE Signal \/ StopLinks
  BY <1>6 DEF Signal, StopLinks, StopLink, CloseLink, AwaitLink
<1>7. CASE Flush \/ Disconnect \/ FinalStats \/ UNCHANGED vars
  BY <1>7 DEF Flush, FlushBegins, FlushLocks, FlushFilled, FlushHands,
              FlushReturns, Disconnect, FinalStats, vars
<1>8. ASSUME NEW r \in Sonar, Receive(r) PROVE UNCHANGED open
  BY <1>8 DEF Receive
<1>9. CASE FlushHangs \/ \E t \in fills : FillHangs(t)
  BY <1>9 DEF FlushHangs, FillHangs
<1> QED
  BY <1>1, <1>3, <1>4, <1>5, <1>6, <1>7, <1>8, <1>9 DEF Next, Receiver

(* The steps of Stop; every other step leaves stop and hub alone. *)
LEMMA StopSteps ==
  ASSUME [Next]_vars
  PROVE  \/ UNCHANGED <<stop, hub>>
         \/ Signal \/ StopLinks \/ FlushBegins \/ FlushFilled \/ FlushReturns
         \/ Disconnect \/ FinalStats
BY DEF Next, Receive, ReceiveINS, PublishINS, Handle, Exit, PublishPing,
       ProcessPing, SubmitFrame, Fill, FillLocks, FillEnds, FillHands, Flush,
       FlushLocks, FlushHands, FeedBlocks, FillHangs, FlushHangs, vars

LEMMA DownInit == Init => Down
BY DEF Init, Down, Phase, LinksUp

LEMMA DownStep ==
  ASSUME Shape, Down, [Next]_vars
  PROVE  Down'
<1> USE GatewayAssumption DEF Phase, LinksUp
<1>1. /\ open' \subseteq open
      /\ \A L : L \subseteq Receiver /\ Exited(L) => Exited(L)'
  BY NoWayBack DEF Exited
<1>2. Handler \subseteq Receiver /\ {Udp} \subseteq Receiver
      /\ {Ins} \subseteq Receiver
  BY DEF Receiver, Sonar
<1>3. CASE UNCHANGED <<stop, hub>>
  BY <1>1, <1>2, <1>3 DEF Down
<1>4. CASE Signal
  BY <1>1, <1>2, <1>4 DEF Down, Signal
<1>5. CASE StopLinks
  <2>1. CASE CloseLink("tcp", Handler, "await tcp")
    BY <1>1, <1>2, <2>1 DEF Down, CloseLink
  <2>2. CASE AwaitLink("await tcp", Handler, "udp")
    BY <1>1, <1>2, <2>2 DEF Down, AwaitLink
  <2>3. CASE CloseLink("udp", {Udp}, "await udp")
    BY <1>1, <1>2, <2>3 DEF Down, CloseLink
  <2>4. CASE AwaitLink("await udp", {Udp}, "ins")
    BY <1>1, <1>2, <2>4 DEF Down, AwaitLink
  <2>5. CASE CloseLink("ins", {Ins}, "await ins")
    BY <1>1, <1>2, <2>5 DEF Down, CloseLink
  <2>6. CASE AwaitLink("await ins", {Ins}, "flush")
    BY <1>1, <1>2, <2>6 DEF Down, AwaitLink
  <2> QED
    BY <1>5, <2>1, <2>2, <2>3, <2>4, <2>5, <2>6 DEF StopLinks, StopLink
<1>6. CASE FlushBegins \/ FlushFilled \/ FlushReturns
  BY <1>1, <1>2, <1>6 DEF Down, FlushBegins, FlushFilled, FlushReturns
<1>7. CASE Disconnect \/ FinalStats
  BY <1>1, <1>2, <1>7 DEF Down, Disconnect, FinalStats
<1> QED
  BY <1>3, <1>4, <1>5, <1>6, <1>7, StopSteps

(* Once all links are down no frame can be submitted. *)
LEMMA SubmitBeforeFlush ==
  ASSUME Shape, Down, NEW r \in Receiver, at[r].pc # "exited"
  PROVE  stop \in LinksUp
BY DEF Down, LinksUp, Receiver, Sonar, Exited

-----------------------------------------------------------------------------
(* Kept *)

(* What touches the frames: a submission, and the steps of Flush. *)
LEMMA FrameSteps ==
  ASSUME [Next]_vars
  PROVE  \/ UNCHANGED <<cache, submitted, flushing, handed>>
            /\ (UNCHANGED stop \/ Signal \/ StopLinks \/ FlushFilled
                \/ FlushReturns \/ Disconnect \/ FinalStats)
         \/ \E r \in Receiver : SubmitFrame(r)
         \/ FlushBegins \/ FlushHands
<1>1. ASSUME NEW r \in Receiver, Handle(r), ~SubmitFrame(r)
      PROVE  UNCHANGED <<cache, submitted, flushing, handed, stop>>
  BY <1>1 DEF Handle, Exit, PublishPing, ProcessPing
<1>2. ASSUME NEW r \in Sonar, Receive(r)
      PROVE  UNCHANGED <<cache, submitted, flushing, handed, stop>>
  BY <1>2 DEF Receive
<1>3. CASE ReceiveINS \/ PublishINS \/ UNCHANGED vars
  BY <1>3 DEF ReceiveINS, PublishINS, vars
<1>4. ASSUME NEW t \in fills, Fill(t)
      PROVE  UNCHANGED <<cache, submitted, flushing, handed, stop>>
  BY <1>4 DEF Fill, FillLocks, FillEnds, FillHands
<1>5. CASE Signal \/ StopLinks \/ Disconnect \/ FinalStats
  BY <1>5 DEF Signal, StopLinks, StopLink, CloseLink, AwaitLink, Disconnect,
              FinalStats
<1>6. CASE Flush
  BY <1>6 DEF Flush, FlushLocks, FlushFilled, FlushReturns
<1>7. CASE \/ FlushHangs \/ \E t \in fills : FillHangs(t)
           \/ \E r \in Sonar : FeedBlocks(r)
  BY <1>7 DEF FlushHangs, FillHangs, FeedBlocks
<1> QED
  BY <1>1, <1>2, <1>3, <1>4, <1>5, <1>6, <1>7 DEF Next

LEMMA KeptInit == Init => Kept
BY GatewayAssumption DEF Init, Kept, LinksUp

LEMMA KeptSubmit ==
  ASSUME Shape, Down, Kept, NEW r \in Receiver, SubmitFrame(r)
  PROVE  Kept'
<1> USE GatewayAssumption
<1> DEFINE x == at[r].ping  all == Append(cache, x)
<1>1. x \in Nat /\ cache \in Seq(Nat) /\ submitted \in Seq(Nat)
      /\ Len(cache) \in Nat /\ Len(submitted) \in Nat
  BY DEF Shape
<1>2. stop \in LinksUp /\ stop' = stop /\ flushing' = flushing
      /\ stop \notin {"flushing", "handing"}
  BY SubmitBeforeFlush DEF SubmitFrame, LinksUp
<1>3. /\ submitted' = Append(submitted, x)
      /\ cache' = IF Len(all) > MaxCacheFrames THEN Tail(all) ELSE all
  BY DEF SubmitFrame
<1>4. /\ submitted' \in Seq(Nat) /\ Len(submitted') = Len(submitted) + 1
      /\ submitted'[Len(submitted) + 1] = x
      /\ \A i \in 1 .. Len(submitted) : submitted'[i] = submitted[i]
  BY <1>1, <1>3
<1>5. /\ all \in Seq(Nat) /\ Len(all) = Len(cache) + 1
      /\ all[Len(cache) + 1] = x
      /\ \A i \in 1 .. Len(cache) : all[i] = cache[i]
  BY <1>1
<1> HIDE DEF x, all
<1>6. ASSUME NEW i \in 1 .. Len(all)
      PROVE  all[i] = submitted'[Len(submitted') - Len(all) + i]
  <2>1. Len(submitted') - Len(all) + i = Len(submitted) - Len(cache) + i
    BY <1>1, <1>4, <1>5
  <2>2. CASE i = Len(cache) + 1
    BY <1>1, <1>4, <1>5, <2>1, <2>2
  <2>3. CASE i \in 1 .. Len(cache)
    <3>1. cache[i] = submitted[Len(submitted) - Len(cache) + i]
      BY <2>3 DEF Kept
    <3>2. Len(cache) <= Len(submitted)
      BY DEF Kept
    <3>3. Len(submitted) - Len(cache) + i \in 1 .. Len(submitted)
      BY <1>1, <2>3, <3>2
    <3> QED
      BY <1>4, <1>5, <2>1, <2>3, <3>1, <3>3
  <2> QED
    BY <1>1, <1>5, <2>2, <2>3
<1>7. CASE Len(all) > MaxCacheFrames
  <2>1. /\ cache' \in Seq(Nat) /\ Len(cache') = Len(cache)
        /\ \A i \in 1 .. Len(cache') : cache'[i] = all[i + 1]
    BY <1>1, <1>3, <1>5, <1>7
  <2>2. Len(cache') = MaxCacheFrames
    BY <1>1, <1>5, <1>7, <2>1 DEF Kept
  <2>3. ASSUME NEW i \in 1 .. Len(cache')
        PROVE  cache'[i] = submitted'[Len(submitted') - Len(cache') + i]
    <3>1. i + 1 \in 1 .. Len(all)
      BY <1>1, <1>5, <2>1
    <3>2. all[i + 1] = submitted'[Len(submitted') - Len(all) + (i + 1)]
      BY <1>6, <3>1
    <3>3. Len(submitted') - Len(all) + (i + 1)
            = Len(submitted') - Len(cache') + i
      BY <1>1, <1>4, <1>5, <2>1
    <3> QED
      BY <2>1, <3>2, <3>3
  <2>4. Len(cache') <= Len(submitted')
    BY <1>1, <1>4, <2>1 DEF Kept
  <2> QED
    BY <1>2, <2>2, <2>3, <2>4 DEF Kept
<1>8. CASE ~(Len(all) > MaxCacheFrames)
  <2>1. cache' = all
    BY <1>3, <1>8
  <2>2. Len(all) = MaxCacheFrames \/ Len(all) = Len(submitted')
    BY <1>1, <1>2, <1>4, <1>5, <1>8 DEF Kept
  <2>3. Len(all) <= Len(submitted') /\ Len(all) <= MaxCacheFrames
    BY <1>1, <1>4, <1>5, <1>8 DEF Kept
  <2> QED
    BY <1>2, <1>6, <2>1, <2>2, <2>3 DEF Kept
<1> QED
  BY <1>7, <1>8

LEMMA KeptFlushBegins ==
  ASSUME Shape, Kept, FlushBegins
  PROVE  Kept'
<1> USE GatewayAssumption
<1>1. /\ cache \in Seq(Nat) /\ submitted \in Seq(Nat)
      /\ Len(cache) \in Nat /\ Len(submitted) \in Nat
  BY DEF Shape
<1>2. /\ stop = "flush" /\ stop' \in {"flushing", "handing"}
      /\ flushing' = cache /\ cache' = <<>> /\ submitted' = submitted
  BY DEF FlushBegins
<1>3. ASSUME NEW i \in 1 .. Len(submitted), IsNewest(i)
      PROVE  submitted[i] \in ToSet(cache)
  <2> DEFINE j == i - (Len(submitted) - Len(cache))
  <2>2. /\ Len(cache) = MaxCacheFrames \/ Len(cache) = Len(submitted)
        /\ Len(cache) <= Len(submitted)
    BY <1>2 DEF Kept
  <2>3. j \in 1 .. Len(cache) /\ Len(submitted) - Len(cache) + j = i
    BY <1>1, <1>3, <2>2 DEF IsNewest
  <2> HIDE DEF j
  <2>1. j \in 1 .. Len(cache) /\ cache[j] = submitted[i]
    BY <2>3 DEF Kept
  <2> QED
    BY <1>1, <2>1 DEF ToSet
<1>4. \A i \in 1 .. Len(submitted') :
        IsNewest(i)' => submitted'[i] \in handed' \cup ToSet(flushing')
  BY <1>2, <1>3 DEF IsNewest
<1>5. Len(cache') = 0 /\ 1 .. Len(cache') = {}
  BY <1>2
<1>6. /\ Len(cache') <= MaxCacheFrames
      /\ Len(cache') <= Len(submitted')
  BY <1>1, <1>2, <1>5
<1>7. stop' \notin LinksUp \cup {"flush"} /\ stop' \in {"flushing", "handing"}
  BY <1>2 DEF LinksUp
<1> QED
  BY <1>2, <1>4, <1>5, <1>6, <1>7 DEF Kept

LEMMA KeptFlushHands ==
  ASSUME Shape, Down, Kept, FlushHands
  PROVE  Kept'
<1>1. /\ stop = "handing" /\ hub = "open" /\ flushing # <<>>
      /\ flushing \in Seq(Nat)
  BY DEF FlushHands, Down, Shape
<1>2. /\ handed' = handed \cup {Head(flushing)} /\ flushing' = Tail(flushing)
      /\ UNCHANGED <<stop, cache, submitted>>
  BY <1>1 DEF FlushHands
<1>3. handed' \cup ToSet(flushing') = handed \cup ToSet(flushing)
  BY <1>1, <1>2, ToSetHeadTail
<1>4. \A i : IsNewest(i)' <=> IsNewest(i)
  BY <1>2 DEF IsNewest
<1> QED
  BY <1>1, <1>2, <1>3, <1>4 DEF Kept, LinksUp

LEMMA KeptStep ==
  ASSUME Shape, Down, Kept, [Next]_vars
  PROVE  Kept'
<1>1. CASE /\ UNCHANGED <<cache, submitted, flushing, handed>>
           /\ \/ UNCHANGED stop \/ Signal \/ StopLinks \/ FlushFilled
              \/ FlushReturns \/ Disconnect \/ FinalStats
  <2>1. \A i : IsNewest(i)' <=> IsNewest(i)
    BY <1>1 DEF IsNewest
  <2>2. /\ stop' \in LinksUp \cup {"flush"} => stop \in LinksUp \cup {"flush"}
        /\ stop \in LinksUp \cup {"flush"} => stop' \in LinksUp \cup {"flush"}
        /\ stop' \notin {"flushing", "handing"} =>
             stop \notin {"flushing", "handing"} \/ FlushReturns
    BY <1>1 DEF LinksUp, Signal, StopLinks, StopLink, CloseLink, AwaitLink,
                FlushFilled, FlushReturns, Disconnect, FinalStats
  <2>3. stop' \notin {"flushing", "handing"} => flushing' = <<>>
    BY <1>1, <2>2 DEF Kept, FlushReturns
  <2> QED
    BY <1>1, <2>1, <2>2, <2>3 DEF Kept
<1> QED
  BY <1>1, FrameSteps, KeptSubmit, KeptFlushBegins, KeptFlushHands

-----------------------------------------------------------------------------
(* OnlySubmitted *)

LEMMA OnlySubmittedStep ==
  ASSUME Shape, Kept, OnlySubmitted, [Next]_vars, Kept', Shape'
  PROVE  OnlySubmitted'
<1>1. ToSet(cache) \subseteq ToSet(submitted)
  BY SuffixToSet DEF Shape, Kept
<1>2. ToSet(cache') \subseteq ToSet(submitted')
  BY SuffixToSet DEF Shape, Kept
<1>3. ASSUME NEW r \in Receiver, SubmitFrame(r) PROVE OnlySubmitted'
  <2>1. ToSet(submitted') = ToSet(submitted) \cup {at[r].ping}
    BY <1>3, ToSetAppend DEF SubmitFrame, Shape
  <2>2. /\ UNCHANGED <<flushing, handed>>
        /\ fills' \subseteq fills \cup {[of |-> cache', pc |-> "lock"]}
    BY <1>3 DEF SubmitFrame
  <2> QED
    BY <1>2, <2>1, <2>2 DEF OnlySubmitted
<1>4. CASE FlushBegins
  BY <1>1, <1>4 DEF FlushBegins, OnlySubmitted
<1>5. CASE FlushHands
  <2>1. /\ ToSet(flushing) = {Head(flushing)} \cup ToSet(flushing')
        /\ handed' \subseteq handed \cup {Head(flushing)}
        /\ UNCHANGED <<submitted, fills>>
    BY <1>5, ToSetHeadTail DEF FlushHands, Shape
  <2> QED
    BY <2>1 DEF OnlySubmitted
<1>6. ASSUME NEW t \in fills, Fill(t) PROVE OnlySubmitted'
  <2>1. UNCHANGED <<submitted, flushing, handed>>
    BY <1>6 DEF Fill, FillLocks, FillEnds, FillHands
  <2>2. \A u \in fills' : u.of = t.of \/ u \in fills
    BY <1>6 DEF Fill, FillLocks, FillEnds, FillHands, Shape
  <2> QED
    BY <1>6, <2>1, <2>2 DEF OnlySubmitted
<1>7. CASE UNCHANGED <<cache, submitted, flushing, handed>>
  <2>1. \/ UNCHANGED fills
        \/ \E t \in fills : Fill(t)
        \/ \E r \in Receiver : SubmitFrame(r)
    BY DEF Next, Receive, ReceiveINS, PublishINS, Handle, Exit, PublishPing,
           ProcessPing, Signal, StopLinks, StopLink, CloseLink, AwaitLink,
           Flush, FlushBegins, FlushLocks, FlushFilled, FlushHands,
           FlushReturns, Disconnect, FinalStats, FeedBlocks, FillHangs,
           FlushHangs, vars
  <2> QED
    BY <1>3, <1>6, <1>7, <2>1 DEF OnlySubmitted
<1> QED
  BY <1>3, <1>4, <1>5, <1>7, FrameSteps

-----------------------------------------------------------------------------

(* IInv, of which the properties below are parts, is kept by every step of *)
(* the receivers, the fill goroutines and Gateway.Stop.                    *)
THEOREM Invariance == Spec => []IInv
<1>1. Init => IInv
  <2>1. Init => OnlySubmitted
    BY DEF Init, OnlySubmitted, ToSet
  <2> QED
    BY <2>1, ShapeInit, DownInit, KeptInit DEF IInv
<1>2. IInv /\ [Next]_vars => IInv'
  BY ShapeStep, DownStep, KeptStep, OnlySubmittedStep DEF IInv
<1> QED
  BY <1>1, <1>2, PTL DEF Spec

(* The variables keep their types, the cache is a suffix of what was       *)
(* submitted and within maxCacheFrames, and no frame is filled or handed   *)
(* over that was not submitted.                                            *)
THEOREM TypeCorrect == Spec => []TypeOK
<1>1. IInv => TypeOK
  <2> SUFFICES ASSUME IInv PROVE TypeOK
    OBVIOUS
  <2> USE DEF IInv
  <2>1. IsSuffix(cache, submitted)
    BY SuffixIs DEF Shape, Kept
  <2>2. insSeen \in BOOLEAN
    BY DEF Shape
  <2>3. /\ hub \in {"open", "closed"}
        /\ hub = "closed" <=> stop \in {"stats", "stopped"}
    BY DEF Down
  <2>4. \A r \in Receiver : at[r].ping \in 0 .. pings /\ at[r].pc \in Pc
    BY DEF Shape
  <2>5. \A t \in fills : t.pc \in {"lock", "fill", "hand"}
    BY DEF Shape
  <2>6. /\ open \subseteq Receiver /\ pings \in 0 .. NPings
        /\ sinceFill \in 0 .. (FillEveryNFrames - 1)
    BY DEF Shape
  <2>7. Len(cache) <= MaxCacheFrames
    BY DEF Kept
  <2> QED
    BY <2>1, <2>2, <2>3, <2>4, <2>5, <2>6, <2>7
    DEF TypeOK, OnlySubmitted, Pc
<1> QED
  BY <1>1, Invariance, PTL

(* Disconnect comes when every link has ended and the cache is handed      *)
(* over: nobody uses a closed client for a ping, for INS data or for a     *)
(* frame of the cache.                                                     *)
THEOREM ClientClosedLast == Spec => []HubOutlivesLinks
<1>1. IInv => HubOutlivesLinks
  <2> SUFFICES ASSUME IInv, hub = "closed"
               PROVE  Exited(Receiver) /\ cache = <<>> /\ flushing = <<>>
    BY DEF HubOutlivesLinks
  <2>1. stop \in {"stats", "stopped"}
    BY DEF IInv, Down
  <2>2. Exited(Receiver)
    BY <2>1 DEF IInv, Down, LinksUp, Receiver, Sonar, Exited
  <2>3. cache = <<>> /\ flushing = <<>>
    BY <2>1 DEF IInv, Kept, LinksUp
  <2> QED
    BY <2>2, <2>3
<1> QED
  BY <1>1, Invariance, PTL

(* The newest maxCacheFrames of all frames submitted were handed to an     *)
(* open client when the gateway has stopped.                               *)
THEOREM NewestHandedOver == Spec => []NothingLeftBehind
<1>1. IInv => NothingLeftBehind
  <2> SUFFICES ASSUME IInv, stop = "stopped", NEW i \in DOMAIN submitted,
                      i > Len(submitted) - MaxCacheFrames
               PROVE  submitted[i] \in handed
    BY DEF NothingLeftBehind
  <2>1. i \in 1 .. Len(submitted) /\ IsNewest(i)
    BY DEF IInv, Shape, IsNewest
  <2>2. flushing = <<>> /\ submitted[i] \in handed \cup ToSet(flushing)
    BY <2>1 DEF IInv, Kept, LinksUp
  <2> QED
    BY <2>2 DEF ToSet
<1> QED
  BY <1>1, Invariance, PTL

-----------------------------------------------------------------------------
(* Who waits for whom *)

(* vf.mu is held by one fill goroutine that is inside its fill, or by      *)
(* Flush before it begins to hand over; one of them has locked it again    *)
(* when it is hung.                                                        *)
Held ==
  /\ vfmu \in {"free", "fill", "flush", "hung"}
  /\ vfmu = "fill" => \E t \in fills : t.pc = "fill"
  /\ vfmu = "flush" => stop = "flushing"
  /\ vfmu = "hung" =>
       /\ AutoFitVariogram
       /\ stop = "flushing" \/ \E t \in fills : t.pc = "fill"
  /\ \A t \in fills : t.pc = "fill" =>
       /\ vfmu \in {"fill", "hung"}
       /\ \A u \in fills : u.pc = "fill" => u = t

(* A receiver whose link is down is not held up by anybody. *)
CanGo(r) ==
  \/ at[r].pc \in {"publish", "process"}
  \/ at[r].pc = "submit" /\ ~Flushing
  \/ at[r].pc = "read" /\ r \notin open

Awaited ==
  CASE stop = "await tcp" -> Handler
    [] stop = "await udp" -> {Udp}
    [] stop = "await ins" -> {Ins}
    [] OTHER -> {}

(* Whoever is waited for can move, or has locked a mutex it holds itself:  *)
(* the goroutines of a link that Stop waits for, unless one of a sonar     *)
(* link is blocked in Feed; and the holder of vf.mu, for which fills,      *)
(* Flush and the final statistics wait, unless it has locked it again,     *)
(* which takes AutoFitVariogram.  Nobody waits for the r.mu that Flush     *)
(* holds while it waits itself.                                            *)
OnlySelfLocksHold ==
  /\ \A r \in Awaited :
       \/ at[r].pc = "exited" \/ CanGo(r)
       \/ at[r].pc = "blocked" /\ r \in Sonar
  /\ vfmu # "free" =>
       \/ vfmu = "fill" /\ \E t \in fills : t.pc = "fill"
       \/ vfmu = "flush" /\ stop = "flushing"
       \/ vfmu = "hung" /\ AutoFitVariogram
  /\ Flushing => \A r \in Receiver : at[r].pc # "submit"

(* The bytes of the INS link go to another processor, without that lock. *)
InsUnblocked == at[Ins].pc # "blocked"

LEMMA InsUnblockedStep ==
  ASSUME Shape, InsUnblocked, [Next]_vars
  PROVE  InsUnblocked'
<1>0. Ins \in Receiver /\ Ins \notin Sonar
  BY GatewayAssumption DEF Receiver, Sonar
<1>1. CASE UNCHANGED at
  BY <1>1 DEF InsUnblocked
<1>2. ASSUME NEW r \in Receiver, NEW pc \in Pc, Goes(r, pc),
             r # Ins \/ pc # "blocked"
      PROVE  InsUnblocked'
  BY <1>0, <1>2, Going DEF InsUnblocked
<1>3. ASSUME NEW r \in Sonar, Receive(r) PROVE InsUnblocked'
  BY <1>0, <1>3 DEF Receive, Shape, InsUnblocked
<1>4. ASSUME NEW r \in Sonar, FeedBlocks(r) PROVE InsUnblocked'
  BY <1>0, <1>2, <1>4 DEF FeedBlocks, Receiver, Pc
<1>5. CASE ReceiveINS \/ PublishINS
  BY <1>0, <1>2, <1>5 DEF ReceiveINS, PublishINS, Pc
<1>6. ASSUME NEW r \in Receiver, Handle(r) PROVE InsUnblocked'
  <2>1. PICK pc \in Pc : Goes(r, pc) /\ pc # "blocked"
    BY <1>6 DEF Handle, Exit, PublishPing, ProcessPing, SubmitFrame, Pc
  <2> QED
    BY <1>2, <2>1
<1> QED
  BY <1>1, <1>3, <1>4, <1>5, <1>6
  DEF Next, Fill, FillLocks, FillEnds, FillHands, FillHangs, FlushHangs,
      Signal, StopLinks, StopLink, CloseLink, AwaitLink, Flush, FlushBegins,
      FlushLocks, FlushFilled, FlushHands, FlushReturns, Disconnect,
      FinalStats, vars

LEMMA HeldStep ==
  ASSUME Shape, Held, [Next]_vars
  PROVE  Held'
<1>1. CASE UNCHANGED <<fills, vfmu, stop>>
  BY <1>1 DEF Held
<1>2. ASSUME NEW r \in Receiver, SubmitFrame(r) PROVE Held'
  <2>1. PICK of : \/ fills' = fills
                  \/ fills' = fills \cup {[of |-> of, pc |-> "lock"]}
    BY <1>2 DEF SubmitFrame
  <2>2. \A t \in fills' : t.pc = "fill" => t \in fills
    BY <2>1
  <2>3. fills \subseteq fills' /\ UNCHANGED <<vfmu, stop>>
    BY <1>2, <2>1 DEF SubmitFrame
  <2> QED
    BY <2>2, <2>3 DEF Held
<1>3. ASSUME NEW t \in fills, Fill(t) PROVE Held'
  <2>1. t = [of |-> t.of, pc |-> t.pc] /\ UNCHANGED stop
    BY <1>3 DEF Shape, Fill, FillLocks, FillEnds, FillHands
  <2>2. CASE FillLocks(t)
    <3> DEFINE new == [of |-> t.of, pc |-> "fill"]
    <3>1. /\ fills' = (fills \ {t}) \cup {new} /\ vfmu' = "fill"
          /\ vfmu = "free"
      BY <2>1, <2>2 DEF FillLocks
    <3>2. \A u \in fills : u.pc # "fill"
      BY <3>1 DEF Held
    <3>3. \A u \in fills' : u.pc = "fill" => u = new
      BY <3>1, <3>2
    <3>4. new \in fills' /\ new.pc = "fill"
      BY <3>1
    <3> QED
      BY <3>1, <3>3, <3>4 DEF Held
  <2>3. CASE FillEnds(t)
    <3>1. /\ vfmu' = "free" /\ t.pc = "fill" /\ vfmu = "fill"
          /\ \A u \in fills' : u \in fills \ {t} \/ u.pc = "hand"
      BY <2>1, <2>3 DEF FillEnds
    <3>2. \A u \in fills' : u.pc # "fill"
      BY <3>1 DEF Held
    <3> QED
      BY <3>1, <3>2 DEF Held
  <2>4. CASE FillHands(t)
    <3>1. fills' = fills \ {t} /\ t.pc = "hand" /\ UNCHANGED vfmu
      BY <2>4 DEF FillHands
    <3>2. \A u \in fills : u.pc = "fill" => u \in fills'
      BY <3>1
    <3> QED
      BY <2>1, <3>1, <3>2 DEF Held
  <2> QED
    BY <1>3, <2>2, <2>3, <2>4 DEF Fill
<1>4. ASSUME \E from, to : Takes(from, to) /\ from # "flushing",
             UNCHANGED fillVars
      PROVE  Held'
  BY <1>4 DEF Held
<1>5. CASE Signal \/ StopLinks \/ FlushBegins \/ FlushReturns \/ Disconnect
           \/ FinalStats
  BY <1>4, <1>5 DEF Signal, StopLinks, StopLink, CloseLink, AwaitLink,
                    FlushBegins, FlushReturns, Disconnect, FinalStats
<1>6. CASE FlushLocks
  BY <1>6 DEF FlushLocks, Held
<1>7. CASE FlushFilled
  BY <1>7 DEF FlushFilled, Held
<1>8. CASE FlushHangs \/ \E t \in fills : FillHangs(t)
  <2>1. /\ AutoFitVariogram /\ vfmu' = "hung" /\ UNCHANGED <<fills, stop>>
        /\ \/ vfmu = "flush" /\ stop = "flushing"
           \/ vfmu = "fill" /\ \E t \in fills : t.pc = "fill"
    BY <1>8 DEF FlushHangs, FillHangs, SelfLock
  <2> QED
    BY <2>1 DEF Held
<1>9. \/ UNCHANGED <<fills, vfmu, stop>>
      \/ \E r \in Receiver : SubmitFrame(r)
      \/ \E t \in fills : Fill(t)
      \/ FlushHangs \/ \E t \in fills : FillHangs(t)
      \/ Signal \/ StopLinks \/ FlushBegins \/ FlushLocks \/ FlushFilled
      \/ FlushReturns \/ Disconnect \/ FinalStats
  BY DEF Next, Receive, ReceiveINS, PublishINS, Handle, Exit, PublishPing,
         ProcessPing, FeedBlocks, Flush, FlushHands, vars
<1> QED
  BY <1>1, <1>2, <1>3, <1>5, <1>6, <1>7, <1>8, <1>9

(* Two self-locks are all that can hold up a Stop that has begun: it never *)
(* comes to wait for somebody who waits for it or does not run any more,   *)
(* only for a Feed that has blocked itself or, with AutoFitVariogram, for  *)
(* a fill that has locked vf.mu twice.  r.mu, which Flush holds while it   *)
(* waits for vf.mu, is wanted by no receiver then.                         *)
THEOREM OnlySelfLocks == Spec => []OnlySelfLocksHold
<1>1. Init => Held /\ InsUnblocked
  BY GatewayAssumption DEF Init, Held, InsUnblocked, Receiver
<1>2. IInv /\ Held /\ InsUnblocked /\ [Next]_vars => Held' /\ InsUnblocked'
  BY HeldStep, InsUnblockedStep DEF IInv
<1>3. IInv /\ Held /\ InsUnblocked => OnlySelfLocksHold
  <2> SUFFICES ASSUME IInv, Held, InsUnblocked PROVE OnlySelfLocksHold
    OBVIOUS
  <2> USE GatewayAssumption DEF IInv, Phase, LinksUp
  <2>1. Awaited \subseteq Receiver \ open /\ (Awaited # {} => ~Flushing)
    BY DEF Awaited, Down, Receiver, Sonar, Flushing
  <2>2. ASSUME NEW r \in Awaited
        PROVE  \/ at[r].pc = "exited" \/ CanGo(r)
               \/ at[r].pc = "blocked" /\ r \in Sonar
    <3>1. at[r].pc \in {"exited", "blocked"} \/ CanGo(r)
      BY <2>1 DEF CanGo, Shape, Pc
    <3>2. at[r].pc = "blocked" => r \in Sonar
      BY <2>1 DEF InsUnblocked, Receiver
    <3> QED
      BY <3>1, <3>2
  <2>3. Flushing => \A r \in Receiver : at[r].pc # "submit"
    BY SubmitBeforeFlush DEF Flushing
  <2> QED
    BY <2>2, <2>3 DEF Held, OnlySelfLocksHold
<1> QED
  BY <1>1, <1>2, <1>3, Invariance, PTL DEF Spec

(* How many steps a receiver whose link is down is from its end.  One that *)
(* is blocked in Feed takes none.                                          *)
StepsLeft(p) ==
  CASE p = "publish" -> 4 [] p = "process" -> 3 [] p = "submit" -> 2
    [] p = "read" -> 1 [] OTHER -> 0

(* What Stop waits for comes nearer: a receiver whose link is down takes   *)
(* nothing up any more, and is at most four steps from its end, each of    *)
(* which brings it nearer, whatever its ping still goes through; one that  *)
(* is blocked in Feed was so when its link went down.                      *)
THEOREM LinksWindDown ==
  Spec => [][\A r \in Receiver : r \notin open =>
               at'[r] = at[r] \/ StepsLeft(at'[r].pc) < StepsLeft(at[r].pc)]_vars
<1> DEFINE Winds == \A r \in Receiver : r \notin open =>
                      at'[r] = at[r] \/ StepsLeft(at'[r].pc) < StepsLeft(at[r].pc)
<1>1. ASSUME Shape, Next PROVE Winds
  <2>1. ASSUME NEW r \in Receiver, NEW pc \in Pc, Goes(r, pc),
               r \in open \/ StepsLeft(pc) < StepsLeft(at[r].pc)
        PROVE  Winds
    BY <1>1, <2>1, Going
  <2>2. ASSUME NEW r \in Sonar, Receive(r) PROVE Winds
    BY <1>1, <2>2 DEF Receive, Shape
  <2>3. CASE ReceiveINS \/ PublishINS
    BY <2>1, <2>3 DEF ReceiveINS, PublishINS, StepsLeft, Pc, Receiver
  <2>4. ASSUME NEW r \in Receiver, Handle(r) PROVE Winds
    <3>1. PICK pc \in Pc : Goes(r, pc) /\ StepsLeft(pc) < StepsLeft(at[r].pc)
      BY <2>4 DEF Handle, Exit, PublishPing, ProcessPing, SubmitFrame, Pc,
                  StepsLeft
    <3> QED
      BY <2>1, <3>1
  <2>5. CASE UNCHANGED at
    BY <2>5
  <2>6. ASSUME NEW r \in Sonar, FeedBlocks(r) PROVE Winds
    BY <2>1, <2>6 DEF FeedBlocks, Receiver, Pc
  <2> QED
    BY <1>1, <2>2, <2>3, <2>4, <2>5, <2>6
    DEF Next, Fill, FillLocks, FillEnds, FillHands, Signal, StopLinks,
        StopLink, CloseLink, AwaitLink, Flush, FlushBegins, FlushLocks,
        FlushFilled, FlushHands, FlushReturns, Disconnect, FinalStats,
        FillHangs, FlushHangs
<1>2. IInv /\ [Next]_vars => [Winds]_vars
  BY <1>1 DEF IInv
<1> QED
  BY <1>2, Invariance, PTL DEF Spec
=============================================================================
