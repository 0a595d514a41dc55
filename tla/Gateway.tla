------------------------------ MODULE Gateway ------------------------------
(***************************************************************************)
(* The gateway as a whole, from running to stopped (cmd/gateway/main.go):  *)
(* the goroutines of the sonar links and of the INS reader hand what they  *)
(* read to the Redis hub, the beam processor and the reorganizer, whose    *)
(* fill goroutines hand their points to the hub; Gateway.Stop takes the    *)
(* parts down one after the other.                                         *)
(*                                                                         *)
(* Each part is reduced to what the others see of it: Assembler, TCPServer,*)
(* Reorganizer, VoidFiller and INSReader have the details.  A read yields  *)
(* one ping, and pings are numbered; a call of Redis takes a step, and     *)
(* its result does not matter to the caller.                               *)
(*                                                                         *)
(* Two things that Stop waits for may never end, each because a goroutine  *)
(* locks a mutex it holds itself: a Feed that reports too many errors in a *)
(* row (Assembler), and, with AutoFitVariogram, a fill that meets a void   *)
(* cell (VoidFiller).  Both are steps of this module.                      *)
(*                                                                         *)
(* A definition whose comment begins with `Defect' is not part of Next.    *)
(***************************************************************************)
EXTENDS Integers, FiniteSets, Sequences, SequencesExt

CONSTANTS
  Handler,           \* connection handlers of the TCP server
  Udp, Ins,          \* the receiving goroutines of the other two links
  NPings,            \* bound of the model: pings received in a behaviour
  MaxCacheFrames,    \* maxCacheFrames of the reorganizer
  FillEveryNFrames,  \* fillEveryNFrames of the reorganizer
  AutoFitVariogram   \* of the filler's config: TRUE in the gateway

ASSUME GatewayAssumption ==
  /\ Udp \notin Handler /\ Ins \notin Handler /\ Udp # Ins
  /\ NPings \in Nat
  /\ MaxCacheFrames \in Nat /\ FillEveryNFrames \in Nat \ {0}
  /\ AutoFitVariogram \in BOOLEAN

Sonar == Handler \cup {Udp}

Receiver == Sonar \cup {Ins}

VARIABLES
  at,         \* where a receiver is, with the ping it is working on
  open,       \* the receivers whose link is running, its socket open
  insSeen,    \* insReader.latest is not nil
  pings,      \* pings received
  cache,      \* frames in the reorganizer, oldest first
  submitted,  \* frames submitted to it, in order
  sinceFill,  \* framesSinceFill
  fills,      \* fill goroutines: their snapshot and where they are
  vfmu,       \* vf.mu: "free", held by a "fill" or by "flush", or "hung":
              \* the goroutine that holds it waits for it
  hub,        \* the Redis client: "open" or "closed"
  handed,     \* frames for which PublishFrame was called on an open client
  flushing,   \* frames that Flush has still to hand over
  stop        \* how far Gateway.Stop has come

vars == <<at, open, insSeen, pings, cache, submitted, sinceFill, fills, vfmu,
          hub, handed, flushing, stop>>

sonarVars == <<at, open, insSeen, pings>>
cacheVars == <<cache, submitted, sinceFill>>
fillVars == <<fills, vfmu>>
hubVars == <<hub, handed>>
stopVars == <<flushing, stop>>

Init ==
  /\ at = [r \in Receiver |-> [pc |-> "read", ping |-> 0]]
  /\ open = Receiver
  /\ insSeen = FALSE
  /\ pings = 0
  /\ cache = <<>> /\ submitted = <<>> /\ sinceFill = 0
  /\ fills = {} /\ vfmu = "free"
  /\ hub = "open" /\ handed = {}
  /\ flushing = <<>> /\ stop = "running"

Goes(r, pc) == at' = [at EXCEPT ![r].pc = pc]

-----------------------------------------------------------------------------
(* The sonar links *)

Receive(r) ==
  /\ at[r].pc = "read" /\ r \in open
  /\ pings < NPings
  /\ pings' = pings + 1
  /\ at' = [at EXCEPT ![r] = [pc |-> "publish", ping |-> pings + 1]]
  /\ UNCHANGED <<open, insSeen>>
  /\ UNCHANGED <<cacheVars, fillVars, hubVars, stopVars>>

(* The bytes report more than maxConsecutiveErrors errors in a row, and    *)
(* handleAssemblerError locks the mutex that Feed holds: no action leaves  *)
(* "blocked".                                                              *)
FeedBlocks(r) ==
  /\ at[r].pc = "read" /\ r \in open
  /\ Goes(r, "blocked")
  /\ UNCHANGED <<open, insSeen, pings>>
  /\ UNCHANGED <<cacheVars, fillVars, hubVars, stopVars>>

(* The socket is closed: the loop sees that running is false, and ends. *)
Exit(r) ==
  /\ at[r].pc = "read" /\ r \notin open
  /\ Goes(r, "exited")
  /\ UNCHANGED <<open, insSeen, pings>>
  /\ UNCHANGED <<cacheVars, fillVars, hubVars, stopVars>>

(* The ping handler: PublishPing, then ProcessPing. *)
PublishPing(r) ==
  /\ at[r].pc = "publish" /\ r \in Sonar
  /\ Goes(r, "process")
  /\ UNCHANGED <<open, insSeen, pings>>
  /\ UNCHANGED <<cacheVars, fillVars, hubVars, stopVars>>

(* Without INS data the ping is dropped. *)
ProcessPing(r) ==
  /\ at[r].pc = "process"
  /\ Goes(r, IF insSeen THEN "submit" ELSE "read")
  /\ UNCHANGED <<open, insSeen, pings>>
  /\ UNCHANGED <<cacheVars, fillVars, hubVars, stopVars>>

(* r.mu is held by Flush while stop is one of these. *)
Flushing == stop \in {"flush", "flushing", "handing"}

(* Defect: nothing is evicted. *)
SubmitFrameEvictless(r) ==
  /\ at[r].pc = "submit"
  /\ ~Flushing
  /\ Goes(r, "read")
  /\ submitted' = Append(submitted, at[r].ping)
  /\ cache' = Append(cache, at[r].ping)
  /\ UNCHANGED <<open, insSeen, pings, sinceFill>>
  /\ UNCHANGED <<fillVars, hubVars, stopVars>>

(* SubmitFrame under r.mu: into the cache, the oldest out of it, and every *)
(* so often a fill of what is in it.                                       *)
SubmitFrame(r) ==
  /\ at[r].pc = "submit"
  /\ ~Flushing
  /\ Goes(r, "read")
  /\ submitted' = Append(submitted, at[r].ping)
  /\ LET all == Append(cache, at[r].ping)
         due == sinceFill + 1 >= FillEveryNFrames
     IN /\ cache' = IF Len(all) > MaxCacheFrames THEN Tail(all) ELSE all
        /\ sinceFill' = IF due THEN 0 ELSE sinceFill + 1
        /\ fills' = IF due /\ Len(cache') >= 2
                      THEN fills \cup {[of |-> cache', pc |-> "lock"]}
                      ELSE fills
  /\ UNCHANGED <<open, insSeen, pings, vfmu>>
  /\ UNCHANGED <<hubVars, stopVars>>

-----------------------------------------------------------------------------
(* The INS link: the data become the latest, then PublishINS *)

ReceiveINS ==
  /\ at[Ins].pc = "read" /\ Ins \in open
  /\ insSeen' = TRUE
  /\ Goes(Ins, "publish")
  /\ UNCHANGED <<open, pings>>
  /\ UNCHANGED <<cacheVars, fillVars, hubVars, stopVars>>

PublishINS ==
  /\ at[Ins].pc = "publish"
  /\ Goes(Ins, "read")
  /\ UNCHANGED <<open, insSeen, pings>>
  /\ UNCHANGED <<cacheVars, fillVars, hubVars, stopVars>>

-----------------------------------------------------------------------------
(* The fill goroutines *)

FillLocks(t) ==
  /\ t.pc = "lock" /\ vfmu = "free"
  /\ vfmu' = "fill"
  /\ fills' = (fills \ {t}) \cup {[t EXCEPT !.pc = "fill"]}
  /\ UNCHANGED <<sonarVars, cacheVars, hubVars, stopVars>>

(* Defect: the goroutine that fails keeps vf.mu. *)
FillEndsLocked(t) ==
  /\ t.pc = "fill" /\ vfmu = "fill"
  /\ \/ /\ fills' = (fills \ {t}) \cup {[t EXCEPT !.pc = "hand"]}
        /\ vfmu' = "free"
     \/ fills' = fills \ {t} /\ vfmu' = vfmu
  /\ UNCHANGED <<sonarVars, cacheVars, hubVars, stopVars>>

(* With points, or with an error: with AutoFitVariogram this takes frames  *)
(* without points, or a grid without void cells.                           *)
FillEnds(t) ==
  /\ t.pc = "fill" /\ vfmu = "fill"
  /\ vfmu' = "free"
  /\ \/ fills' = (fills \ {t}) \cup {[t EXCEPT !.pc = "hand"]}
     \/ fills' = fills \ {t}
  /\ UNCHANGED <<sonarVars, cacheVars, hubVars, stopVars>>

(* The grid has void cells, and with AutoFitVariogram ProcessAndFill calls *)
(* UpdateVariogramFromGrid, which locks vf.mu again: no action leaves      *)
(* "hung".                                                                 *)
SelfLock ==
  /\ AutoFitVariogram
  /\ vfmu' = "hung"

FillHangs(t) ==
  /\ t.pc = "fill" /\ vfmu = "fill"
  /\ SelfLock
  /\ UNCHANGED fills
  /\ UNCHANGED <<sonarVars, cacheVars, hubVars, stopVars>>

(* Nobody waits for this: the client may be closed by now. *)
FillHands(t) ==
  /\ t.pc = "hand"
  /\ fills' = fills \ {t}
  /\ UNCHANGED vfmu
  /\ UNCHANGED <<sonarVars, cacheVars, hubVars, stopVars>>

Fill(t) == FillLocks(t) \/ FillEnds(t) \/ FillHands(t)

-----------------------------------------------------------------------------
(* Gateway.Stop, on a signal: every Stop of a link ends its running and    *)
(* closes its sockets, then waits for its goroutines.                      *)

Takes(from, to) == stop = from /\ stop' = to

CloseLink(from, link, to) ==
  /\ Takes(from, to)
  /\ open' = open \ link
  /\ UNCHANGED <<at, insSeen, pings, flushing>>
  /\ UNCHANGED <<cacheVars, fillVars, hubVars>>

Exited(link) == \A r \in link : at[r].pc = "exited"

AwaitLink(from, link, to) ==
  /\ Takes(from, to)
  /\ Exited(link)
  /\ UNCHANGED flushing
  /\ UNCHANGED <<sonarVars, cacheVars, fillVars, hubVars>>

(* Defect: the goroutines are not awaited. *)
StopLinkUnawaited(from, await, link, to) ==
  \/ CloseLink(from, link, await)
  \/ /\ Takes(await, to)
     /\ UNCHANGED flushing
     /\ UNCHANGED <<sonarVars, cacheVars, fillVars, hubVars>>

StopLink(from, await, link, to) ==
  \/ CloseLink(from, link, await)
  \/ AwaitLink(await, link, to)

Signal ==
  /\ Takes("running", "tcp")
  /\ UNCHANGED flushing
  /\ UNCHANGED <<sonarVars, cacheVars, fillVars, hubVars>>

StopLinks ==
  \/ StopLink("tcp", "await tcp", Handler, "udp")
  \/ StopLink("udp", "await udp", {Udp}, "ins")
  \/ StopLink("ins", "await ins", {Ins}, "flush")

(* Flush takes r.mu and the cache; two frames or more go to the filler. *)
FlushBegins ==
  /\ Takes("flush", IF Len(cache) >= 2 THEN "flushing" ELSE "handing")
  /\ flushing' = cache
  /\ cache' = <<>>
  /\ UNCHANGED <<submitted, sinceFill>>
  /\ UNCHANGED <<sonarVars, fillVars, hubVars>>

FlushLocks ==
  /\ stop = "flushing" /\ vfmu = "free"
  /\ vfmu' = "flush"
  /\ UNCHANGED fills
  /\ UNCHANGED <<sonarVars, cacheVars, hubVars, stopVars>>

(* Points are one frame more to hand over, the same frames being in it. *)
FlushFilled ==
  /\ Takes("flushing", "handing")
  /\ vfmu = "flush"
  /\ vfmu' = "free"
  /\ UNCHANGED <<fills, flushing>>
  /\ UNCHANGED <<sonarVars, cacheVars, hubVars>>

(* Defect: the first frame only. *)
FlushHandsFirst ==
  /\ stop = "handing" /\ flushing # <<>>
  /\ handed' = IF hub = "open" THEN handed \cup {Head(flushing)} ELSE handed
  /\ flushing' = <<>>
  /\ UNCHANGED <<hub, stop>>
  /\ UNCHANGED <<sonarVars, cacheVars, fillVars>>

(* The fill of Flush likewise, with r.mu held as well. *)
FlushHangs ==
  /\ stop = "flushing" /\ vfmu = "flush"
  /\ SelfLock
  /\ UNCHANGED fills
  /\ UNCHANGED <<sonarVars, cacheVars, hubVars, stopVars>>

(* onReadyFrames: PublishFrame for each, under r.mu. *)
FlushHands ==
  /\ stop = "handing" /\ flushing # <<>>
  /\ handed' = IF hub = "open" THEN handed \cup {Head(flushing)} ELSE handed
  /\ flushing' = Tail(flushing)
  /\ UNCHANGED <<hub, stop>>
  /\ UNCHANGED <<sonarVars, cacheVars, fillVars>>

FlushReturns ==
  /\ flushing = <<>>
  /\ Takes("handing", "disconnect")
  /\ UNCHANGED flushing
  /\ UNCHANGED <<sonarVars, cacheVars, fillVars, hubVars>>

(* Disconnect closes the client. *)
Disconnect ==
  /\ Takes("disconnect", "stats")
  /\ hub' = "closed"
  /\ UNCHANGED <<handed, flushing>>
  /\ UNCHANGED <<sonarVars, cacheVars, fillVars>>

(* printFinalStats asks each part for its numbers; GetStats of the filler  *)
(* waits for vf.mu.                                                        *)
FinalStats ==
  /\ Takes("stats", "stopped")
  /\ vfmu = "free"
  /\ UNCHANGED flushing
  /\ UNCHANGED <<sonarVars, cacheVars, fillVars, hubVars>>

Flush ==
  FlushBegins \/ FlushLocks \/ FlushFilled \/ FlushHands \/ FlushReturns

-----------------------------------------------------------------------------

Handle(r) ==
  Exit(r) \/ PublishPing(r) \/ ProcessPing(r) \/ SubmitFrame(r)

Next ==
  \/ \E r \in Sonar : Receive(r) \/ FeedBlocks(r)
  \/ ReceiveINS \/ PublishINS
  \/ \E r \in Receiver : Handle(r)
  \/ \E t \in fills : Fill(t) \/ FillHangs(t)
  \/ FlushHangs
  \/ Signal \/ StopLinks \/ Flush \/ Disconnect \/ FinalStats

Spec == Init /\ [][Next]_vars

(* Goroutines run on, as does a Stop that has begun; a Feed or a fill ends *)
(* that does not lock itself.  Nobody has to send anything or to ask for   *)
(* the Stop, and no Feed or fill has to lock itself.                       *)
FairSpec ==
  /\ Spec
  /\ \A r \in Receiver : WF_vars(Handle(r))
  /\ WF_vars(PublishINS)
  /\ WF_vars(\E t \in fills : Fill(t))
  /\ WF_vars(StopLinks \/ Flush \/ Disconnect \/ FinalStats)

-----------------------------------------------------------------------------

(* The shape of the state; the cache holds the newest frames submitted,    *)
(* until Flush takes them.                                                 *)
TypeOK ==
  /\ \A r \in Receiver : /\ at[r].ping \in 0..pings
                          /\ at[r].pc \in {"read", "publish", "process",
                                           "submit", "blocked", "exited"}
  /\ open \subseteq Receiver
  /\ insSeen \in BOOLEAN
  /\ pings \in 0..NPings
  /\ Len(cache) <= MaxCacheFrames /\ IsSuffix(cache, submitted)
  /\ sinceFill \in 0..(FillEveryNFrames - 1)
  /\ \A t \in fills : /\ ToSet(t.of) \subseteq ToSet(submitted)
                      /\ t.pc \in {"lock", "fill", "hand"}
  /\ hub \in {"open", "closed"}
  /\ handed \subseteq ToSet(submitted)
  /\ hub = "closed" <=> stop \in {"stats", "stopped"}

(* While somebody may still use the Redis client for a ping, for INS data  *)
(* or for a frame of the cache, it is open: Disconnect comes last.  (Only  *)
(* fill goroutines may come later.)                                        *)
HubOutlivesLinks ==
  hub = "closed" => Exited(Receiver) /\ cache = <<>> /\ flushing = <<>>

(* When the gateway has stopped, the newest maxCacheFrames of all frames   *)
(* ever submitted, from whatever link and however late, were handed to an  *)
(* open client.                                                            *)
NothingLeftBehind ==
  stop = "stopped" =>
    \A i \in DOMAIN submitted :
      i > Len(submitted) - MaxCacheFrames => submitted[i] \in handed

(* Stop waits for a link with a goroutine that has blocked itself. *)
FeedHangs ==
  \/ stop = "await tcp" /\ \E h \in Handler : at[h].pc = "blocked"
  \/ stop = "await udp" /\ at[Udp].pc = "blocked"

(* Stop waits for vf.mu, in Flush or for the final statistics, and its     *)
(* holder has blocked itself.                                              *)
FillHang == stop \in {"flushing", "stats"} /\ vfmu = "hung"

(* A Stop that has begun ends, or waits for a goroutine that has locked    *)
(* itself in a Feed or a fill.  Nothing else holds it up: no receiver      *)
(* waits for the mutex that Flush holds while Flush waits for the filler,  *)
(* and no fill that fails keeps vf.mu.                                     *)
StopEndsOrHangs == stop # "running" ~> stop = "stopped" \/ FeedHangs \/ FillHang
=============================================================================
