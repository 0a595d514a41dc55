------------------------------ MODULE RedisHub ------------------------------
(***************************************************************************)
(* The Redis hub (internal/redis/hub.go): the sound-speed profile, which   *)
(* Gateway.Init reads and publishes, which other programs publish as well, *)
(* and which listenSSP puts in force while pings are being traced          *)
(* (internal/ssp/raytrace.go); and the frames that the reorganizer's       *)
(* goroutines publish.                                                     *)
(*                                                                         *)
(* A pipeline is not a transaction: its commands are steps of their own.   *)
(* Each of the other programs publishes one profile, which goes by its     *)
(* name.  Of a profile only the number of its layers' boundaries matters.  *)
(*                                                                         *)
(* A definition whose comment begins with `Defect' is not part of Next.    *)
(***************************************************************************)
EXTENDS FrameStore, Sequences

CONSTANTS
  Other,        \* other programs, and the profiles they publish
  Undecodable,  \* those whose payload json.Unmarshal refuses
  Default,      \* what buildDefaultSSP returns
  None,         \* no profile
  Entries,      \* len(Entries) of each profile
  Frame,        \* frames that may be published
  Loads,        \* bound of the model: who publishes in a behaviour
  LastHour,     \* bound of the model: the wall clock stops in this hour
  NDrops        \* bound of the model: connections of the subscription lost

Profile == Other \cup {Default}

ASSUME RedisHubAssumption ==
  /\ Undecodable \subseteq Other
  /\ Default \notin Other /\ None \notin Profile
  /\ Entries \in [Profile -> Nat] /\ Entries[Default] > 1
  /\ HourLength \in Nat \ {0} /\ LastHour \in Nat /\ NDrops \in Nat
  /\ Loads \subseteq [others : SUBSET Other, frames : SUBSET Frame]
  /\ \A f \in Frame : f.time \in Nat

VARIABLES
  latest,    \* the hash ssp:latest, or None
  channel,   \* all messages published on SSPChannel
  other,     \* how far each of the other programs is with PublishSSP
  gw,        \* where the gateway is in Init and Stop
  running,   \* h.running
  client,    \* h.client: "open" or "closed"
  handler,   \* onSSPUpdate is set
  listener,  \* where listenSSP is, "none" before it is started
  sub,       \* its subscription: "none", "on", or "lost"
  from,      \* messages published before the subscription was made
  heard,     \* messages that the subscription has delivered or missed
  own,       \* number of the gateway's own message, 0 if there is none
  drops,     \* connections lost
  config,    \* g.config.SSPProfile
  inForce,   \* the profile of the ray tracer
  beam,      \* the trace of one beam, and the profiles in force during it
  load,      \* the entry of Loads in force
  store,     \* frames in Redis
  indexed,   \* frames entered in an index, in order, and its hour
  stored,    \* frames written to their hash, in order
  wall       \* hour of the wall clock

startVars == <<gw, running, client, handler, own, config>>
listenVars == <<listener, sub, from, heard>>
redisVars == <<latest, channel, other, drops>>
frameVars == <<load, store, indexed, stored, wall>>
traceVars == <<inForce, beam>>
vars == <<startVars, listenVars, redisVars, frameVars, traceVars>>

IdleBeam == [pc |-> "idle", with |-> None, during |-> {}]

Init ==
  /\ load \in Loads
  /\ latest = None /\ channel = <<>>
  /\ other = [o \in Other |-> "ready"]
  /\ gw = "connect" /\ running = FALSE /\ client = "closed"
  /\ handler = FALSE /\ own = 0
  /\ listener = "none" /\ sub = "none" /\ from = 0 /\ heard = 0 /\ drops = 0
  /\ config = Default /\ inForce = None
  /\ beam = IdleBeam
  /\ store = EmptyStore /\ indexed = <<>> /\ stored = <<>> /\ wall = 0

-----------------------------------------------------------------------------
(* Gateway.Init *)

(* Defect: the handler is set when everything else is done. *)
AfterHandlerLast(pc) ==
  CASE pc = "connect" -> "get" [] pc = "get" -> "hset"
    [] pc = "hset" -> "publish" [] pc = "publish" -> "handler"
    [] pc = "handler" -> "started"

(* The order of the calls in Init. *)
After(pc) ==
  CASE pc = "connect" -> "get" [] pc = "get" -> "handler"
    [] pc = "handler" -> "hset" [] pc = "hset" -> "publish"
    [] pc = "publish" -> "started"

Passes(pc) == gw = pc /\ gw' = After(pc)

(* Without an answer to the ping there is no listener, but the client      *)
(* stays, and the gateway goes on with it.                                 *)
Connect ==
  /\ Passes("connect")
  /\ client' = "open"
  /\ \/ running' = TRUE /\ listener' = "test"
     \/ UNCHANGED <<running, listener>>
  /\ UNCHANGED <<handler, own, config, sub, from, heard>>
  /\ UNCHANGED <<redisVars, frameVars, traceVars>>

Decodable(p) == p \notin Undecodable \cup {None}

(* GetLatestSSP may find nothing, something undecodable, or no server; the *)
(* beam processor is made with what is there then.                         *)
GetLatestSSP ==
  /\ Passes("get")
  /\ \/ config' = IF Decodable(latest) THEN latest ELSE config
     \/ config' = config
  /\ inForce' = config'
  /\ UNCHANGED <<running, client, handler, own, beam>>
  /\ UNCHANGED <<listenVars, redisVars, frameVars>>

SetSSPUpdateHandler ==
  /\ Passes("handler")
  /\ handler' = TRUE
  /\ UNCHANGED <<running, client, own, config>>
  /\ UNCHANGED <<listenVars, redisVars, frameVars, traceVars>>

(* PublishSSP: two commands of one pipeline.  The first, or only the       *)
(* second, may fail to reach the server.                                   *)
PublishHSet ==
  /\ Passes("hset")
  /\ latest' = config
  /\ UNCHANGED <<channel, other, drops, running, client, handler, own, config>>
  /\ UNCHANGED <<listenVars, frameVars, traceVars>>

PublishOwn ==
  /\ Passes("publish")
  /\ channel' = Append(channel, config)
  /\ own' = Len(channel) + 1
  /\ UNCHANGED <<latest, other, drops, running, client, handler, config>>
  /\ UNCHANGED <<listenVars, frameVars, traceVars>>

PublishFails ==
  /\ gw \in {"hset", "publish"}
  /\ gw' = After("publish")
  /\ UNCHANGED <<running, client, handler, own, config>>
  /\ UNCHANGED <<listenVars, redisVars, frameVars, traceVars>>

InitStep ==
  \/ Connect \/ GetLatestSSP \/ SetSSPUpdateHandler
  \/ PublishHSet \/ PublishOwn \/ PublishFails

-----------------------------------------------------------------------------
(* Another program publishes its profile, with the same PublishSSP *)

OtherHSet(o) ==
  /\ o \in load.others /\ other[o] = "ready"
  /\ other' = [other EXCEPT ![o] = "publish"]
  /\ latest' = o
  /\ UNCHANGED <<channel, drops>>
  /\ UNCHANGED <<startVars, listenVars, frameVars, traceVars>>

OtherPublish(o) ==
  /\ other[o] = "publish"
  /\ other' = [other EXCEPT ![o] = "done"]
  /\ channel' = Append(channel, o)
  /\ UNCHANGED <<latest, drops>>
  /\ UNCHANGED <<startVars, listenVars, frameVars, traceVars>>

-----------------------------------------------------------------------------
(* listenSSP *)

TestRunning ==
  /\ listener = "test"
  /\ listener' = IF running THEN "subscribe" ELSE "exited"
  /\ UNCHANGED <<sub, from, heard>>
  /\ UNCHANGED <<startVars, redisVars, frameVars, traceVars>>

(* Messages published before this are not delivered. *)
Subscribed == sub' = "on" /\ from' = Len(channel) /\ heard' = Len(channel)

Subscribe ==
  /\ listener = "subscribe"
  /\ listener' = "range"
  /\ IF client = "open" THEN Subscribed ELSE UNCHANGED <<sub, from, heard>>
  /\ UNCHANGED <<startVars, redisVars, frameVars, traceVars>>

Tracing == beam.pc \in {"layers", "mean"}

(* The trace under way, if any, may see profile p from now on. *)
Meanwhile(p) ==
  IF Tracing THEN [beam EXCEPT !.during = @ \cup {p}] ELSE beam

(* Defect: a payload that cannot be decoded ends the subscription, and the *)
(* loop around it makes another.                                           *)
ReceiveBreaking ==
  /\ listener = "range" /\ sub = "on" /\ heard < Len(channel)
  /\ heard' = heard + 1
  /\ LET p == channel[heard + 1]
     IN IF Decodable(p)
          THEN /\ inForce' = IF handler THEN p ELSE inForce
               /\ UNCHANGED <<listener, sub>>
          ELSE /\ listener' = "test" /\ sub' = "none"
               /\ UNCHANGED inForce
  /\ beam' = Meanwhile(inForce')
  /\ UNCHANGED from
  /\ UNCHANGED <<startVars, redisVars, frameVars>>

(* The handler, if it is set by now, is UpdateProfile. *)
Receive ==
  /\ listener = "range" /\ sub = "on" /\ heard < Len(channel)
  /\ heard' = heard + 1
  /\ LET p == channel[heard + 1]
     IN inForce' = IF Decodable(p) /\ handler THEN p ELSE inForce
  /\ beam' = Meanwhile(inForce')
  /\ UNCHANGED <<listener, sub, from>>
  /\ UNCHANGED <<startVars, redisVars, frameVars>>

(* The channel is closed with the client. *)
RangeEnds ==
  /\ listener = "range" /\ client = "closed"
  /\ listener' = "test"
  /\ sub' = "none"
  /\ UNCHANGED <<from, heard>>
  /\ UNCHANGED <<startVars, redisVars, frameVars, traceVars>>

(* The connection breaks, and what was under way is lost; the library      *)
(* makes a new one and subscribes again.                                   *)
LoseConnection ==
  /\ sub = "on" /\ drops < NDrops
  /\ drops' = drops + 1
  /\ sub' = "lost"
  /\ UNCHANGED <<latest, channel, other, listener, from, heard>>
  /\ UNCHANGED <<startVars, frameVars, traceVars>>

Resubscribe ==
  /\ sub = "lost" /\ client = "open"
  /\ Subscribed
  /\ UNCHANGED listener
  /\ UNCHANGED <<startVars, redisVars, frameVars, traceVars>>

ListenSSP == TestRunning \/ Subscribe \/ Receive \/ RangeEnds

-----------------------------------------------------------------------------
(* RayTracer.Trace for one beam of a ping; it reads rt.profile, which no   *)
(* lock protects, up to three times.                                       *)

Traced(pc) ==
  beam' = [beam EXCEPT !.pc = pc, !.with = inForce]

(* Trace: without entries, 1500 m/s. *)
TraceBegins ==
  /\ gw = "started" /\ ~Tracing
  /\ beam' = [pc |-> IF Entries[inForce] = 0 THEN "constant" ELSE "layers",
              with |-> inForce, during |-> {inForce}]
  /\ UNCHANGED inForce
  /\ UNCHANGED <<startVars, listenVars, redisVars, frameVars>>

(* Defect: nLayers == 0. *)
TraceLayersNotZero ==
  /\ beam.pc = "layers"
  /\ Traced(IF Entries[inForce] - 1 = 0 THEN "mean" ELSE "layered")
  /\ UNCHANGED inForce
  /\ UNCHANGED <<startVars, listenVars, redisVars, frameVars>>

(* traceLayered: nLayers < 1 leaves only the mean speed. *)
TraceLayers ==
  /\ beam.pc = "layers"
  /\ Traced(IF Entries[inForce] - 1 < 1 THEN "mean" ELSE "layered")
  /\ UNCHANGED inForce
  /\ UNCHANGED <<startVars, listenVars, redisVars, frameVars>>

(* MeanSpeed, of the profile that is in force by now. *)
TraceMean ==
  /\ beam.pc = "mean"
  /\ Traced(IF Entries[inForce] = 0 THEN "constant" ELSE "averaged")
  /\ UNCHANGED inForce
  /\ UNCHANGED <<startVars, listenVars, redisVars, frameVars>>

Trace == TraceBegins \/ TraceLayers \/ TraceMean

-----------------------------------------------------------------------------
(* PublishFrame, called by the fill goroutines and by Flush: two commands  *)
(* of one pipeline.  The second need not follow: the connection may break, *)
(* or the client be closed.                                                *)

FrameZAdd(f) ==
  /\ gw = "started" /\ f \in load.frames
  /\ \A i \in DOMAIN indexed : indexed[i].frame # f
  /\ store' = ZAdd(store, f, wall)
  /\ indexed' = Append(indexed, [frame |-> f, hour |-> wall])
  /\ UNCHANGED <<load, stored, wall>>
  /\ UNCHANGED <<startVars, listenVars, redisVars, traceVars>>

FrameHSet(f) ==
  /\ client = "open"
  /\ \E i \in DOMAIN indexed : indexed[i].frame = f
  /\ \A i \in DOMAIN stored : stored[i] # f
  /\ store' = HSet(store, f)
  /\ stored' = Append(stored, f)
  /\ UNCHANGED <<load, indexed, wall>>
  /\ UNCHANGED <<startVars, listenVars, redisVars, traceVars>>

HourPasses ==
  /\ wall < LastHour /\ load.frames # {}
  /\ wall' = wall + 1
  /\ UNCHANGED <<load, store, indexed, stored>>
  /\ UNCHANGED <<startVars, listenVars, redisVars, traceVars>>

-----------------------------------------------------------------------------
(* Disconnect, when the links have stopped; after a Connect that failed    *)
(* there is nothing to do.                                                 *)

(* Defect: h.running is not tested. *)
DisconnectAnyway ==
  /\ gw = "started" /\ ~Tracing
  /\ running' = FALSE
  /\ gw' = "close"
  /\ UNCHANGED <<client, handler, own, config>>
  /\ UNCHANGED <<listenVars, redisVars, frameVars, traceVars>>

DisconnectBegins ==
  /\ gw = "started" /\ ~Tracing
  /\ running' = FALSE
  /\ gw' = IF running THEN "close" ELSE "stopped"
  /\ UNCHANGED <<client, handler, own, config>>
  /\ UNCHANGED <<listenVars, redisVars, frameVars, traceVars>>

CloseClient ==
  /\ gw = "close" /\ gw' = "await"
  /\ client' = "closed"
  /\ UNCHANGED <<running, handler, own, config>>
  /\ UNCHANGED <<listenVars, redisVars, frameVars, traceVars>>

DisconnectReturns ==
  /\ gw = "await" /\ gw' = "stopped"
  /\ listener = "exited"
  /\ UNCHANGED <<running, client, handler, own, config>>
  /\ UNCHANGED <<listenVars, redisVars, frameVars, traceVars>>

Terminated == gw = "stopped" /\ UNCHANGED vars

-----------------------------------------------------------------------------

Next ==
  \/ InitStep
  \/ \E o \in Other : OtherHSet(o) \/ OtherPublish(o)
  \/ ListenSSP \/ LoseConnection \/ Resubscribe
  \/ Trace
  \/ \E f \in Frame : FrameZAdd(f) \/ FrameHSet(f)
  \/ HourPasses
  \/ DisconnectBegins \/ CloseClient \/ DisconnectReturns
  \/ Terminated

Spec == Init /\ [][Next]_vars

(* listenSSP runs on, and the library subscribes again after a loss.       *)
(* Nobody has to publish, to go on with Init or to stop.                   *)
FairSpec == Spec /\ WF_vars(ListenSSP) /\ WF_vars(Resubscribe)

-----------------------------------------------------------------------------

(* The shape of the state.  There is a listener, and a wait for it, only   *)
(* where Connect succeeded.                                                *)
TypeOK ==
  /\ load \in Loads
  /\ latest \in Profile \cup {None} /\ channel \in Seq(Profile)
  /\ other \in [Other -> {"ready", "publish", "done"}]
  /\ gw \in {"connect", "get", "handler", "hset", "publish", "started",
             "close", "await", "stopped"}
  /\ running \in BOOLEAN /\ handler \in BOOLEAN
  /\ client \in {"open", "closed"} /\ sub \in {"none", "on", "lost"}
  /\ listener \in {"none", "test", "subscribe", "range", "exited"}
  /\ 0 <= from /\ from <= heard /\ heard <= Len(channel)
  /\ own \in 0 .. Len(channel) /\ drops \in 0 .. NDrops
  /\ config \in Profile /\ (inForce = None <=> gw \in {"connect", "get"})
  /\ running => listener \in {"test", "subscribe", "range"}
  /\ listener = "none" => gw \notin {"close", "await"}
  /\ sub # "none" => listener = "range"
  /\ beam.with \in Profile \cup {None} /\ beam.during \subseteq Profile
  /\ wall \in 0 .. LastHour
  /\ store.hash \subseteq Frame

(* The last message up to number n that can be decoded. *)
LastUpTo(i, n) ==
  /\ i \in 1 .. n /\ Decodable(channel[i])
  /\ \A j \in i + 1 .. n : ~Decodable(channel[j])

(* Once the gateway has published its own profile, the profile in force is *)
(* the last one published that can be decoded, unless that one came before *)
(* the subscription or is still under way: nothing that arrives while      *)
(* Init is at work, or with it, is forgotten in favour of an older one.    *)
InForceIsAnnounced ==
  \A i \in DOMAIN channel :
    own > 0 /\ heard = Len(channel) /\ from < i /\ LastUpTo(i, Len(channel))
      => inForce = channel[i]

(* A beam is traced with a profile that was in force at some time during   *)
(* its trace, layer by layer only if there are layers, and with a mean     *)
(* only if there is something to average: whatever update comes between    *)
(* the test of a profile and its use.                                      *)
TracesSound ==
  /\ beam.pc = "layered" => Entries[beam.with] >= 2
  /\ beam.pc = "averaged" => Entries[beam.with] >= 1
  /\ beam.pc = "constant" => Entries[beam.with] = 0
  /\ beam.pc # "idle" => beam.with \in beam.during

(* A profile that can be decoded and is published while the listener is    *)
(* subscribed and the handler set is put in force, unless the connection   *)
(* is lost or the gateway stops.                                           *)
UpdatesArrive ==
  \A p \in Other \ Undecodable :
    (/\ handler /\ sub = "on"
     /\ \E i \in heard + 1 .. Len(channel) : channel[i] = p)
    ~> (inForce = p \/ drops > 0 \/ gw \in {"close", "await", "stopped"})

IndexedLater(f, g) ==
  \E i, j \in DOMAIN indexed :
    i < j /\ indexed[i].frame = f /\ indexed[j].frame = g

StoredLater(f, g) ==
  \E i, j \in DOMAIN stored : i < j /\ stored[i] = f /\ stored[j] = g

(* Nobody has used the counter of f since, but for the filled frame. *)
Unrepeated(f) ==
  \A g \in Frame : g.ping = f.ping =>
    /\ ~StoredLater(f, g)
    /\ g.time # f.time => ~IndexedLater(f, g)

OnTime(f) ==
  \E i \in DOMAIN indexed : indexed[i] = [frame |-> f, hour |-> HourOf(f.time)]

Times == {f.time : f \in Frame}

(* A frame published in the hour of its own timestamp is in the answer to  *)
(* each range that holds it, until its counter comes again; and a frame in *)
(* the answer that is not of the range has the counter of one that is.     *)
RangeFindsFrames ==
  \A start, end \in Times :
    LET answer == GetFramesInRange(store, start, end)
    IN /\ \A i \in DOMAIN stored :
            LET f == stored[i]
            IN OnTime(f) /\ Unrepeated(f) /\ f.time \in start .. end
                 => f \in answer
       /\ \A f \in answer : f.time \in start .. end \/
            \E i \in DOMAIN indexed :
              LET g == indexed[i].frame
              IN g # f /\ g.ping = f.ping /\ g.time \in start .. end
=============================================================================
