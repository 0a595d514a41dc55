--------------------------- MODULE RedisHubProofs ---------------------------
(***************************************************************************)
(* Proofs about RedisHub, for any number of other programs, profiles,      *)
(* frames and lost connections: the type invariant, that the profile in    *)
(* force is the last one announced (InForceIsAnnounced), that no update    *)
(* spoils a trace that is under way (TracesSound), that a query by time    *)
(* finds the frames of its range (RangeFindsFrames), and that each step of *)
(* the listener brings an update nearer (UpdatesGetNearer).                *)
(***************************************************************************)
EXTENDS RedisHub, TLAPS

(* TypeOK and what it takes to keep it: the handler is set exactly from    *)
(* its step of Init on, which is after the first profile is in force; and  *)
(* beams are traced only between Init and Disconnect.                      *)
Shape ==
  /\ TypeOK
  /\ from \in Nat /\ heard \in Nat
  /\ inForce \in Profile \cup {None}
  /\ beam \in [pc : {"idle", "constant", "layers", "mean", "layered",
                     "averaged"},
               with : Profile \cup {None}, during : SUBSET Profile]
  /\ store = [index |-> store.index, hash |-> store.hash]
  /\ handler <=> gw \notin {"connect", "get", "handler"}
  /\ Tracing => gw = "started"
  /\ gw = "connect" => listener = "none"

(* What the gateway publishes can be decoded, and is published after the   *)
(* handler is set.                                                         *)
Known ==
  /\ Decodable(config)
  /\ own > 0 => handler /\ own <= Len(channel) /\ Decodable(channel[own])

(* InForceIsAnnounced for the messages heard so far, from the gateway's    *)
(* own one on.                                                             *)
Announced ==
  \A i \in 1 .. heard :
    own > 0 /\ own <= i /\ from < i /\ LastUpTo(i, heard)
      => inForce = channel[i]

(* A trace under way has seen the profile in force, as one of those that   *)
(* were in force since it began.                                           *)
InSight == Tracing => inForce \in beam.during

-----------------------------------------------------------------------------

LEMMA AfterValues ==
  /\ After("connect") = "get"
  /\ After("get") = "handler"
  /\ After("handler") = "hset"
  /\ After("hset") = "publish"
  /\ After("publish") = "started"
BY DEF After

LEMMA ShapeInit ==
  ASSUME Init
  PROVE  Shape
<1> USE RedisHubAssumption DEF Init, Profile
<1>1. running \in BOOLEAN /\ handler \in BOOLEAN
  OBVIOUS
<1>2. channel \in Seq(Profile) /\ Len(channel) = 0
  OBVIOUS
<1>3. beam \in [pc : {"idle"}, with : {None}, during : {{}}]
  BY DEF IdleBeam
<1>4. store = [index |-> {}, hash |-> {}]
  BY DEF EmptyStore
<1> QED
  BY <1>1, <1>2, <1>3, <1>4 DEF Shape, TypeOK, Tracing

USE DEF startVars, listenVars, redisVars, frameVars, traceVars

LEMMA ShapeInitStep ==
  ASSUME Shape, InitStep
  PROVE  Shape'
<1> USE RedisHubAssumption, AfterValues DEF Shape, TypeOK, Passes, Tracing
<1>1. CASE Connect
  <2>1. running' \in BOOLEAN
    BY <1>1 DEF Connect
  <2>2. running' => listener' = "test"
    BY <1>1 DEF Connect
  <2>3. listener' \in {listener, "test"} /\ sub' = "none"
    BY <1>1 DEF Connect
  <2> QED
    BY <1>1, <2>1, <2>2, <2>3 DEF Connect
<1>2. CASE GetLatestSSP
  BY <1>2 DEF GetLatestSSP, Decodable, Profile
<1>3. CASE SetSSPUpdateHandler
  BY <1>3 DEF SetSSPUpdateHandler
<1>4. CASE PublishHSet
  BY <1>4 DEF PublishHSet
<1>5. CASE PublishOwn
  <2>1. /\ channel' \in Seq(Profile) /\ Len(channel) \in Nat
        /\ Len(channel') = Len(channel) + 1
    BY <1>5 DEF PublishOwn
  <2>2. own' \in 0 .. Len(channel') /\ heard' <= Len(channel')
    BY <1>5, <2>1 DEF PublishOwn
  <2>3. gw' = "started" /\ gw = "publish" /\ UNCHANGED <<handler, inForce>>
    BY <1>5 DEF PublishOwn
  <2>4. TypeOK'
    BY <1>5, <2>1, <2>2, <2>3 DEF PublishOwn
  <2>5. ~Tracing' /\ beam' = beam /\ inForce' = inForce
    BY <1>5, <2>3 DEF PublishOwn
  <2> HIDE DEF TypeOK, Tracing
  <2> QED
    BY <1>5, <2>3, <2>4, <2>5 DEF PublishOwn
<1>6. CASE PublishFails
  BY <1>6 DEF PublishFails
<1> QED
  BY <1>1, <1>2, <1>3, <1>4, <1>5, <1>6 DEF InitStep

LEMMA ShapeOther ==
  ASSUME Shape, NEW o \in Other, OtherHSet(o) \/ OtherPublish(o)
  PROVE  Shape'
<1> USE RedisHubAssumption DEF Shape, TypeOK, Tracing, Profile
<1>1. CASE OtherHSet(o)
  BY <1>1 DEF OtherHSet
<1>2. CASE OtherPublish(o)
  BY <1>2 DEF OtherPublish
<1> QED
  BY <1>1, <1>2

LEMMA ShapeListen ==
  ASSUME Shape, ListenSSP \/ LoseConnection \/ Resubscribe
  PROVE  Shape'
<1> USE RedisHubAssumption DEF Shape, TypeOK, Tracing
<1>1. CASE TestRunning
  BY <1>1 DEF TestRunning
<1>2. CASE Subscribe
  BY <1>2 DEF Subscribe, Subscribed
<1>3. CASE Receive
  <2>1. heard + 1 \in 1 .. Len(channel) /\ heard' = heard + 1
    BY <1>3 DEF Receive
  <2>2. inForce' \in Profile \cup {inForce}
    BY <1>3, <2>1 DEF Receive
  <2>3. inForce' = None <=> inForce = None
    BY <1>3, <2>1, <2>2 DEF Receive, Profile
  <2>4. beam' = Meanwhile(inForce')
    BY <1>3 DEF Receive
  <2>5. Tracing => inForce' \in Profile
    BY <2>2, <2>3 DEF Tracing
  <2>6. /\ beam'.pc = beam.pc
        /\ beam' \in [pc : {"idle", "constant", "layers", "mean", "layered",
                             "averaged"},
                       with : Profile \cup {None}, during : SUBSET Profile]
    BY <2>4, <2>5 DEF Meanwhile
  <2> QED
    <3>1. TypeOK'
      <4>1. (0 <= from /\ from <= heard /\ heard <= Len(channel))'
        BY <1>3, <2>1 DEF Receive
      <4>2. (inForce = None <=> gw \in {"connect", "get"})'
        BY <1>3, <2>3 DEF Receive
      <4>3. /\ beam'.with \in Profile \cup {None}
            /\ beam'.during \subseteq Profile
        BY <2>6
      <4> QED
        BY <1>3, <4>1, <4>2, <4>3 DEF Receive
    <3>2. (Tracing => gw = "started")'
      BY <1>3, <2>6 DEF Receive
    <3> HIDE DEF TypeOK, Tracing
    <3> QED
      BY <1>3, <2>1, <2>2, <2>6, <3>1, <3>2 DEF Receive
<1>4. CASE RangeEnds
  BY <1>4 DEF RangeEnds
<1>5. CASE LoseConnection
  BY <1>5 DEF LoseConnection
<1>6. CASE Resubscribe
  BY <1>6 DEF Resubscribe, Subscribed
<1> QED
  BY <1>1, <1>2, <1>3, <1>4, <1>5, <1>6 DEF ListenSSP

LEMMA ShapeTrace ==
  ASSUME Shape, Trace
  PROVE  Shape'
<1> USE RedisHubAssumption DEF Shape, TypeOK, Tracing
<1>1. CASE TraceBegins
  BY <1>1 DEF TraceBegins
<1>2. CASE TraceLayers
  BY <1>2 DEF TraceLayers, Traced
<1>3. CASE TraceMean
  BY <1>3 DEF TraceMean, Traced
<1> QED
  BY <1>1, <1>2, <1>3 DEF Trace

LEMMA ShapeFrames ==
  ASSUME Shape, HourPasses \/ \E f \in Frame : FrameZAdd(f) \/ FrameHSet(f)
  PROVE  Shape'
<1> USE RedisHubAssumption DEF Shape, TypeOK, Tracing
<1>1. CASE HourPasses
  BY <1>1 DEF HourPasses
<1>2. ASSUME NEW f \in Frame, FrameZAdd(f)
      PROVE  Shape'
  BY <1>2 DEF FrameZAdd, ZAdd
<1>3. ASSUME NEW f \in Frame, FrameHSet(f)
      PROVE  Shape'
  <2>1. store' = [index |-> store.index,
                  hash |-> {g \in store.hash : g.ping # f.ping} \cup {f}]
    BY <1>3 DEF FrameHSet, HSet
  <2> QED
    BY <1>3, <2>1 DEF FrameHSet
<1> QED
  BY <1>1, <1>2, <1>3

LEMMA ShapeDisconnect ==
  ASSUME Shape, DisconnectBegins \/ CloseClient \/ DisconnectReturns
  PROVE  Shape'
<1> USE DEF Shape, TypeOK, Tracing
<1>1. CASE DisconnectBegins
  BY <1>1 DEF DisconnectBegins
<1>2. CASE CloseClient
  BY <1>2 DEF CloseClient
<1>3. CASE DisconnectReturns
  BY <1>3 DEF DisconnectReturns
<1> QED
  BY <1>1, <1>2, <1>3

LEMMA ShapeStutter ==
  ASSUME Shape, UNCHANGED vars
  PROVE  Shape'
BY DEF Shape, TypeOK, Tracing, vars

LEMMA ShapeNext ==
  ASSUME Shape, [Next]_vars
  PROVE  Shape'
BY ShapeInitStep, ShapeOther, ShapeListen, ShapeTrace, ShapeFrames,
   ShapeDisconnect, ShapeStutter
   DEF Next, Terminated

LEMMA ShapeAlways == Spec => []Shape
<1>1. Init => Shape
  BY ShapeInit
<1>2. Shape /\ [Next]_vars => Shape'
  BY ShapeNext
<1> QED
  BY <1>1, <1>2, PTL DEF Spec

(* Every state has its type; there is a listener, and Disconnect waits for *)
(* one, only where Connect succeeded (hub.go, Connect and Disconnect).     *)
THEOREM TypeCorrect == Spec => []TypeOK
<1>1. Shape => TypeOK
  BY DEF Shape
<1> QED
  BY <1>1, ShapeAlways, PTL

-----------------------------------------------------------------------------
(* The profile in force *)

annVars == <<channel, from, heard, own, inForce, handler, config>>

(* The steps that matter to Announced and Known. *)
LEMMA AnnouncingSteps ==
  ASSUME [Next]_vars
  PROVE  \/ UNCHANGED annVars
         \/ GetLatestSSP \/ SetSSPUpdateHandler \/ PublishOwn
         \/ \E o \in Other : OtherPublish(o)
         \/ Subscribed /\ UNCHANGED <<channel, own, inForce, handler, config>>
         \/ Receive
<1> USE DEF annVars
<1>1. CASE InitStep
  BY <1>1 DEF InitStep, Connect, PublishHSet, PublishFails
<1>2. ASSUME NEW o \in Other, OtherHSet(o)
      PROVE  UNCHANGED annVars
  BY <1>2 DEF OtherHSet
<1>3. CASE ListenSSP \/ LoseConnection \/ Resubscribe
  BY <1>3 DEF ListenSSP, TestRunning, Subscribe, RangeEnds, LoseConnection,
              Resubscribe
<1>4. CASE Trace
  BY <1>4 DEF Trace, TraceBegins, TraceLayers, TraceMean
<1>5. ASSUME NEW f \in Frame, FrameZAdd(f) \/ FrameHSet(f)
      PROVE  UNCHANGED annVars
  BY <1>5 DEF FrameZAdd, FrameHSet
<1>6. CASE HourPasses \/ DisconnectBegins \/ CloseClient \/ DisconnectReturns
  BY <1>6 DEF HourPasses, DisconnectBegins, CloseClient, DisconnectReturns
<1>7. CASE UNCHANGED vars
  BY <1>7 DEF vars
<1> QED
  BY <1>1, <1>2, <1>3, <1>4, <1>5, <1>6, <1>7 DEF Next, Terminated

(* What is published goes to the end: the messages that were there stay.   *)
LEMMA AppendKeeps ==
  ASSUME NEW p \in Profile, channel \in Seq(Profile),
         channel' = Append(channel, p)
  PROVE  /\ Len(channel) \in Nat /\ Len(channel') = Len(channel) + 1
         /\ channel'[Len(channel) + 1] = p
         /\ \A i \in 1 .. Len(channel) : channel'[i] = channel[i]
OBVIOUS

LEMMA KnownInit ==
  ASSUME Init
  PROVE  Known
BY RedisHubAssumption DEF Init, Known, Decodable, Profile

LEMMA KnownNext ==
  ASSUME Shape, Known, [Next]_vars
  PROVE  Known'
<1> USE DEF Known, Decodable
<1>1. CASE UNCHANGED annVars
  BY <1>1 DEF annVars
<1>2. CASE GetLatestSSP
  BY <1>2 DEF GetLatestSSP
<1>3. CASE SetSSPUpdateHandler
  BY <1>3 DEF SetSSPUpdateHandler
<1>4. CASE PublishOwn
  <2>1. /\ channel' = Append(channel, config) /\ config \in Profile
        /\ channel \in Seq(Profile) /\ handler
    BY <1>4 DEF PublishOwn, Passes, Shape, TypeOK
  <2> QED
    BY <1>4, <2>1, AppendKeeps DEF PublishOwn
<1>5. ASSUME NEW o \in Other, OtherPublish(o)
      PROVE  Known'
  <2>1. /\ channel' = Append(channel, o) /\ o \in Profile
        /\ channel \in Seq(Profile) /\ own \in Nat
    BY <1>5 DEF OtherPublish, Shape, TypeOK, Profile
  <2> QED
    BY <1>5, <2>1, AppendKeeps DEF OtherPublish
<1>6. CASE Subscribed /\ UNCHANGED <<channel, own, inForce, handler, config>>
  BY <1>6
<1>7. CASE Receive
  BY <1>7 DEF Receive
<1> QED
  BY <1>1, <1>2, <1>3, <1>4, <1>5, <1>6, <1>7, AnnouncingSteps

LEMMA AnnouncedNext ==
  ASSUME Shape, Known, Announced, [Next]_vars
  PROVE  Announced'
<1>1. CASE UNCHANGED annVars
  BY <1>1 DEF annVars, Announced, LastUpTo, Decodable
<1>2. CASE GetLatestSSP \/ SetSSPUpdateHandler
  <2>1. own' = own /\ ~(own > 0)
    BY <1>2 DEF GetLatestSSP, SetSSPUpdateHandler, Passes, Shape, Known
  <2> QED
    BY <2>1 DEF Announced
<1>3. CASE PublishOwn
  <2>1. own' = Len(channel) + 1 /\ heard' = heard
    BY <1>3 DEF PublishOwn
  <2>2. heard \in Nat /\ Len(channel) \in Nat /\ heard <= Len(channel)
    BY DEF Shape, TypeOK
  <2> QED
    BY <2>1, <2>2 DEF Announced
<1>4. ASSUME NEW o \in Other, OtherPublish(o)
      PROVE  Announced'
  <2>1. /\ channel' = Append(channel, o) /\ o \in Profile
        /\ channel \in Seq(Profile)
        /\ UNCHANGED <<from, heard, own, inForce>>
    BY <1>4 DEF OtherPublish, Shape, TypeOK, Profile
  <2>2. \A i \in 1 .. heard : channel'[i] = channel[i]
    BY <2>1, AppendKeeps DEF Shape, TypeOK
  <2>3. heard \in Nat
    BY DEF Shape
  <2>4. ASSUME NEW i \in 1 .. heard, LastUpTo(i, heard)'
        PROVE  LastUpTo(i, heard)
    <3>1. /\ i \in 1 .. heard /\ Decodable(channel'[i])
          /\ \A j \in i + 1 .. heard : ~Decodable(channel'[j])
      BY <2>1, <2>4 DEF LastUpTo, Decodable
    <3>2. \A j \in i + 1 .. heard : channel'[j] = channel[j]
      BY <2>2, <2>3
    <3> QED
      BY <2>2, <3>1, <3>2 DEF LastUpTo
  <2> QED
    BY <2>1, <2>2, <2>4 DEF Announced
<1>5. CASE Subscribed /\ UNCHANGED <<channel, own, inForce, handler, config>>
  BY <1>5 DEF Subscribed, Announced
<1>6. CASE Receive
  <2>1. /\ heard \in Nat /\ heard' = heard + 1
        /\ UNCHANGED <<channel, from, own, handler>>
        /\ inForce' = IF Decodable(channel[heard + 1]) /\ handler
                        THEN channel[heard + 1] ELSE inForce
    BY <1>6 DEF Receive, Shape
  <2>2. SUFFICES ASSUME NEW i \in 1 .. heard + 1,
                        own > 0, own <= i, from < i, LastUpTo(i, heard)'
                 PROVE  inForce' = channel[i]
    BY <2>1 DEF Announced
  <2>3. handler
    BY <2>2 DEF Known
  <2>4. CASE Decodable(channel[heard + 1])
    <3>1. i = heard + 1
      BY <2>1, <2>2, <2>4 DEF LastUpTo, Decodable
    <3> QED
      BY <2>1, <2>3, <2>4, <3>1
  <2>5. CASE ~Decodable(channel[heard + 1])
    <3>1. i \in 1 .. heard /\ LastUpTo(i, heard)
      BY <2>1, <2>2, <2>5 DEF LastUpTo, Decodable
    <3> QED
      BY <2>1, <2>2, <2>5, <3>1 DEF Announced
  <2> QED
    BY <2>4, <2>5
<1> QED
  BY <1>1, <1>2, <1>3, <1>4, <1>5, <1>6, AnnouncingSteps

(* Once the gateway has announced its own profile, and nothing is under    *)
(* way, the profile in force is the last that can be decoded of those      *)
(* announced since the subscription: SetSSPUpdateHandler comes before      *)
(* PublishSSP in Gateway.Init, so no message from then on finds no handler.*)
THEOREM LastAnnouncedInForce == Spec => []InForceIsAnnounced
<1>1. Init => Known /\ Announced
  <2>1. Init => Announced
    BY DEF Init, Announced
  <2> QED
    BY <2>1, KnownInit
<1>2. Shape /\ Known /\ Announced /\ [Next]_vars => Known' /\ Announced'
  BY KnownNext, AnnouncedNext
<1>3. Shape /\ Known /\ Announced => InForceIsAnnounced
  <2> SUFFICES ASSUME Shape, Known, Announced,
                      NEW i \in DOMAIN channel,
                      own > 0, heard = Len(channel), from < i,
                      LastUpTo(i, Len(channel))
               PROVE  inForce = channel[i]
    BY DEF InForceIsAnnounced
  <2>1. /\ channel \in Seq(Profile) /\ Len(channel) \in Nat
        /\ DOMAIN channel = 1 .. Len(channel) /\ own \in 1 .. Len(channel)
    BY DEF Shape, TypeOK
  <2>2. own <= i
    BY <2>1 DEF Known, LastUpTo
  <2> QED
    BY <2>1, <2>2 DEF Announced
<1> QED
  BY <1>1, <1>2, <1>3, ShapeAlways, PTL DEF Spec

-----------------------------------------------------------------------------
(* Traces *)

LEMMA TracesNext ==
  ASSUME Shape, InSight, TracesSound, [Next]_vars
  PROVE  InSight' /\ TracesSound'
<1> USE DEF InSight, TracesSound, Tracing
<1>1. CASE UNCHANGED traceVars
  BY <1>1
<1>2. CASE GetLatestSSP
  BY <1>2 DEF GetLatestSSP, Passes, Shape
<1>3. CASE Receive
  <2>1. beam' = Meanwhile(inForce')
    BY <1>3 DEF Receive
  <2> QED
    BY <2>1 DEF Meanwhile, Shape
<1>4. CASE TraceBegins
  BY <1>4 DEF TraceBegins
<1>5. CASE TraceLayers \/ TraceMean
  <2>1. /\ Tracing /\ inForce' = inForce /\ inForce \in beam.during
        /\ beam'.with = inForce /\ beam'.during = beam.during
    BY <1>5 DEF TraceLayers, TraceMean, Traced, Shape
  <2>2. inForce \in Profile /\ Entries[inForce] \in Nat
    BY <2>1, RedisHubAssumption DEF Shape, TypeOK
  <2>3. CASE TraceLayers
    <3>1. beam'.pc = IF Entries[inForce] - 1 < 1 THEN "mean" ELSE "layered"
      BY <2>3 DEF TraceLayers, Traced, Shape
    <3> QED
      BY <2>1, <2>2, <3>1
  <2>4. CASE TraceMean
    <3>1. beam'.pc = IF Entries[inForce] = 0 THEN "constant" ELSE "averaged"
      BY <2>4 DEF TraceMean, Traced, Shape
    <3> QED
      BY <2>1, <2>2, <3>1
  <2> QED
    BY <1>5, <2>3, <2>4
<1>6. \/ UNCHANGED traceVars \/ GetLatestSSP \/ Receive
      \/ TraceBegins \/ TraceLayers \/ TraceMean
  BY DEF Next, InitStep, Connect, SetSSPUpdateHandler, PublishHSet,
         PublishOwn, PublishFails, OtherHSet, OtherPublish, ListenSSP,
         TestRunning, Subscribe, RangeEnds, LoseConnection, Resubscribe,
         Trace, FrameZAdd, FrameHSet, HourPasses, DisconnectBegins,
         CloseClient, DisconnectReturns, Terminated, vars
<1> QED
  BY <1>1, <1>2, <1>3, <1>4, <1>5, <1>6

(* Whenever an update comes between the test of a profile in Trace and its *)
(* use (raytrace.go reads rt.profile anew each time), the beam is traced   *)
(* in a way that suits the profile used, which was in force meanwhile.     *)
THEOREM UpdatesSpoilNoTrace == Spec => []TracesSound
<1>1. Init => InSight /\ TracesSound
  BY DEF Init, IdleBeam, InSight, TracesSound, Tracing
<1>2. /\ Shape /\ InSight /\ TracesSound /\ [Next]_vars
      => InSight' /\ TracesSound'
  BY TracesNext
<1> QED
  BY <1>1, <1>2, ShapeAlways, PTL DEF Spec

-----------------------------------------------------------------------------
(* The frames in Redis *)

Entry == [frame : Frame, hour : 0 .. LastHour]

(* The entry of a sorted set that stands for an indexed frame. *)
EntryOf(x) == [hour |-> x.hour, ping |-> x.frame.ping, score |-> x.frame.time]

(* The index holds the last frame indexed under each hour and counter, and *)
(* nothing else.                                                           *)
IndexIsLast ==
  /\ indexed \in Seq(Entry)
  /\ \A e \in store.index :
       \E i \in 1 .. Len(indexed) : e = EntryOf(indexed[i])
  /\ \A i \in 1 .. Len(indexed) :
       \E j \in i .. Len(indexed) :
         /\ indexed[j].hour = indexed[i].hour
         /\ indexed[j].frame.ping = indexed[i].frame.ping
         /\ EntryOf(indexed[j]) \in store.index

(* The hashes hold the last frame stored of each counter. *)
HashIsLast ==
  /\ stored \in Seq(Frame)
  /\ \A i \in 1 .. Len(stored) :
       \E j \in i .. Len(stored) :
         stored[j].ping = stored[i].ping /\ stored[j] \in store.hash

(* A sequence after Append, element by element. *)
LEMMA Appended ==
  ASSUME NEW S, NEW s \in Seq(S), NEW e \in S
  PROVE  /\ Append(s, e) \in Seq(S) /\ Len(s) \in Nat
         /\ Len(Append(s, e)) = Len(s) + 1
         /\ \A i \in 1 .. Len(s) : Append(s, e)[i] = s[i]
         /\ Append(s, e)[Len(s) + 1] = e
OBVIOUS

LEMMA FrameSteps ==
  ASSUME [Next]_vars
  PROVE  \/ UNCHANGED <<store, indexed, stored>>
         \/ \E f \in Frame : FrameZAdd(f) \/ FrameHSet(f)
BY DEF Next, InitStep, Connect, GetLatestSSP, SetSSPUpdateHandler, PublishHSet,
       PublishOwn, PublishFails, OtherHSet, OtherPublish, ListenSSP,
       TestRunning, Subscribe, RangeEnds, Receive, LoseConnection, Resubscribe,
       Trace, TraceBegins, TraceLayers, TraceMean, HourPasses,
       DisconnectBegins, CloseClient, DisconnectReturns, Terminated, vars

LEMMA IndexNext ==
  ASSUME Shape, IndexIsLast, [Next]_vars
  PROVE  IndexIsLast'
<1>1. CASE UNCHANGED <<store, indexed, stored>>
  BY <1>1 DEF IndexIsLast, EntryOf
<1>2. ASSUME NEW f \in Frame, FrameHSet(f) PROVE IndexIsLast'
  <2>1. store'.index = store.index /\ indexed' = indexed
    BY <1>2 DEF FrameHSet, HSet, Shape
  <2> QED
    BY <2>1 DEF IndexIsLast, EntryOf
<1>3. ASSUME NEW f \in Frame, FrameZAdd(f) PROVE IndexIsLast'
  <2> DEFINE x == [frame |-> f, hour |-> wall]
             new == EntryOf(x)
             n == Len(indexed)
  <2>1. x \in Entry /\ x.hour = wall /\ x.frame = f
    BY DEF Entry, Shape, TypeOK
  <2>2. /\ new.hour = wall /\ new.ping = f.ping
        /\ store'.index =
             {e \in store.index : ~(e.hour = wall /\ e.ping = f.ping)} \cup {new}
    BY <1>3 DEF FrameZAdd, ZAdd, Shape, EntryOf
  <2>3. indexed' = Append(indexed, x) /\ indexed \in Seq(Entry)
    BY <1>3 DEF FrameZAdd, IndexIsLast
  <2> HIDE DEF x, new
  <2>4. /\ indexed' \in Seq(Entry) /\ n \in Nat /\ Len(indexed') = n + 1
        /\ \A i \in 1 .. n : indexed'[i] = indexed[i]
        /\ indexed'[n + 1] = x
    BY <2>1, <2>3, Appended
  <2>5. EntryOf(indexed'[n + 1]) = new /\ new \in store'.index
    BY <2>2, <2>4 DEF new
  <2>6. ASSUME NEW e \in store'.index
        PROVE  \E i \in 1 .. Len(indexed') : e = EntryOf(indexed'[i])
    <3>1. CASE e = new
      BY <2>4, <2>5, <3>1
    <3>2. CASE e \in store.index
      <4>1. PICK i \in 1 .. n : e = EntryOf(indexed[i])
        BY <3>2 DEF IndexIsLast
      <4>2. i \in 1 .. Len(indexed') /\ indexed'[i] = indexed[i]
        BY <2>4, <4>1
      <4> QED
        BY <4>1, <4>2
    <3> QED
      BY <2>2, <3>1, <3>2
  <2>7. ASSUME NEW i \in 1 .. Len(indexed')
        PROVE  \E j \in i .. Len(indexed') :
                 /\ indexed'[j].hour = indexed'[i].hour
                 /\ indexed'[j].frame.ping = indexed'[i].frame.ping
                 /\ EntryOf(indexed'[j]) \in store'.index
    <3>1. n + 1 \in i .. Len(indexed') /\ i \in 1 .. n + 1
      BY <2>4
    <3>2. CASE i = n + 1
      BY <2>5, <3>1, <3>2
    <3>3. CASE i # n + 1
      <4>1. i \in 1 .. n /\ indexed'[i] = indexed[i]
        BY <2>4, <3>1, <3>3
      <4>2. PICK j \in i .. n :
              /\ indexed[j].hour = indexed[i].hour
              /\ indexed[j].frame.ping = indexed[i].frame.ping
              /\ EntryOf(indexed[j]) \in store.index
        BY <4>1 DEF IndexIsLast
      <4>3. j \in 1 .. n /\ j \in i .. Len(indexed') /\ indexed'[j] = indexed[j]
        BY <2>4, <4>1, <4>2
      <4>4. CASE EntryOf(indexed[j]) \in store'.index
        BY <4>1, <4>2, <4>3, <4>4
      <4>5. CASE EntryOf(indexed[j]) \notin store'.index
        <5>1. indexed[j].hour = wall /\ indexed[j].frame.ping = f.ping
          BY <2>2, <4>2, <4>5 DEF EntryOf
        <5>2. /\ indexed'[n + 1].hour = indexed'[i].hour
              /\ indexed'[n + 1].frame.ping = indexed'[i].frame.ping
          BY <2>1, <2>4, <4>1, <4>2, <5>1
        <5> QED
          BY <2>5, <3>1, <5>2
      <4> QED
        BY <4>4, <4>5
    <3> QED
      BY <3>2, <3>3
  <2> QED
    BY <2>4, <2>6, <2>7 DEF IndexIsLast
<1> QED
  BY <1>1, <1>2, <1>3, FrameSteps

LEMMA HashNext ==
  ASSUME Shape, HashIsLast, [Next]_vars
  PROVE  HashIsLast'
<1>1. CASE UNCHANGED <<store, indexed, stored>>
  BY <1>1 DEF HashIsLast
<1>2. ASSUME NEW f \in Frame, FrameZAdd(f) PROVE HashIsLast'
  <2>1. store'.hash = store.hash /\ stored' = stored
    BY <1>2 DEF FrameZAdd, ZAdd, Shape
  <2> QED
    BY <2>1 DEF HashIsLast
<1>3. ASSUME NEW f \in Frame, FrameHSet(f) PROVE HashIsLast'
  <2> DEFINE n == Len(stored)
  <2>1. store'.hash = {g \in store.hash : g.ping # f.ping} \cup {f}
    BY <1>3 DEF FrameHSet, HSet, Shape
  <2>2. stored' = Append(stored, f) /\ stored \in Seq(Frame)
    BY <1>3 DEF FrameHSet, HashIsLast
  <2>3. /\ stored' \in Seq(Frame) /\ n \in Nat /\ Len(stored') = n + 1
        /\ \A i \in 1 .. n : stored'[i] = stored[i]
        /\ stored'[n + 1] = f
    BY <2>2, Appended
  <2>4. ASSUME NEW i \in 1 .. Len(stored')
        PROVE  \E j \in i .. Len(stored') :
                 stored'[j].ping = stored'[i].ping /\ stored'[j] \in store'.hash
    <3>1. n + 1 \in i .. Len(stored') /\ i \in 1 .. n + 1
      BY <2>3
    <3>2. CASE i = n + 1
      BY <2>1, <2>3, <3>1, <3>2
    <3>3. CASE i # n + 1
      <4>1. i \in 1 .. n /\ stored'[i] = stored[i]
        BY <2>3, <3>1, <3>3
      <4>2. PICK j \in i .. n :
              stored[j].ping = stored[i].ping /\ stored[j] \in store.hash
        BY <4>1 DEF HashIsLast
      <4>3. j \in 1 .. n /\ j \in i .. Len(stored') /\ stored'[j] = stored[j]
        BY <2>3, <4>1, <4>2
      <4>4. CASE stored[j] \in store'.hash
        BY <4>1, <4>2, <4>3, <4>4
      <4>5. CASE stored[j] \notin store'.hash
        <5>1. stored[j].ping = f.ping
          BY <2>1, <4>2, <4>5
        <5> QED
          BY <2>1, <2>3, <3>1, <4>1, <4>2, <5>1
      <4> QED
        BY <4>4, <4>5
    <3> QED
      BY <3>2, <3>3
  <2> QED
    BY <2>3, <2>4 DEF HashIsLast
<1> QED
  BY <1>1, <1>2, <1>3, FrameSteps

(* A time within a range is in one of its hours. *)
LEMMA HourInRange ==
  ASSUME NEW a \in Nat, NEW b \in Nat, a <= b
  PROVE  HourOf(a) \in Nat /\ HourOf(b) \in Nat /\ HourOf(a) <= HourOf(b)
<1>1. HourLength \in Nat /\ HourLength >= 1
  BY RedisHubAssumption
<1> DEFINE p == a \div HourLength  q == b \div HourLength
<1>2. /\ p \in Nat /\ q \in Nat
      /\ HourLength * p <= a /\ b < HourLength * q + HourLength
  BY <1>1
<1> HIDE DEF p, q
<1>3. p <= q
  <2> SUFFICES ASSUME p >= q + 1 PROVE FALSE
    BY <1>2
  <2>1. HourLength * p >= HourLength * (q + 1)
    BY <1>1, <1>2
  <2>2. HourLength * (q + 1) = HourLength * q + HourLength
    BY <1>1, <1>2
  <2>3. HourLength * p \in Nat /\ HourLength * q \in Nat
    BY <1>1, <1>2
  <2> QED
    BY <1>1, <1>2, <2>1, <2>2, <2>3
<1> QED
  BY <1>2, <1>3 DEF p, q, HourOf

(* A frame whose counter was not used again is still indexed and stored. *)
LEMMA FoundInRange ==
  ASSUME Shape, IndexIsLast, HashIsLast,
         NEW start \in Times, NEW end \in Times, NEW i \in DOMAIN stored,
         OnTime(stored[i]), Unrepeated(stored[i]),
         stored[i].time \in start .. end
  PROVE  stored[i] \in GetFramesInRange(store, start, end)
<1> DEFINE f == stored[i]
<1>1. /\ i \in 1 .. Len(stored) /\ Len(stored) \in Nat /\ f \in Frame
      /\ DOMAIN indexed = 1 .. Len(indexed) /\ Len(indexed) \in Nat
      /\ \A k \in 1 .. Len(indexed) : indexed[k].frame \in Frame
      /\ \A k \in 1 .. Len(stored) : stored[k] \in Frame
      /\ DOMAIN stored = 1 .. Len(stored)
  <2>1. indexed \in Seq(Entry)
    BY DEF IndexIsLast
  <2>2. stored \in Seq(Frame)
    BY DEF HashIsLast
  <2>3. /\ DOMAIN indexed = 1 .. Len(indexed) /\ Len(indexed) \in Nat
        /\ \A k \in 1 .. Len(indexed) : indexed[k] \in Entry
    BY <2>1
  <2>4. /\ DOMAIN stored = 1 .. Len(stored) /\ Len(stored) \in Nat
        /\ \A k \in 1 .. Len(stored) : stored[k] \in Frame
    BY <2>2
  <2>5. \A e \in Entry : e.frame \in Frame
    BY DEF Entry
  <2>6. i \in 1 .. Len(stored)
    BY <2>4
  <2>7. f \in Frame
    BY <2>4, <2>6 DEF f
  <2> QED
    BY <2>3, <2>4, <2>5, <2>6, <2>7
<1>2. \A g \in Frame : g.time \in Nat
  BY RedisHubAssumption
<1> HIDE DEF f
<1>3. f \in store.hash
  <2>1. PICK j \in i .. Len(stored) :
          stored[j].ping = f.ping /\ stored[j] \in store.hash
    BY <1>1 DEF HashIsLast, f
  <2>2. j \in 1 .. Len(stored) /\ stored[j] \in Frame
    BY <1>1, <2>1
  <2>3. ~StoredLater(f, stored[j])
    BY <2>1, <2>2 DEF Unrepeated, f
  <2>4. ~(i < j)
    BY <1>1, <2>2, <2>3 DEF StoredLater, f
  <2>5. j = i
    BY <1>1, <2>1, <2>4
  <2> QED
    BY <2>1, <2>5 DEF f
<1>4. PICK k \in 1 .. Len(indexed) :
        indexed[k] = [frame |-> f, hour |-> HourOf(f.time)]
  BY <1>1 DEF OnTime, f
<1>5. PICK j \in k .. Len(indexed) :
        /\ indexed[j].hour = HourOf(f.time) /\ indexed[j].frame.ping = f.ping
        /\ EntryOf(indexed[j]) \in store.index
  BY <1>4 DEF IndexIsLast
<1>6. j \in 1 .. Len(indexed) /\ indexed[j].frame \in Frame
  BY <1>1, <1>4, <1>5
<1>7. indexed[j].frame.time = f.time
  <2>1. CASE j = k
    BY <1>4, <2>1
  <2>2. CASE j # k
    <3>1. k < j /\ indexed[k].frame = f
      BY <1>1, <1>4, <1>5, <2>2
    <3>2. IndexedLater(f, indexed[j].frame)
      BY <1>1, <1>6, <3>1 DEF IndexedLater
    <3> QED
      BY <1>5, <1>6, <3>2 DEF Unrepeated, f
  <2> QED
    BY <2>1, <2>2
<1>8. start \in Nat /\ end \in Nat /\ f.time \in Nat
      /\ start <= f.time /\ f.time <= end
  <2>1. start \in Nat /\ end \in Nat
    BY <1>2 DEF Times
  <2>2. f.time \in Nat
    BY <1>1, <1>2
  <2>3. f.time \in start .. end
    BY DEF f
  <2> QED
    BY <2>1, <2>2, <2>3
<1>9. HourOf(f.time) \in Hours(start, end)
  <2>1. /\ HourOf(start) \in Nat /\ HourOf(f.time) \in Nat
        /\ HourOf(start) <= HourOf(f.time)
    BY <1>8, HourInRange
  <2>2. HourOf(end) \in Nat /\ HourOf(f.time) <= HourOf(end)
    BY <1>8, HourInRange
  <2> QED
    BY <2>1, <2>2 DEF Hours
<1> DEFINE e == EntryOf(indexed[j])
<1>10. /\ e \in store.index /\ e.hour \in Hours(start, end)
       /\ e.score \in start .. end /\ e.ping = f.ping
  <2>1. e.hour = HourOf(f.time) /\ e.ping = f.ping /\ e.score = f.time
    BY <1>5, <1>7 DEF EntryOf
  <2> HIDE DEF e
  <2>2. e \in store.index
    BY <1>5 DEF e
  <2> QED
    BY <1>8, <1>9, <2>1, <2>2
<1> HIDE DEF e
<1> QED
  BY <1>3, <1>10 DEF GetFramesInRange, f

(* What GetFramesInRange returns beside the frames of the range has the    *)
(* counter of one of them.                                                 *)
LEMMA NothingElse ==
  ASSUME Shape, IndexIsLast, NEW start, NEW end,
         NEW f \in GetFramesInRange(store, start, end),
         f.time \notin start .. end
  PROVE  \E i \in DOMAIN indexed :
           LET g == indexed[i].frame
           IN g # f /\ g.ping = f.ping /\ g.time \in start .. end
<1>1. PICK e \in store.index : e.score \in start .. end /\ e.ping = f.ping
  BY DEF GetFramesInRange
<1>2. PICK i \in 1 .. Len(indexed) : e = EntryOf(indexed[i])
  BY DEF IndexIsLast
<1>3. /\ indexed[i].frame.time \in start .. end
      /\ indexed[i].frame.ping = f.ping
  BY <1>1, <1>2 DEF EntryOf
<1>4. i \in DOMAIN indexed
  BY DEF IndexIsLast
<1>5. indexed[i].frame # f
  BY <1>3
<1> QED
  BY <1>3, <1>4, <1>5

(* Whatever frames are published, filled ones and repeated counters among  *)
(* them, and wherever a pipeline breaks off: GetFramesInRange finds each   *)
(* frame that was published in its hour, until its counter comes again.    *)
THEOREM RangesAreComplete == Spec => []RangeFindsFrames
<1>1. Init => IndexIsLast /\ HashIsLast
  <2> SUFFICES ASSUME Init PROVE IndexIsLast /\ HashIsLast
    OBVIOUS
  <2>1. indexed = <<>> /\ stored = <<>> /\ store.index = {}
    BY DEF Init, EmptyStore
  <2>2. Len(indexed) = 0 /\ Len(stored) = 0
    BY <2>1
  <2> QED
    BY <2>1, <2>2 DEF IndexIsLast, HashIsLast
<1>2. Shape /\ IndexIsLast /\ HashIsLast /\ [Next]_vars
        => IndexIsLast' /\ HashIsLast'
  BY IndexNext, HashNext
<1>3. ASSUME Shape, IndexIsLast, HashIsLast PROVE RangeFindsFrames
  <2> SUFFICES ASSUME NEW start \in Times, NEW end \in Times
               PROVE  LET answer == GetFramesInRange(store, start, end)
                      IN /\ \A i \in DOMAIN stored :
                              LET f == stored[i]
                              IN OnTime(f) /\ Unrepeated(f)
                                   /\ f.time \in start .. end
                                   => f \in answer
                         /\ \A f \in answer : f.time \in start .. end \/
                              \E i \in DOMAIN indexed :
                                LET g == indexed[i].frame
                                IN /\ g # f /\ g.ping = f.ping
                                   /\ g.time \in start .. end
    BY DEF RangeFindsFrames
  <2> DEFINE answer == GetFramesInRange(store, start, end)
  <2>1. ASSUME NEW i \in DOMAIN stored, OnTime(stored[i]),
               Unrepeated(stored[i]), stored[i].time \in start .. end
        PROVE  stored[i] \in answer
    BY <1>3, <2>1, FoundInRange
  <2>2. ASSUME NEW f \in answer, f.time \notin start .. end
        PROVE  \E i \in DOMAIN indexed :
                 LET g == indexed[i].frame
                 IN g # f /\ g.ping = f.ping /\ g.time \in start .. end
    BY <1>3, <2>2, NothingElse
  <2> HIDE DEF answer
  <2> QED
    BY <2>1, <2>2 DEF answer
<1> QED
  BY <1>1, <1>2, <1>3, ShapeAlways, PTL DEF Spec

-----------------------------------------------------------------------------
(* How an update arrives *)

(* Message i is yet to come to the listener and its handler. *)
Awaited(i) ==
  handler /\ sub = "on" /\ listener = "range" /\ i \in heard + 1 .. Len(channel)

(* Whatever step is taken, the message is still to come or has been put in *)
(* force, and a step of the listener takes one message from before it.     *)
(* Only a lost connection and Disconnect drop it.                          *)
Approaches(i) ==
  \/ /\ Awaited(i)' /\ channel'[i] = channel[i]
     /\ IF ListenSSP THEN heard' = heard + 1 ELSE heard' = heard
  \/ heard' = i /\ inForce' = channel[i]
  \/ drops' > drops
  \/ gw \in {"await", "stopped"}

(* The client is closed by Disconnect only. *)
ClientUp == client = "open" \/ gw \in {"connect", "await", "stopped"}

LEMMA ClientUpNext ==
  ASSUME ClientUp, [Next]_vars
  PROVE  ClientUp'
<1> USE AfterValues DEF ClientUp, Passes
<1>1. CASE InitStep
  BY <1>1 DEF InitStep, Connect, GetLatestSSP, SetSSPUpdateHandler,
              PublishHSet, PublishOwn, PublishFails
<1>2. CASE DisconnectBegins \/ CloseClient \/ DisconnectReturns
  BY <1>2 DEF DisconnectBegins, CloseClient, DisconnectReturns
<1>3. CASE UNCHANGED <<gw, client>>
  BY <1>3
<1>4. InitStep \/ DisconnectBegins \/ CloseClient \/ DisconnectReturns
      \/ UNCHANGED <<gw, client>>
  BY DEF Next, OtherHSet, OtherPublish, ListenSSP, TestRunning, Subscribe,
         Receive, RangeEnds, LoseConnection, Resubscribe, Trace, TraceBegins,
         TraceLayers, TraceMean, FrameZAdd, FrameHSet, HourPasses, Terminated,
         startVars, vars
<1> QED
  BY <1>1, <1>2, <1>3, <1>4

(* The step of another part that leaves the subscription as it is. *)
Quiet ==
  /\ UNCHANGED <<sub, listener, heard>>
  /\ handler => handler'
  /\ channel' = channel \/ \E p \in Profile : channel' = Append(channel, p)

LEMMA SubscriptionSteps ==
  ASSUME Shape, [Next]_vars, handler, sub = "on"
  PROVE  Receive \/ RangeEnds \/ LoseConnection \/ Quiet
<1> USE DEF Quiet
<1>1. CASE InitStep
  <2>1. gw # "connect" /\ config \in Profile
    BY DEF Shape, TypeOK
  <2> QED
    BY <1>1, <2>1 DEF InitStep, Connect, GetLatestSSP, SetSSPUpdateHandler,
       PublishHSet, PublishOwn, PublishFails, Passes, listenVars, redisVars
<1>2. ASSUME NEW o \in Other, OtherHSet(o) \/ OtherPublish(o)
      PROVE  Quiet
  BY <1>2 DEF OtherHSet, OtherPublish, Profile, listenVars, startVars
<1>3. CASE ListenSSP \/ LoseConnection \/ Resubscribe
  <2>1. listener = "range"
    BY DEF Shape, TypeOK
  <2> QED
    BY <1>3, <2>1 DEF ListenSSP, TestRunning, Subscribe, Resubscribe
<1>4. CASE Trace
  BY <1>4 DEF Trace, TraceBegins, TraceLayers, TraceMean, listenVars,
              redisVars, startVars
<1>5. ASSUME NEW f \in Frame, FrameZAdd(f) \/ FrameHSet(f)
      PROVE  Quiet
  BY <1>5 DEF FrameZAdd, FrameHSet, listenVars, redisVars, startVars
<1>6. CASE HourPasses \/ DisconnectBegins \/ CloseClient \/ DisconnectReturns
  BY <1>6 DEF HourPasses, DisconnectBegins, CloseClient, DisconnectReturns,
              listenVars, redisVars, startVars
<1>7. CASE UNCHANGED vars
  BY <1>7 DEF vars, listenVars, redisVars, startVars
<1> QED
  BY <1>1, <1>2, <1>3, <1>4, <1>5, <1>6, <1>7 DEF Next, Terminated

LEMMA MessageApproaches ==
  ASSUME Shape, ClientUp, [Next]_vars, NEW i, Awaited(i), Decodable(channel[i])
  PROVE  Approaches(i)
<1> SUFFICES ASSUME gw \notin {"await", "stopped"} PROVE Approaches(i)
  BY DEF Approaches
<1>1. /\ channel \in Seq(Profile) /\ heard \in Nat /\ drops \in Nat
      /\ Len(channel) \in Nat /\ i \in heard + 1 .. Len(channel)
  BY RedisHubAssumption DEF Awaited, Shape, TypeOK
<1>2. client = "open"
  BY DEF ClientUp, Awaited, Shape
<1>3. ListenSSP => Receive
  BY <1>2 DEF Awaited, ListenSSP, TestRunning, Subscribe, RangeEnds
<1>4. CASE Receive
  <2>1. /\ heard' = heard + 1 /\ UNCHANGED <<channel, handler, sub, listener>>
        /\ inForce' = IF Decodable(channel[heard + 1]) /\ handler
                      THEN channel[heard + 1] ELSE inForce
    BY <1>4 DEF Receive, startVars, redisVars
  <2>2. CASE i = heard + 1
    BY <2>1, <2>2 DEF Approaches, Awaited
  <2>3. CASE i # heard + 1
    <3>1. Awaited(i)' /\ channel'[i] = channel[i]
      BY <1>1, <2>1, <2>3 DEF Awaited
    <3>2. ListenSSP
      BY <1>4 DEF ListenSSP
    <3> QED
      BY <2>1, <3>1, <3>2 DEF Approaches
  <2> QED
    BY <2>2, <2>3
<1>5. CASE LoseConnection
  BY <1>1, <1>5 DEF LoseConnection, Approaches
<1>6. CASE Quiet
  <2>1. heard' = heard /\ ~ListenSSP
    BY <1>1, <1>3, <1>6 DEF Quiet, Receive
  <2>2. channel'[i] = channel[i] /\ i \in heard + 1 .. Len(channel')
    <3>1. CASE channel' = channel
      BY <1>1, <3>1
    <3>2. ASSUME NEW p \in Profile, channel' = Append(channel, p)
          PROVE  channel'[i] = channel[i] /\ i \in heard + 1 .. Len(channel')
      BY <1>1, <3>2, AppendKeeps
    <3> QED
      BY <1>6, <3>1, <3>2 DEF Quiet
  <2>3. Awaited(i)'
    BY <1>6, <2>1, <2>2 DEF Quiet, Awaited
  <2> QED
    BY <2>1, <2>2, <2>3 DEF Approaches
<1> QED
  BY <1>2, <1>4, <1>5, <1>6, SubscriptionSteps DEF Awaited, RangeEnds

(* No update is passed over or left in front of the listener by the        *)
(* updates that come before and after it: from when it is published, each  *)
(* step of listenSSP brings it nearer, until it is put in force or the     *)
(* connection is gone.  (That listenSSP takes its steps is the fairness of *)
(* FairSpec.)                                                              *)
THEOREM UpdatesGetNearer ==
  Spec => [][\A i \in 1 .. Len(channel) :
               Awaited(i) /\ Decodable(channel[i]) => Approaches(i)]_vars
<1>1. Init => ClientUp
  BY DEF Init, ClientUp
<1>2. ClientUp /\ [Next]_vars => ClientUp'
  BY ClientUpNext
<1>3. Shape /\ ClientUp /\ [Next]_vars =>
        [\A i \in 1 .. Len(channel) :
           Awaited(i) /\ Decodable(channel[i]) => Approaches(i)]_vars
  BY MessageApproaches
<1> QED
  BY <1>1, <1>2, <1>3, ShapeAlways, PTL DEF Spec
=============================================================================
