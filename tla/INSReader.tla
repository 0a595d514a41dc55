----------------------------- MODULE INSReader -----------------------------
(***************************************************************************)
(* The INS link: the UDP reader (internal/ins/reader.go) and the framing   *)
(* of what it reads (internal/framing/ins_processor.go).  A datagram is    *)
(* fed under p.mu; processLocked then takes frames of a fixed size off the *)
(* buffer, and looks for the next plausible timestamp where there is none. *)
(*                                                                         *)
(* A byte of the buffer is remembered with its place in the stream of all  *)
(* datagrams, so that the properties can tell where a frame came from.     *)
(* SetDataHandler is called once, before Start; Reset is never called.     *)
(*                                                                         *)
(* A definition whose comment begins with `Defect' is not part of Next.    *)
(***************************************************************************)
EXTENDS Integers, Sequences

CONSTANTS
  Datagram,      \* the datagrams that may arrive: sequences of bytes
  MaxBytes,      \* bound of the model: bytes received in a behaviour
  FrameSize,     \* INSFrameSize
  TSSize,        \* bytes of a timestamp (8)
  Capacity,      \* INSMaxFrameSize * 8
  TimestampOf(_),  \* the timestamp that TSSize bytes stand for
  Parses(_),     \* parseAndValidateFrame accepts these FrameSize bytes
  Behind, Ahead, \* a timestamp may be so much before or after the last one
  ValidRange,    \* the first one may be so much before now
  Now0, MaxNow   \* bound of the model: the clock runs from Now0 to MaxNow

ASSUME INSReaderAssumption ==
  /\ \A d \in Datagram : d \in Seq(0..255) /\ Len(d) > 0
  /\ FrameSize \in Nat /\ TSSize \in 1..FrameSize
  /\ \A b \in [1..TSSize -> 0..255] : TimestampOf(b) \in Nat
  /\ Capacity \in Nat /\ FrameSize <= Capacity \div 4
  /\ Behind \in Nat /\ Ahead \in Nat /\ ValidRange \in Nat
  /\ MaxBytes \in Nat /\ Now0 \in Nat /\ MaxNow \in Nat /\ Now0 <= MaxNow

VARIABLES
  received,  \* bytes received
  now,       \* the wall clock
  buf,       \* p.buf[0:writePos], bytes with their places in the stream
  readPos,   \* p.readPos
  latestTS,  \* p.latestTS
  latest,    \* r.latest: the bytes of the last frame handed over, or <<>>
  overruns,  \* p.stats.Overruns; the other counters count actions
  pc,        \* the receiving goroutine: "test" (of running), "read",
             \* "process" (holds p.mu), "exited"
  running,   \* r.running
  stop       \* the caller of Stop: "no", "close", "wait", "returned"

vars == <<received, now, buf, readPos, latestTS, latest, overruns, pc,
          running, stop>>

(* Start has opened the socket and begun the goroutine. *)
Init ==
  /\ received = 0
  /\ now = Now0
  /\ buf = <<>> /\ readPos = 0
  /\ latestTS = 0
  /\ latest = <<>>
  /\ overruns = 0
  /\ pc = "test"
  /\ running = TRUE
  /\ stop = "no"

writePos == Len(buf)

available == writePos - readPos

Bytes(s) == [i \in DOMAIN s |-> s[i].byte]

(* The bytes from offset on in the unread part of the buffer. *)
At(offset, n) == SubSeq(buf, readPos + offset + 1, readPos + offset + n)

(* isValidTimestamp *)
ValidTS(ts) ==
  /\ ts # 0
  /\ IF latestTS > 0 THEN ts - latestTS \in -Behind .. Ahead
                     ELSE ts \in now - ValidRange .. now + Ahead

TSAt(offset) == TimestampOf(Bytes(At(offset, TSSize)))

(* Defect: only offsets of whole frames are tried. *)
CandidatesAligned ==
  {offset \in 1 .. available - TSSize :
     offset % FrameSize = 0 /\ ValidTS(TSAt(offset))}

(* findNextCandidateLocked: the offsets at which a frame may begin. *)
Candidates ==
  {offset \in 1 .. available - TSSize : ValidTS(TSAt(offset))}

-----------------------------------------------------------------------------
(* receiveLoop *)

TestRunning ==
  /\ pc = "test"
  /\ pc' = IF running THEN "read" ELSE "exited"
  /\ UNCHANGED <<received, now, buf, readPos, latestTS, latest, overruns,
                 running, stop>>

(* The read fails once Stop has closed the socket. *)
ReadError ==
  /\ pc = "read" /\ stop \in {"wait", "returned"}
  /\ pc' = "test"
  /\ UNCHANGED <<received, now, buf, readPos, latestTS, latest, overruns,
                 running, stop>>

Placed(d) == [i \in DOMAIN d |-> [byte |-> d[i], at |-> received + i]]

(* compactIfNeeded *)
MayCompact == readPos > 0 /\ available < Capacity \div 4

compacted == IF MayCompact THEN SubSeq(buf, readPos + 1, writePos) ELSE buf

Receive(d) ==
  /\ pc = "read" /\ stop \notin {"wait", "returned"}
  /\ received + Len(d) <= MaxBytes
  /\ received' = received + Len(d)

(* Defect: the buffer is written without a look at its end. *)
FitsAlways(d) == TRUE

(* It is compacted only when the datagram does not fit as it is. *)
Fits(d) == Len(compacted) + Len(d) <= Capacity

Feed(d) ==
  /\ Receive(d)
  /\ Fits(d)
  /\ IF writePos + Len(d) > Capacity
       THEN /\ buf' = compacted \o Placed(d)
            /\ readPos' = IF MayCompact THEN 0 ELSE readPos
       ELSE /\ buf' = buf \o Placed(d)
            /\ readPos' = readPos
  /\ pc' = "process"
  /\ UNCHANGED <<now, latestTS, latest, overruns, running, stop>>

(* The last bytes, as many as do not make up a frame. *)
Kept(s) == SubSeq(s, Len(s) - (Len(s) % FrameSize) + 1, Len(s))

(* The datagram is dropped. *)
FeedOverrun(d) ==
  /\ Receive(d)
  /\ ~Fits(d)
  /\ overruns' = overruns + 1
  /\ buf' = Kept(compacted)
  /\ readPos' = 0
  /\ pc' = "test"
  /\ UNCHANGED <<now, latestTS, latest, running, stop>>

-----------------------------------------------------------------------------
(* processLocked, one pass of its loop at a time *)

AtFrame == pc = "process" /\ available >= FrameSize

GoodTS == ValidTS(TSAt(0))

(* BadTimestamp: on to the next candidate, or out of the loop. *)
SkipToCandidate ==
  /\ AtFrame /\ ~GoodTS
  /\ Candidates # {}
  /\ readPos' = readPos + (CHOOSE o \in Candidates :
                             \A p \in Candidates : o <= p)
  /\ UNCHANGED <<received, now, buf, latestTS, latest, overruns, pc, running,
                 stop>>

NoCandidate ==
  /\ AtFrame /\ ~GoodTS
  /\ Candidates = {}
  /\ pc' = "test"
  /\ UNCHANGED <<received, now, buf, readPos, latestTS, latest, overruns,
                 running, stop>>

(* Defect: readPos stays where it is. *)
RejectFrameStaying ==
  /\ AtFrame /\ GoodTS
  /\ ~Parses(Bytes(At(0, FrameSize)))
  /\ UNCHANGED <<received, now, buf, readPos, latestTS, latest, overruns, pc,
                 running, stop>>

(* Defect: the loop is left as after a bad timestamp. *)
RejectFrameLeaving ==
  /\ AtFrame /\ GoodTS
  /\ ~Parses(Bytes(At(0, FrameSize)))
  /\ readPos' = readPos + 1
  /\ pc' = "test"
  /\ UNCHANGED <<received, now, buf, latestTS, latest, overruns, running,
                 stop>>

RejectFrame ==
  /\ AtFrame /\ GoodTS
  /\ ~Parses(Bytes(At(0, FrameSize)))
  /\ readPos' = readPos + 1
  /\ UNCHANGED <<received, now, buf, latestTS, latest, overruns, pc, running,
                 stop>>

(* Defect: latestTS is not moved on. *)
AcceptFrameUntimed ==
  /\ AtFrame /\ GoodTS
  /\ Parses(Bytes(At(0, FrameSize)))
  /\ latest' = At(0, FrameSize)
  /\ readPos' = readPos + FrameSize
  /\ UNCHANGED <<received, now, buf, latestTS, overruns, pc, running, stop>>

(* onData stores the frame under r.mu, then publishes it. *)
AcceptFrame ==
  /\ AtFrame /\ GoodTS
  /\ Parses(Bytes(At(0, FrameSize)))
  /\ latestTS' = TSAt(0)
  /\ latest' = At(0, FrameSize)
  /\ readPos' = readPos + FrameSize
  /\ UNCHANGED <<received, now, buf, overruns, pc, running, stop>>

FeedReturns ==
  /\ pc = "process" /\ available < FrameSize
  /\ pc' = "test"
  /\ UNCHANGED <<received, now, buf, readPos, latestTS, latest, overruns,
                 running, stop>>

Step ==
  \/ TestRunning \/ ReadError
  \/ SkipToCandidate \/ NoCandidate \/ RejectFrame \/ AcceptFrame
  \/ FeedReturns

-----------------------------------------------------------------------------

StopBegins ==
  /\ stop = "no"
  /\ running' = FALSE
  /\ stop' = "close"
  /\ UNCHANGED <<received, now, buf, readPos, latestTS, latest, overruns,
                 pc>>

CloseSocket ==
  /\ stop = "close"
  /\ stop' = "wait"
  /\ UNCHANGED <<received, now, buf, readPos, latestTS, latest, overruns, pc,
                 running>>

StopReturns ==
  /\ stop = "wait" /\ pc = "exited"
  /\ stop' = "returned"
  /\ UNCHANGED <<received, now, buf, readPos, latestTS, latest, overruns, pc,
                 running>>

Tick ==
  /\ now < MaxNow
  /\ now' = now + 1
  /\ UNCHANGED <<received, buf, readPos, latestTS, latest, overruns, pc,
                 running, stop>>

Next ==
  \/ \E d \in Datagram : Feed(d) \/ FeedOverrun(d)
  \/ Step
  \/ StopBegins \/ CloseSocket \/ StopReturns
  \/ Tick

Spec == Init /\ [][Next]_vars

(* The goroutine runs on, and so does a Stop once it has begun; nobody has *)
(* to send anything, and nobody has to call Stop.                          *)
FairSpec ==
  Spec /\ WF_vars(Step) /\ WF_vars(CloseSocket) /\ WF_vars(StopReturns)

-----------------------------------------------------------------------------

(* The shape of the state.  Of the buffer: p.buf is never written, nor     *)
(* read, beyond its capacity.                                              *)
TypeOK ==
  /\ received \in 0..MaxBytes
  /\ now \in Now0..MaxNow
  /\ Len(buf) <= Capacity
  /\ \A i \in DOMAIN buf : buf[i].at \in 1..received
  /\ readPos \in 0..Len(buf)
  /\ latestTS \in Nat
  /\ Len(latest) \in {0, FrameSize}
  /\ overruns \in Nat
  /\ pc \in {"test", "read", "process", "exited"}
  /\ running \in BOOLEAN
  /\ stop \in {"no", "close", "wait", "returned"}

(* Once a first frame has set the clock, whoever gets p.mu finds nothing   *)
(* unread that could be a frame: less than one, or bytes among which there *)
(* is no plausible timestamp.  Good frames do not wait for the next        *)
(* datagram behind a rejected one.                                         *)
NothingPlausibleLeft ==
  pc # "process" /\ latestTS > 0 /\ available >= FrameSize =>
    \A offset \in 0 .. available - TSSize : ~ValidTS(TSAt(offset))

(* A frame that is handed over is later in the stream than the one before  *)
(* it, and shares no byte with it, also when an overrun has moved bytes    *)
(* about; its timestamp is within the window of the one before.  Until the *)
(* first overrun its bytes were received one after the other.              *)
FramesFollow ==
  [][latest' # latest =>
       /\ latest # <<>> =>
            /\ latest[FrameSize].at < latest'[1].at
            /\ LET ts(f) == TimestampOf(Bytes(SubSeq(f, 1, TSSize)))
               IN ts(latest') - ts(latest) \in -Behind .. Ahead
       /\ overruns = 0 =>
            latest'[FrameSize].at - latest'[1].at = FrameSize - 1]_vars

Acceptable(offset) ==
  /\ offset + FrameSize <= available
  /\ ValidTS(TSAt(offset))
  /\ Parses(Bytes(At(offset, FrameSize)))

(* What resynchronisation skips holds no start of a frame that would have  *)
(* been accepted.                                                          *)
NoFrameSkipped ==
  [][pc = "process" /\ latest' = latest =>
       \A offset \in 0 .. readPos' - readPos - 1 : ~Acceptable(offset)]_vars

(* Stop returns: a Feed under way ends, and the goroutine sees that the    *)
(* socket is closed.                                                       *)
StopTerminates == stop # "no" ~> stop = "returned"

(* "INS buffer overrun, resetting": no frame is put together from bytes    *)
(* on both sides of a datagram that was dropped.                           *)
FramesContiguous ==
  latest # <<>> => latest[FrameSize].at - latest[1].at = FrameSize - 1
=============================================================================
