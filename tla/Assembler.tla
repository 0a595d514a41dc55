----------------------------- MODULE Assembler -----------------------------
(***************************************************************************)
(* The sliding-window assembler with the error accounting wrapped round it *)
(* (SlidingWindowAssembler under SafeFrameProcessor): one instance per TCP *)
(* connection and one for the UDP receiver.                                *)
(*                                                                         *)
(* a.mu is held from the start of Feed to its end, so one call at a time   *)
(* runs; pc tells whether a call is in progress, and each pass of the loop *)
(* in runStateMachineLocked is one step.  The buffer is represented by     *)
(* readPos and by the bytes buf[readPos:writePos], so that                 *)
(* writePos = readPos + Len(window).                                       *)
(*                                                                         *)
(* A definition whose comment begins with `Defect' is not part of Next: it *)
(* is a mistake the definition after it might have had, and is there to    *)
(* show that a property notices it.                                        *)
(***************************************************************************)
EXTENDS Frames

CONSTANTS
  MaxConsecutiveErrors,  \* errors in a row after which the processor resets
  MaxBytes               \* bound of the model: bytes fed in one behaviour

ASSUME AssemblerAssumption ==
  /\ FrameAssumption
  /\ MaxConsecutiveErrors \in Nat /\ MaxBytes \in Nat

VARIABLES
  readPos,             \* index in buf of the first byte not consumed
  window,              \* the bytes of buf from readPos up to writePos
  state,               \* of the framing state machine
  expectedPayloadLen,  \* length of the frame being read, header included
  syncScanOffset,      \* offsets below it were scanned for the sync word
  errorCount,          \* consecutive errors the processor has counted
  pc,                  \* "idle", "run" inside Feed, "blocked" on its own mutex
  stats,               \* the AssemblerStats counters
  out                  \* the frames handed to the ping handler

vars == <<readPos, window, state, expectedPayloadLen, syncScanOffset,
          errorCount, pc, stats, out>>

Capacity == 4 * MaxFrameSize

available == Len(window)

writePos == readPos + available

Counters == {"BytesFed", "SyncFound", "HeaderParsed", "FramesCompleted",
             "ResyncEvents", "InvalidLength", "Overruns"}

Count(names) ==
  stats' = [s \in Counters |-> IF s \in names THEN stats[s] + 1 ELSE stats[s]]

-----------------------------------------------------------------------------

Init ==
  /\ readPos = 0
  /\ window = <<>>
  /\ state = "WaitSync"
  /\ expectedPayloadLen = 0
  /\ syncScanOffset = 0
  /\ errorCount = 0
  /\ pc = "idle"
  /\ stats = [s \in Counters |-> 0]
  /\ out = <<>>

resetLocked ==
  /\ readPos' = 0
  /\ window' = <<>>
  /\ state' = "WaitSync"
  /\ expectedPayloadLen' = 0
  /\ syncScanOffset' = 0

(* n errors reach the processor and stay within maxConsecutiveErrors. *)
Report(n) ==
  /\ errorCount + n <= MaxConsecutiveErrors
  /\ errorCount' = errorCount + n

(* Defect: both errors of a frame are counted before the limit is tested. *)
SelfLockCountsFirst(n) ==
  /\ errorCount + n > MaxConsecutiveErrors
  /\ errorCount' = errorCount + n
  /\ pc' = "blocked"

(* One of n errors exceeds maxConsecutiveErrors: the processor calls       *)
(* assembler.Reset(), which locks the a.mu this very call of Feed holds.   *)
SelfLock(n) ==
  /\ errorCount + n > MaxConsecutiveErrors
  /\ errorCount' = MaxConsecutiveErrors + 1
  /\ pc' = "blocked"

-----------------------------------------------------------------------------

(* Defect: Feed goes without compactIfNeeded. *)
NeverCompacted == readPos

(* readPos as compactIfNeeded leaves it. *)
compacted ==
  IF readPos > 0 /\ available < Capacity \div 4 THEN 0 ELSE readPos

(* readPos once Feed has made what room it can for n more bytes. *)
BaseFor(n) == IF writePos + n <= Capacity THEN readPos ELSE compacted

(* Defect: the room is not tested again after the compaction. *)
FitsUnchecked(n) == n <= Capacity

Fits(n) == BaseFor(n) + available + n <= Capacity

(* Feed stores the chunk and enters the state machine. *)
Feed(c) ==
  /\ pc = "idle"
  /\ stats["BytesFed"] + Len(c) <= MaxBytes
  /\ Fits(Len(c))
  /\ readPos' = BaseFor(Len(c))
  /\ window' = window \o c
  /\ stats' = [stats EXCEPT !["BytesFed"] = @ + Len(c)]
  /\ pc' = "run"
  /\ UNCHANGED <<state, expectedPayloadLen, syncScanOffset, errorCount, out>>

(* Feed has no room: it drops the chunk and everything buffered. *)
FeedOverrun(c) ==
  /\ pc = "idle"
  /\ ~Fits(Len(c))
  /\ Count({"Overruns"})
  /\ \/ Report(1) /\ resetLocked /\ UNCHANGED pc
     \/ /\ SelfLock(1)
        /\ readPos' = BaseFor(Len(c))
        /\ UNCHANGED <<window, state, expectedPayloadLen, syncScanOffset>>
  /\ out' = out

-----------------------------------------------------------------------------

(* Offsets, from the one the last scan stopped at, that hold the sync word.*)
SyncOffsets ==
  {i \in syncScanOffset..(available - Len(SyncWord)) : SyncAt(window, i)}

(* Defect: the bytes held are compared, not the end of the used buffer. *)
HalfHeld == available > Capacity \div 2

HalfUsed == writePos > Capacity \div 2

AtWaitSync == pc = "run" /\ state = "WaitSync"

(* Defect: the sync word is consumed, as if the header came after it. *)
FindSyncConsumes ==
  /\ AtWaitSync
  /\ \E i \in SyncOffsets :
       /\ \A j \in SyncOffsets : i <= j
       /\ readPos' = readPos + i + Len(SyncWord)
       /\ window' = Drop(window, i + Len(SyncWord))
  /\ state' = "ReadHeader"
  /\ syncScanOffset' = 0
  /\ Count({"SyncFound"})
  /\ UNCHANGED <<expectedPayloadLen, errorCount, pc, out>>

FindSync ==
  /\ AtWaitSync
  /\ \E i \in SyncOffsets :
       /\ \A j \in SyncOffsets : i <= j
       /\ readPos' = readPos + i
       /\ window' = Drop(window, i)
  /\ state' = "ReadHeader"
  /\ syncScanOffset' = 0
  /\ Count({"SyncFound"})
  /\ UNCHANGED <<expectedPayloadLen, errorCount, pc, out>>

(* Defect: the scan resumes after the last byte, past a split sync word. *)
AwaitSyncFromEnd ==
  /\ AtWaitSync
  /\ SyncOffsets = {}
  /\ available < Len(SyncWord) \/ ~HalfUsed
  /\ syncScanOffset' = available
  /\ pc' = "idle"
  /\ UNCHANGED <<readPos, window, state, expectedPayloadLen, errorCount,
                 stats, out>>

(* Too few bytes to scan, or none of those scanned starts a frame. *)
AwaitSync ==
  /\ AtWaitSync
  /\ SyncOffsets = {}
  /\ available < Len(SyncWord) \/ ~HalfUsed
  /\ syncScanOffset' = IF available < Len(SyncWord)
                         THEN syncScanOffset
                         ELSE available - Len(SyncWord) + 1
  /\ pc' = "idle"
  /\ UNCHANGED <<readPos, window, state, expectedPayloadLen, errorCount,
                 stats, out>>

(* More than half the buffer was used without a sync word: start over. *)
GiveUp ==
  /\ AtWaitSync
  /\ SyncOffsets = {}
  /\ available >= Len(SyncWord) /\ HalfUsed
  /\ Count({"ResyncEvents"})
  /\ \/ Report(1) /\ resetLocked /\ pc' = "idle"
     \/ /\ SelfLock(1)
        /\ UNCHANGED <<readPos, window, state, expectedPayloadLen,
                       syncScanOffset>>
  /\ out' = out

-----------------------------------------------------------------------------

AtReadHeader == pc = "run" /\ state = "ReadHeader"

pktLen == PktLen(HeaderAt(window, 0))

ParseHeader ==
  /\ AtReadHeader
  /\ available >= HeaderByteSize
  /\ ValidLen(pktLen)
  /\ expectedPayloadLen' = pktLen
  /\ state' = "ReadPayload"
  /\ Count({"HeaderParsed"})
  /\ UNCHANGED <<readPos, window, syncScanOffset, errorCount, pc, out>>

(* Defect: the whole header is skipped, with the sync word it may hold. *)
RejectWholeHeader ==
  /\ AtReadHeader
  /\ available >= HeaderByteSize
  /\ ~ValidLen(pktLen)
  /\ Report(1)
  /\ readPos' = readPos + HeaderByteSize
  /\ window' = Drop(window, HeaderByteSize)
  /\ state' = "WaitSync"
  /\ syncScanOffset' = 0
  /\ Count({"InvalidLength", "ResyncEvents"})
  /\ UNCHANGED <<expectedPayloadLen, pc, out>>

RejectHeader ==
  /\ AtReadHeader
  /\ available >= HeaderByteSize
  /\ ~ValidLen(pktLen)
  /\ \/ /\ Report(1)
        /\ readPos' = readPos + 1
        /\ window' = Drop(window, 1)
        /\ state' = "WaitSync"
        /\ syncScanOffset' = 0
        /\ Count({"InvalidLength", "ResyncEvents"})
        /\ UNCHANGED pc
     \/ /\ SelfLock(1)
        /\ Count({"InvalidLength"})
        /\ UNCHANGED <<readPos, window, state, syncScanOffset>>
  /\ UNCHANGED <<expectedPayloadLen, out>>

(* Feed returns and waits for more of a header or of a payload. *)
AwaitBytes ==
  /\ \/ AtReadHeader /\ available < HeaderByteSize
     \/ pc = "run" /\ state = "ReadPayload" /\ available < expectedPayloadLen
  /\ pc' = "idle"
  /\ UNCHANGED <<readPos, window, state, expectedPayloadLen, syncScanOffset,
                 errorCount, stats, out>>

-----------------------------------------------------------------------------

(* The frame is cut out of the buffer and handed to handleValidFrame. *)
CompleteFrame(frame) ==
  /\ pc = "run" /\ state = "ReadPayload"
  /\ available >= expectedPayloadLen
  /\ frame = SubSeq(window, 1, expectedPayloadLen)
  /\ readPos' = readPos + expectedPayloadLen
  /\ window' = Drop(window, expectedPayloadLen)
  /\ state' = "FrameReady"
  /\ Count({"FramesCompleted"})
  /\ UNCHANGED <<expectedPayloadLen, syncScanOffset>>

Deliver ==
  LET frame == SubSeq(window, 1, expectedPayloadLen)
  IN /\ CompleteFrame(frame)
     /\ Verdict(frame) = "ok"
     /\ out' = Append(out, frame)
     /\ errorCount' = 0
     /\ pc' = pc

(* A decoding error is counted by handleValidFrame, and again when the     *)
(* error it returns comes back through onError.                            *)
ErrorsOf(frame) == IF Verdict(frame) = "undecodable" THEN 2 ELSE 1

(* The handler's error makes Feed return with the rest still buffered. *)
Reject ==
  LET frame == SubSeq(window, 1, expectedPayloadLen)
  IN /\ CompleteFrame(frame)
     /\ Verdict(frame) # "ok"
     /\ \/ Report(ErrorsOf(frame)) /\ pc' = "idle"
        \/ SelfLock(ErrorsOf(frame))
     /\ out' = out

(* Defect: the state is not set back to WaitSync. *)
NextFrameForgotten ==
  /\ pc = "run" /\ state = "FrameReady"
  /\ syncScanOffset' = 0
  /\ UNCHANGED <<readPos, window, state, expectedPayloadLen, errorCount, pc,
                 stats, out>>

NextFrame ==
  /\ pc = "run" /\ state = "FrameReady"
  /\ state' = "WaitSync"
  /\ syncScanOffset' = 0
  /\ UNCHANGED <<readPos, window, expectedPayloadLen, errorCount, pc, stats,
                 out>>

-----------------------------------------------------------------------------

(* One pass of the loop in runStateMachineLocked. *)
Step == \/ FindSync \/ AwaitSync \/ GiveUp
        \/ ParseHeader \/ RejectHeader \/ AwaitBytes
        \/ Deliver \/ Reject \/ NextFrame

Next == Step \/ \E c \in Chunks : Feed(c) \/ FeedOverrun(c)

Spec == Init /\ [][Next]_vars

(* The goroutine inside Feed keeps running; nobody has to send anything. *)
FairSpec == Spec /\ WF_vars(Step)

-----------------------------------------------------------------------------

TypeOK ==
  /\ readPos \in Nat
  /\ window \in Seq(Byte)
  /\ state \in {"WaitSync", "ReadHeader", "ReadPayload", "FrameReady"}
  /\ expectedPayloadLen \in Nat
  /\ syncScanOffset \in Nat
  /\ errorCount \in 0..(MaxConsecutiveErrors + 1)
  /\ pc \in {"idle", "run", "blocked"}
  /\ stats \in [Counters -> Nat]
  /\ out \in Seq(Seq(Byte))

(* Every index the handlers form stays inside buf: Feed copies to writePos *)
(* and the handlers slice up to it, over any sequence of chunks, skips,    *)
(* compactions and resets.                                                 *)
BufferBounded == writePos <= Capacity

(* While a header or a payload is awaited, the buffer begins with the sync *)
(* word that was found, and the length that was read is still the one in   *)
(* the header: what Feed moved, appended or compacted meanwhile did not    *)
(* disturb it (handleReadHeaderLocked never looks at the sync word again). *)
AlignedOnSync ==
  /\ state \in {"ReadHeader", "ReadPayload"} =>
       SyncAt(window, 0) /\ syncScanOffset = 0
  /\ state = "ReadPayload" =>
       /\ available >= HeaderByteSize
       /\ ValidLen(expectedPayloadLen)
       /\ expectedPayloadLen = pktLen

(* The offsets that an earlier scan let handleWaitSyncLocked skip hold no  *)
(* sync word, also after the bytes of a split sync word arrived.           *)
ScanSkipsNoSync ==
  state = "WaitSync" =>
    /\ syncScanOffset <= available
    /\ \A i \in 0..(syncScanOffset - 1) : ~SyncAt(window, i)

(* Whatever was received so far, the next chunk finds room, so that bytes  *)
(* of a good stream are never thrown away: only after the frame handler    *)
(* returned an error, with the rest of the buffer not looked at, can Feed  *)
(* report an overrun.                                                      *)
HealthyFeedFits ==
  pc = "idle" /\ state # "FrameReady" => Fits(MaxFrameSize)

(* The counters of the metrics log add up at every step of the loop: each  *)
(* sync word found is a parsed header, an invalid length or the header     *)
(* being read, and each parsed header a frame or the payload being read,   *)
(* except those a resetLocked threw away, which only an overrun can do.    *)
StatsReconcile ==
  LET inHeader  == IF state = "ReadHeader" THEN 1 ELSE 0
      inPayload == IF state = "ReadPayload" THEN 1 ELSE 0
  IN /\ pc # "blocked" => stats["SyncFound"] = stats["HeaderParsed"]
                             + stats["InvalidLength"] + inHeader
     /\ stats["HeaderParsed"] = stats["FramesCompleted"] + inPayload

(* The assembler implements the abstract stream: the sliding window, its   *)
(* compactions, scan offsets and resets lose, repeat or reorder no byte    *)
(* but in the ways FrameStream names, and the frames delivered as pings    *)
(* are the frames of the stream.                                           *)
FS == INSTANCE FrameStream WITH
        pending <- window,
        stalled <- (state = "FrameReady" /\ pc # "run")

ImplementsFrameStream == FS!Spec

(* A call of Feed ends, whatever the bytes: the loop of                    *)
(* runStateMachineLocked returns, or hangs at the mutex it already holds.  *)
FeedTerminates == pc = "run" ~> pc # "run"

(* What "invalid packet length ..., triggering resync" reports happens:    *)
(* each invalid length that is counted is followed by its resync.          *)
InvalidLengthResyncs ==
  stats["InvalidLength"] > stats["ResyncEvents"]
    ~> stats["InvalidLength"] <= stats["ResyncEvents"]
=============================================================================
