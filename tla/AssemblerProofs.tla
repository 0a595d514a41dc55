-------------------------- MODULE AssemblerProofs --------------------------
(***************************************************************************)
(* Safety of the assembler for every sync word, frame size, verdict and    *)
(* set of chunks: the inductive invariant, the refinement of FrameStream   *)
(* that rests on it, and that a Feed makes a bounded number of passes      *)
(* (FeedIsBounded).  At the end, what the two length rules make of each    *)
(* other, for the constants of the code.                                   *)
(***************************************************************************)
EXTENDS Assembler, TLAPS

(* Every offset the scan left behind had a whole word after it, so no byte *)
(* that arrives later can complete a sync word there.                      *)
ScanWithin ==
  \A i \in 0..(syncScanOffset - 1) : i + Len(SyncWord) <= available

(* When Feed returned without an error, little is buffered, or the state   *)
(* machine looks for a sync word in the first half of the buffer.          *)
IdleRoom ==
  pc = "idle" /\ state # "FrameReady" =>
    \/ available < MaxFrameSize
    \/ state = "WaitSync" /\ writePos <= Capacity \div 2

IInv ==
  /\ TypeOK
  /\ BufferBounded
  /\ AlignedOnSync
  /\ ScanSkipsNoSync
  /\ ScanWithin
  /\ IdleRoom

-----------------------------------------------------------------------------

(* Drop(w, n), the buffer after readPos advanced by n, is a sequence that  *)
(* holds what stood n further in w.                                        *)
LEMMA DropFacts ==
  ASSUME NEW w \in Seq(Byte), NEW n \in 0..Len(w)
  PROVE  /\ Drop(w, n) \in Seq(Byte)
         /\ Len(Drop(w, n)) = Len(w) - n
         /\ \A k \in 1..(Len(w) - n) : Drop(w, n)[k] = w[n + k]
BY DEF Drop

(* The prefix of the buffer that handleReadPayloadLocked copies out.       *)
LEMMA PrefixType ==
  ASSUME NEW w \in Seq(Byte), NEW n \in 0..Len(w)
  PROVE  SubSeq(w, 1, n) \in Seq(Byte)
OBVIOUS

(* A sync word that stands in w also stands there after a chunk is         *)
(* appended, and none appears at an offset that had a whole word after it. *)
LEMMA SyncAtAppend ==
  ASSUME FrameAssumption,
         NEW w \in Seq(Byte), NEW c \in Seq(Byte), NEW i \in Nat,
         i + Len(SyncWord) <= Len(w)
  PROVE  SyncAt(w \o c, i) <=> SyncAt(w, i)
<1>1. Len(SyncWord) \in Nat
  BY DEF FrameAssumption
<1>2. Len(w \o c) = Len(w) + Len(c) /\ Len(c) \in Nat /\ Len(w) \in Nat
  OBVIOUS
<1>3. \A k \in 1..Len(SyncWord) : (w \o c)[i + k] = w[i + k]
  BY <1>1
<1> QED
  BY <1>1, <1>2, <1>3 DEF SyncAt

(* Advancing readPos by n moves every sync word n offsets down.            *)
LEMMA SyncAtDrop ==
  ASSUME FrameAssumption,
         NEW w \in Seq(Byte), NEW n \in 0..Len(w), NEW i \in Nat
  PROVE  SyncAt(Drop(w, n), i) <=> SyncAt(w, n + i)
<1>1. Len(SyncWord) \in Nat
  BY DEF FrameAssumption
<1>2. ASSUME i + Len(SyncWord) <= Len(w) - n, NEW k \in 1..Len(SyncWord)
      PROVE  Drop(w, n)[i + k] = w[n + i + k]
  BY <1>1, <1>2, DropFacts
<1>3. Len(Drop(w, n)) = Len(w) - n
  BY DropFacts
<1> QED
  BY <1>1, <1>2, <1>3 DEF SyncAt

(* A header that is there stays there when a chunk is appended.            *)
LEMMA HeaderAtAppend ==
  ASSUME FrameAssumption,
         NEW w \in Seq(Byte), NEW c \in Seq(Byte), HeaderByteSize <= Len(w)
  PROVE  HeaderAt(w \o c, 0) = HeaderAt(w, 0)
BY DEF FrameAssumption, HeaderAt

(* The sizes, as numbers.                                                  *)
LEMMA Sizes ==
  /\ Len(SyncWord) \in Nat /\ 0 < Len(SyncWord)
  /\ HeaderByteSize \in Nat /\ Len(SyncWord) < HeaderByteSize
  /\ MinFrameSize \in Nat /\ HeaderByteSize <= MinFrameSize
  /\ MaxFrameSize \in Nat /\ MinFrameSize <= MaxFrameSize
  /\ MaxConsecutiveErrors \in Nat /\ MaxBytes \in Nat
BY AssemblerAssumption DEF FrameAssumption

LEMMA ChunkType ==
  ASSUME NEW c \in Chunks
  PROVE  c \in Seq(Byte) /\ Len(c) \in 1..MaxFrameSize
BY AssemblerAssumption DEF FrameAssumption

-----------------------------------------------------------------------------

(* A reset leaves the invariant's buffer part trivially true, whether Feed *)
(* goes on or returns.                                                     *)
LEMMA ResetInv ==
  ASSUME IInv, resetLocked,
         errorCount' \in 0..(MaxConsecutiveErrors + 1),
         pc' \in {"idle", "run", "blocked"},
         stats' \in [Counters -> Nat],
         out' \in Seq(Seq(Byte))
  PROVE  IInv'
<1>1. TypeOK'
  BY DEF resetLocked, TypeOK
<1>2. BufferBounded' /\ AlignedOnSync'
  BY Sizes DEF resetLocked, BufferBounded, AlignedOnSync, writePos, available,
               Capacity
<1>3. ScanSkipsNoSync' /\ ScanWithin'
  BY DEF resetLocked, ScanSkipsNoSync, ScanWithin, available
<1>4. IdleRoom'
  BY Sizes DEF resetLocked, IdleRoom, available
<1> QED
  BY <1>1, <1>2, <1>3, <1>4 DEF IInv

(* Counting an event keeps the counters natural numbers.                   *)
LEMMA CountType ==
  ASSUME TypeOK, NEW names, Count(names)
  PROVE  stats' \in [Counters -> Nat]
BY DEF TypeOK, Count

(* The error count never passes the limit by more than one.                *)
LEMMA ErrorType ==
  ASSUME TypeOK, NEW n \in {1, 2}, Report(n) \/ SelfLock(n)
  PROVE  errorCount' \in 0..(MaxConsecutiveErrors + 1)
BY Sizes DEF TypeOK, Report, SelfLock

(* A handler that locks itself out has changed nothing of the buffer.      *)
LEMMA BlockedInv ==
  ASSUME IInv, SelfLock(1), NEW names, Count(names),
         readPos' \in 0..readPos,
         UNCHANGED <<window, state, expectedPayloadLen, syncScanOffset, out>>
  PROVE  IInv'
<1>1. TypeOK'
  BY CountType, ErrorType DEF IInv, TypeOK, SelfLock
<1>2. BufferBounded' /\ AlignedOnSync'
  BY Sizes DEF IInv, TypeOK, BufferBounded, AlignedOnSync, writePos,
               available, Capacity, pktLen
<1>3. ScanSkipsNoSync' /\ ScanWithin'
  BY DEF IInv, ScanSkipsNoSync, ScanWithin, available
<1>4. IdleRoom'
  BY DEF IdleRoom, SelfLock
<1> QED
  BY <1>1, <1>2, <1>3, <1>4 DEF IInv

(* Feed only appends: what was scanned, found or parsed stays so.          *)
LEMMA FeedInv ==
  ASSUME IInv, NEW c \in Chunks, Feed(c)
  PROVE  IInv'
<1>0. /\ c \in Seq(Byte) /\ Len(c) \in Nat
      /\ window \in Seq(Byte) /\ Len(window) \in Nat
      /\ window' = window \o c /\ Len(window') = Len(window) + Len(c)
  BY ChunkType DEF IInv, TypeOK, Feed
<1>1. TypeOK'
  <2>1. BaseFor(Len(c)) \in Nat
    BY DEF IInv, TypeOK, BaseFor, compacted
  <2> QED
    BY <1>0, <2>1 DEF IInv, TypeOK, Feed, Counters
<1>2. BufferBounded'
  <2>1. BaseFor(Len(c)) \in Nat
    BY DEF IInv, TypeOK, BaseFor, compacted
  <2> QED
    BY <1>0, <2>1, Sizes DEF Feed, Fits, BufferBounded, writePos, available,
                             Capacity
<1>3. AlignedOnSync'
  <2>1. CASE state \in {"ReadHeader", "ReadPayload"}
    <3>1. SyncAt(window, 0) /\ syncScanOffset = 0
      BY <2>1 DEF IInv, AlignedOnSync
    <3>2. SyncAt(window', 0)
      BY <1>0, <3>1, SyncAtAppend, AssemblerAssumption DEF SyncAt
    <3>3. state = "ReadPayload" => pktLen' = pktLen
      BY <1>0, HeaderAtAppend, AssemblerAssumption
         DEF IInv, AlignedOnSync, available, pktLen
    <3> QED
      BY <1>0, <3>1, <3>2, <3>3, Sizes DEF IInv, AlignedOnSync, available, Feed
  <2>2. CASE state \notin {"ReadHeader", "ReadPayload"}
    BY <2>2 DEF AlignedOnSync, Feed
  <2> QED
    BY <2>1, <2>2
<1>4. ScanSkipsNoSync'
  <2>1. ASSUME state = "WaitSync", NEW i \in 0..(syncScanOffset - 1)
        PROVE  ~SyncAt(window', i)
    BY <1>0, <2>1, SyncAtAppend, AssemblerAssumption
       DEF IInv, TypeOK, ScanSkipsNoSync, ScanWithin, available
  <2> QED
    BY <1>0, <2>1 DEF IInv, TypeOK, ScanSkipsNoSync, available, Feed
<1>5. ScanWithin'
  BY <1>0, Sizes DEF IInv, TypeOK, ScanWithin, available, Feed
<1>6. IdleRoom'
  BY DEF IdleRoom, Feed
<1> QED
  BY <1>1, <1>2, <1>3, <1>4, <1>5, <1>6 DEF IInv

LEMMA FeedOverrunInv ==
  ASSUME IInv, NEW c \in Chunks, FeedOverrun(c)
  PROVE  IInv'
<1>1. stats' \in [Counters -> Nat]
  BY CountType DEF IInv, FeedOverrun
<1>2. CASE Report(1) /\ resetLocked /\ UNCHANGED pc
  <2>1. errorCount' \in 0..(MaxConsecutiveErrors + 1)
    BY <1>2, ErrorType DEF IInv
  <2> QED
    BY <1>1, <1>2, <2>1, ResetInv DEF IInv, TypeOK, FeedOverrun
<1>3. CASE /\ SelfLock(1)
           /\ readPos' = BaseFor(Len(c))
           /\ UNCHANGED <<window, state, expectedPayloadLen, syncScanOffset>>
  <2>1. readPos' \in 0..readPos
    BY <1>3 DEF IInv, TypeOK, BaseFor, compacted
  <2> QED
    BY <1>3, <2>1, BlockedInv DEF FeedOverrun
<1> QED
  BY <1>2, <1>3 DEF FeedOverrun

-----------------------------------------------------------------------------

(* Dropping the bytes before the sync word puts the word at the front.     *)
LEMMA FindSyncInv ==
  ASSUME IInv, FindSync
  PROVE  IInv'
<1>1. PICK i \in SyncOffsets : /\ readPos' = readPos + i
                               /\ window' = Drop(window, i)
  BY DEF FindSync
<1>2. /\ i \in 0..Len(window) /\ SyncAt(window, i)
      /\ window \in Seq(Byte) /\ Len(window) \in Nat
  BY Sizes DEF IInv, TypeOK, SyncOffsets, available
<1>3. window' \in Seq(Byte) /\ Len(window') = Len(window) - i
  BY <1>1, <1>2, DropFacts
<1>4. TypeOK'
  BY <1>1, <1>2, <1>3, CountType DEF IInv, TypeOK, FindSync
<1>5. BufferBounded'
  BY <1>1, <1>2, <1>3, Sizes
     DEF IInv, TypeOK, BufferBounded, writePos, available, Capacity
<1>6. SyncAt(window', 0)
  BY <1>1, <1>2, SyncAtDrop, AssemblerAssumption
<1> QED
  BY <1>4, <1>5, <1>6 DEF IInv, FindSync, AtWaitSync, AlignedOnSync,
                          ScanSkipsNoSync, ScanWithin, IdleRoom

(* What the scan records as skipped is what it looked at.                  *)
LEMMA AwaitSyncInv ==
  ASSUME IInv, AwaitSync
  PROVE  IInv'
<1>0. /\ window \in Seq(Byte) /\ Len(window) \in Nat
      /\ syncScanOffset \in Nat /\ readPos \in Nat
      /\ state = "WaitSync" /\ SyncOffsets = {}
  BY DEF IInv, TypeOK, AwaitSync, AtWaitSync
<1>1. TypeOK'
  BY <1>0, Sizes DEF IInv, TypeOK, AwaitSync, available
<1>2. BufferBounded' /\ AlignedOnSync'
  BY <1>0 DEF IInv, BufferBounded, AlignedOnSync, AwaitSync, writePos,
              available, Capacity
<1>3. ScanSkipsNoSync' /\ ScanWithin'
  <2>1. CASE available < Len(SyncWord)
    BY <2>1, <1>0, Sizes
       DEF IInv, ScanSkipsNoSync, ScanWithin, AwaitSync, available
  <2>2. CASE ~(available < Len(SyncWord))
    <3>1. syncScanOffset' = available - Len(SyncWord) + 1
      BY <2>2 DEF AwaitSync
    <3>2. ASSUME NEW i \in 0..(available - Len(SyncWord))
          PROVE  ~SyncAt(window, i)
      <4>1. CASE i < syncScanOffset
        BY <4>1, <1>0 DEF IInv, ScanSkipsNoSync
      <4>2. CASE i >= syncScanOffset
        BY <4>2, <1>0, Sizes DEF SyncOffsets, available
      <4> QED
        BY <4>1, <4>2, <1>0
    <3> QED
      BY <3>1, <3>2, <2>2, <1>0, Sizes
         DEF ScanSkipsNoSync, ScanWithin, AwaitSync, available
  <2> QED
    BY <2>1, <2>2
<1>4. IdleRoom'
  BY <1>0, Sizes DEF IdleRoom, AwaitSync, HalfUsed, available, writePos,
                     Capacity
<1> QED
  BY <1>1, <1>2, <1>3, <1>4 DEF IInv

LEMMA GiveUpInv ==
  ASSUME IInv, GiveUp
  PROVE  IInv'
<1>1. stats' \in [Counters -> Nat]
  BY CountType DEF IInv, GiveUp
<1>2. CASE Report(1) /\ resetLocked /\ pc' = "idle"
  <2>1. errorCount' \in 0..(MaxConsecutiveErrors + 1)
    BY <1>2, ErrorType DEF IInv
  <2> QED
    BY <1>1, <1>2, <2>1, ResetInv DEF IInv, TypeOK, GiveUp
<1>3. CASE /\ SelfLock(1)
           /\ UNCHANGED <<readPos, window, state, expectedPayloadLen,
                          syncScanOffset>>
  BY <1>3, BlockedInv DEF GiveUp, IInv, TypeOK
<1> QED
  BY <1>2, <1>3 DEF GiveUp

(* The length is accepted only within the range of frame sizes.            *)
LEMMA ParseHeaderInv ==
  ASSUME IInv, ParseHeader
  PROVE  IInv'
<1>1. /\ TypeOK' /\ BufferBounded'
  BY CountType, Sizes DEF IInv, TypeOK, BufferBounded, ParseHeader, ValidLen,
                          writePos, available, Capacity
<1>2. AlignedOnSync'
  BY DEF IInv, AlignedOnSync, ParseHeader, AtReadHeader, pktLen, available
<1> QED
  BY <1>1, <1>2 DEF IInv, ParseHeader, AtReadHeader, AlignedOnSync, TypeOK,
                    ScanSkipsNoSync, ScanWithin, IdleRoom

LEMMA RejectHeaderInv ==
  ASSUME IInv, RejectHeader
  PROVE  IInv'
<1>1. CASE /\ Report(1)
           /\ readPos' = readPos + 1
           /\ window' = Drop(window, 1)
           /\ state' = "WaitSync"
           /\ syncScanOffset' = 0
           /\ Count({"InvalidLength", "ResyncEvents"})
           /\ UNCHANGED pc
  <2>1. /\ window \in Seq(Byte) /\ 1 \in 0..Len(window)
        /\ Len(window) \in Nat /\ readPos \in Nat
    BY Sizes DEF IInv, TypeOK, RejectHeader, available
  <2>2. window' \in Seq(Byte) /\ Len(window') = Len(window) - 1
    BY <1>1, <2>1, DropFacts
  <2>3. TypeOK'
    BY <1>1, <2>1, <2>2, CountType, ErrorType
       DEF IInv, TypeOK, RejectHeader
  <2>4. BufferBounded'
    BY <1>1, <2>1, <2>2, Sizes
       DEF IInv, BufferBounded, writePos, available, Capacity
  <2> QED
    BY <1>1, <2>2, <2>3, <2>4
       DEF IInv, AlignedOnSync, ScanSkipsNoSync, ScanWithin, IdleRoom,
           RejectHeader, AtReadHeader, available
<1>2. CASE /\ SelfLock(1)
           /\ Count({"InvalidLength"})
           /\ UNCHANGED <<readPos, window, state, syncScanOffset>>
  BY <1>2, BlockedInv DEF RejectHeader, IInv, TypeOK
<1> QED
  BY <1>1, <1>2 DEF RejectHeader

(* Feed returns with less than a header, or less than the frame, buffered. *)
LEMMA AwaitBytesInv ==
  ASSUME IInv, AwaitBytes
  PROVE  IInv'
<1>1. TypeOK' /\ BufferBounded' /\ AlignedOnSync'
  BY DEF IInv, TypeOK, BufferBounded, AlignedOnSync, AwaitBytes, writePos,
         available, Capacity, pktLen
<1>2. available < MaxFrameSize
  BY Sizes DEF IInv, TypeOK, AlignedOnSync, AwaitBytes, ValidLen, available
<1> QED
  BY <1>1, <1>2 DEF IInv, ScanSkipsNoSync, ScanWithin, IdleRoom, AwaitBytes,
                    available

(* Deliver and Reject: cutting out a frame leaves the bytes behind it.     *)
LEMMA CompleteFrameInv ==
  ASSUME IInv, NEW frame, CompleteFrame(frame),
         errorCount' \in 0..(MaxConsecutiveErrors + 1),
         pc' \in {"idle", "run", "blocked"},
         out' \in Seq(Seq(Byte))
  PROVE  IInv'
<1>1. /\ window \in Seq(Byte) /\ Len(window) \in Nat /\ readPos \in Nat
      /\ expectedPayloadLen \in 0..Len(window)
  BY DEF IInv, TypeOK, CompleteFrame, available
<1>2. /\ window' \in Seq(Byte)
      /\ Len(window') = Len(window) - expectedPayloadLen
  BY <1>1, DropFacts DEF CompleteFrame
<1>3. TypeOK'
  BY <1>1, <1>2, CountType DEF IInv, TypeOK, CompleteFrame
<1>4. BufferBounded'
  BY <1>1, <1>2, Sizes
     DEF IInv, BufferBounded, CompleteFrame, writePos, available, Capacity
<1> QED
  BY <1>3, <1>4 DEF IInv, AlignedOnSync, ScanSkipsNoSync, ScanWithin,
                    IdleRoom, CompleteFrame

LEMMA DeliverInv ==
  ASSUME IInv, Deliver
  PROVE  IInv'
<1> DEFINE frame == SubSeq(window, 1, expectedPayloadLen)
<1>1. CompleteFrame(frame) /\ out' = Append(out, frame)
  BY DEF Deliver
<1>2. frame \in Seq(Byte)
  BY <1>1, PrefixType DEF IInv, TypeOK, CompleteFrame, available
<1>3. out' \in Seq(Seq(Byte))
  BY <1>1, <1>2 DEF IInv, TypeOK
<1> QED
  BY <1>1, <1>3, CompleteFrameInv, Sizes DEF Deliver, IInv, TypeOK

LEMMA RejectInv ==
  ASSUME IInv, Reject
  PROVE  IInv'
<1> DEFINE frame == SubSeq(window, 1, expectedPayloadLen)
           n == ErrorsOf(frame)
<1>1. /\ CompleteFrame(frame) /\ out' = out
      /\ (Report(n) /\ pc' = "idle") \/ SelfLock(n)
  BY DEF Reject
<1>2. n \in {1, 2}
  BY DEF ErrorsOf
<1>3. errorCount' \in 0..(MaxConsecutiveErrors + 1)
  <2> HIDE DEF n
  <2> QED
    BY <1>1, <1>2, ErrorType DEF IInv
<1>4. pc' \in {"idle", "run", "blocked"}
  <2> HIDE DEF n
  <2> QED
    BY <1>1 DEF SelfLock
<1> QED
  BY <1>1, <1>3, <1>4, CompleteFrameInv DEF IInv, TypeOK

LEMMA NextFrameInv ==
  ASSUME IInv, NextFrame
  PROVE  IInv'
BY DEF IInv, TypeOK, BufferBounded, AlignedOnSync, ScanSkipsNoSync,
       ScanWithin, IdleRoom, NextFrame, writePos, available, Capacity

-----------------------------------------------------------------------------

LEMMA InitInv == Init => IInv
BY Sizes DEF Init, IInv, TypeOK, BufferBounded, AlignedOnSync, Capacity,
             ScanSkipsNoSync, ScanWithin, IdleRoom, writePos, available

LEMMA StutterInv ==
  ASSUME IInv, UNCHANGED vars
  PROVE  IInv'
BY DEF vars, IInv, TypeOK, BufferBounded, AlignedOnSync, ScanSkipsNoSync,
       ScanWithin, IdleRoom, writePos, available, Capacity, pktLen

LEMMA NextInv == IInv /\ [Next]_vars => IInv'
<1> SUFFICES ASSUME IInv, [Next]_vars
             PROVE  IInv'
  OBVIOUS
<1>1. CASE FindSync
  BY <1>1, FindSyncInv
<1>2. CASE AwaitSync
  BY <1>2, AwaitSyncInv
<1>3. CASE GiveUp
  BY <1>3, GiveUpInv
<1>4. CASE ParseHeader
  BY <1>4, ParseHeaderInv
<1>5. CASE RejectHeader
  BY <1>5, RejectHeaderInv
<1>6. CASE AwaitBytes
  BY <1>6, AwaitBytesInv
<1>7. CASE Deliver
  BY <1>7, DeliverInv
<1>8. CASE Reject
  BY <1>8, RejectInv
<1>9. CASE NextFrame
  BY <1>9, NextFrameInv
<1>10. ASSUME NEW c \in Chunks, Feed(c)
       PROVE  IInv'
  BY <1>10, FeedInv
<1>11. ASSUME NEW c \in Chunks, FeedOverrun(c)
       PROVE  IInv'
  BY <1>11, FeedOverrunInv
<1>12. CASE UNCHANGED vars
  BY <1>12, StutterInv
<1> QED
  BY <1>1, <1>2, <1>3, <1>4, <1>5, <1>6, <1>7, <1>8, <1>9, <1>10, <1>11,
     <1>12 DEF Next, Step

(* The inductive invariant holds in every state of the assembler.          *)
THEOREM Invariance == Spec => []IInv
BY InitInv, NextInv, PTL DEF Spec

(* Every variable keeps its type; in particular the processor never counts *)
(* more than one error past the limit.                                     *)
THEOREM TypeCorrect == Spec => []TypeOK
<1>1. IInv => TypeOK
  BY DEF IInv
<1> QED
  BY <1>1, Invariance, PTL

(* Feed and the handlers index buf only inside its capacity.               *)
THEOREM NoIndexOutOfRange == Spec => []BufferBounded
<1>1. IInv => BufferBounded
  BY DEF IInv
<1> QED
  BY <1>1, Invariance, PTL

(* A header and a payload are read where scanForSync found the sync word,  *)
(* whatever Feed moved, appended or compacted in between.                  *)
THEOREM ReadsBehindSync == Spec => []AlignedOnSync
<1>1. IInv => AlignedOnSync
  BY DEF IInv
<1> QED
  BY <1>1, Invariance, PTL

(* The scan passes over no sync word, one that only the bytes of the next  *)
(* Feed complete included.                                                 *)
THEOREM SyncNeverLost == Spec => []ScanSkipsNoSync
<1>1. IInv => ScanSkipsNoSync
  BY DEF IInv
<1> QED
  BY <1>1, Invariance, PTL

LEMMA RoomWhenHealthy == IInv => HealthyFeedFits
<1> SUFFICES ASSUME IInv, pc = "idle", state # "FrameReady"
             PROVE  Fits(MaxFrameSize)
  BY DEF HealthyFeedFits
<1>1. readPos \in Nat /\ available \in Nat
  BY DEF IInv, TypeOK, available
<1>2. \/ available < MaxFrameSize
      \/ writePos <= Capacity \div 2
  BY DEF IInv, IdleRoom
<1>3. Capacity \div 4 = MaxFrameSize /\ Capacity \div 2 = 2 * MaxFrameSize
  BY Sizes DEF Capacity
<1> QED
  BY <1>1, <1>2, <1>3, Sizes DEF Fits, BaseFor, compacted, writePos, Capacity

(* A stream whose frames are all accepted never overruns the buffer,       *)
(* however it is cut into chunks.                                          *)
THEOREM OverrunOnlyAfterRejection == Spec => []HealthyFeedFits
BY RoomWhenHealthy, Invariance, PTL

-----------------------------------------------------------------------------

(* An overrun finds the assembler between a rejected frame and the rescan. *)
LEMMA OverrunState ==
  ASSUME IInv, NEW c \in Chunks, FeedOverrun(c)
  PROVE  state = "FrameReady"
<1>1. ~Fits(Len(c)) /\ Len(c) \in 1..MaxFrameSize
  BY ChunkType DEF FeedOverrun
<1>2. readPos \in Nat /\ available \in Nat /\ compacted \in Nat
  BY DEF IInv, TypeOK, available, compacted
<1>3. ~Fits(MaxFrameSize)
  BY <1>1, <1>2, Sizes DEF Fits, BaseFor, writePos, Capacity
<1> QED
  BY <1>3, RoomWhenHealthy DEF HealthyFeedFits, FeedOverrun

LEMMA ReconcileInit == Init => StatsReconcile
BY DEF Init, StatsReconcile, Counters

LEMMA ReconcileNext == IInv /\ StatsReconcile /\ [Next]_vars => StatsReconcile'
<1> SUFFICES ASSUME IInv, StatsReconcile, [Next]_vars
             PROVE  StatsReconcile'
  OBVIOUS
<1>0. /\ stats["SyncFound"] \in Nat /\ stats["HeaderParsed"] \in Nat
      /\ stats["InvalidLength"] \in Nat /\ stats["FramesCompleted"] \in Nat
  BY DEF IInv, TypeOK, Counters
<1>1. CASE FindSync
  BY <1>0, <1>1 DEF StatsReconcile, FindSync, AtWaitSync, Count, Counters
<1>2. CASE AwaitSync
  BY <1>2 DEF StatsReconcile, AwaitSync, AtWaitSync
<1>3. CASE GiveUp
  BY <1>0, <1>3 DEF StatsReconcile, GiveUp, AtWaitSync, Count, Counters,
                    resetLocked, SelfLock
<1>4. CASE ParseHeader
  BY <1>0, <1>4 DEF StatsReconcile, ParseHeader, AtReadHeader, Count, Counters
<1>5. CASE RejectHeader
  BY <1>0, <1>5 DEF StatsReconcile, RejectHeader, AtReadHeader, Count,
                    Counters, SelfLock
<1>6. CASE AwaitBytes
  BY <1>6 DEF StatsReconcile, AwaitBytes, AtReadHeader
<1>7. CASE \E frame : CompleteFrame(frame)
  BY <1>0, <1>7 DEF StatsReconcile, CompleteFrame, Count, Counters
<1>8. CASE NextFrame
  BY <1>8 DEF StatsReconcile, NextFrame
<1>9. ASSUME NEW c \in Chunks, Feed(c)
      PROVE  StatsReconcile'
  BY <1>9 DEF StatsReconcile, Feed, IInv, TypeOK, Counters
<1>10. ASSUME NEW c \in Chunks, FeedOverrun(c)
       PROVE  StatsReconcile'
  BY <1>0, <1>10, OverrunState DEF StatsReconcile, FeedOverrun, Count,
                                   Counters, resetLocked, SelfLock
<1>11. CASE UNCHANGED vars
  BY <1>11 DEF vars, StatsReconcile
<1> QED
  BY <1>1, <1>2, <1>3, <1>4, <1>5, <1>6, <1>7, <1>8, <1>9, <1>10, <1>11
     DEF Next, Step, Deliver, Reject

(* The counters of the metrics log add up: no header or payload being read *)
(* is ever thrown away by a reset.                                         *)
THEOREM CountersReconcile == Spec => []StatsReconcile
<1>1. Spec => [](IInv /\ StatsReconcile)
  BY InitInv, NextInv, ReconcileInit, ReconcileNext, PTL DEF Spec
<1> QED
  BY <1>1, PTL

-----------------------------------------------------------------------------

(* The operators of Frames mean the same in the instance FS.               *)
LEMMA SameFormat ==
  /\ \A w, i : FS!SyncAt(w, i) <=> SyncAt(w, i)
  /\ \A w, i : FS!HeaderAt(w, i) = HeaderAt(w, i)
  /\ \A w, n : FS!Drop(w, n) = Drop(w, n)
  /\ \A n : FS!ValidLen(n) <=> ValidLen(n)
BY DEF FS!SyncAt, SyncAt, FS!HeaderAt, HeaderAt, FS!Drop, Drop,
       FS!ValidLen, ValidLen

LEMMA FindSyncRefines ==
  ASSUME IInv, FindSync
  PROVE  FS!Skip \/ UNCHANGED FS!vars
<1>1. PICK i \in SyncOffsets : /\ \A j \in SyncOffsets : i <= j
                               /\ window' = Drop(window, i)
  BY DEF FindSync
<1>2. /\ i \in 0..(Len(window) - Len(SyncWord)) /\ Len(window) \in Nat
      /\ window \in Seq(Byte)
  BY Sizes DEF IInv, TypeOK, SyncOffsets, available
<1>3. UNCHANGED <<pc, out>> /\ state = "WaitSync" /\ state' = "ReadHeader"
  BY DEF FindSync, AtWaitSync
<1>4. CASE i = 0
  <2>1. window' = window
    BY <1>1, <1>2, <1>4 DEF Drop
  <2> QED
    BY <1>3, <2>1 DEF FS!vars
<1>5. CASE i > 0
  <2>1. ASSUME NEW j \in 0..(i - 1)
        PROVE  j + Len(SyncWord) <= Len(window) /\ ~SyncAt(window, j)
    <3>1. j \notin SyncOffsets
      BY <1>1, <1>2, Sizes DEF SyncOffsets, available
    <3>2. CASE j < syncScanOffset
      BY <1>2, <1>3, <3>2, Sizes DEF IInv, TypeOK, ScanSkipsNoSync
    <3>3. CASE j >= syncScanOffset
      BY <1>2, <3>1, <3>3, Sizes DEF IInv, TypeOK, SyncOffsets, available
    <3> QED
      BY <1>2, <3>2, <3>3 DEF IInv, TypeOK
  <2>2. \A j \in 0..(i - 1) : FS!NoFrameAt(window, j)
    BY <2>1, SameFormat DEF FS!NoFrameAt
  <2>3. i \in 1..Len(window)
    BY <1>2, <1>5, Sizes
  <2> QED
    BY <1>1, <1>3, <2>2, <2>3, SameFormat DEF FS!Skip
<1> QED
  BY <1>2, <1>4, <1>5

LEMMA GiveUpRefines ==
  ASSUME IInv, GiveUp
  PROVE  FS!GiveUp \/ UNCHANGED FS!vars
<1>1. /\ state = "WaitSync" /\ SyncOffsets = {} /\ out' = out
      /\ Len(window) \in Nat /\ syncScanOffset \in Nat
  BY DEF IInv, TypeOK, GiveUp, AtWaitSync
<1>2. CASE resetLocked /\ pc' = "idle"
  <2>1. ASSUME NEW i \in 0..Len(window)
        PROVE  ~SyncAt(window, i)
    <3>1. CASE i < syncScanOffset
      BY <1>1, <3>1 DEF IInv, ScanSkipsNoSync
    <3>2. CASE i >= syncScanOffset /\ i + Len(SyncWord) <= Len(window)
      BY <1>1, <3>2, Sizes DEF SyncOffsets, available
    <3>3. CASE ~(i + Len(SyncWord) <= Len(window))
      BY <3>3 DEF SyncAt
    <3> QED
      BY <1>1, <3>1, <3>2, <3>3
  <2> QED
    BY <1>1, <1>2, <2>1, SameFormat DEF FS!GiveUp, FS!NoSyncIn, resetLocked
<1>3. CASE SelfLock(1) /\ UNCHANGED <<window, state>>
  BY <1>1, <1>3 DEF FS!vars, SelfLock
<1> QED
  BY <1>2, <1>3 DEF GiveUp

LEMMA RejectHeaderRefines ==
  ASSUME IInv, RejectHeader
  PROVE  FS!Skip \/ UNCHANGED FS!vars
<1>1. /\ SyncAt(window, 0) /\ HeaderByteSize <= Len(window)
      /\ ~ValidLen(PktLen(HeaderAt(window, 0)))
      /\ state = "ReadHeader" /\ out' = out
      /\ Len(window) \in Nat
  BY DEF IInv, TypeOK, AlignedOnSync, RejectHeader, AtReadHeader, pktLen,
         available
<1>2. CASE /\ window' = Drop(window, 1) /\ state' = "WaitSync"
  <2>1. FS!NoFrameAt(window, 0)
    BY <1>1, Sizes, SameFormat DEF FS!NoFrameAt
  <2>2. 1 \in 1..Len(window) /\ \A i \in 0..(1 - 1) : FS!NoFrameAt(window, i)
    BY <1>1, <2>1, Sizes
  <2> QED
    BY <1>1, <1>2, <2>2, SameFormat DEF FS!Skip
<1>3. CASE SelfLock(1) /\ UNCHANGED <<window, state>>
  BY <1>1, <1>3 DEF FS!vars
<1> QED
  BY <1>2, <1>3 DEF RejectHeader

(* A completed frame is one the abstract stream may emit at this point.    *)
LEMMA CompleteFrameRefines ==
  ASSUME IInv, NEW frame, CompleteFrame(frame),
         pc' = "run" <=> Verdict(frame) = "ok",
         out' = IF Verdict(frame) = "ok" THEN Append(out, frame) ELSE out
  PROVE  FS!Emit
<1>1. /\ SyncAt(window, 0) /\ HeaderByteSize <= Len(window)
      /\ expectedPayloadLen = PktLen(HeaderAt(window, 0))
      /\ ValidLen(expectedPayloadLen)
  BY DEF IInv, AlignedOnSync, CompleteFrame, pktLen, available
<1> QED
  BY <1>1, SameFormat DEF FS!Emit, CompleteFrame, available

LEMMA FeedOverrunRefines ==
  ASSUME IInv, NEW c \in Chunks, FeedOverrun(c)
  PROVE  FS!Overrun \/ UNCHANGED FS!vars
<1>1. state = "FrameReady" /\ pc = "idle" /\ out' = out
  BY OverrunState DEF FeedOverrun
<1>2. CASE resetLocked
  BY <1>1, <1>2 DEF FS!Overrun, resetLocked
<1>3. CASE SelfLock(1) /\ UNCHANGED <<window, state>>
  BY <1>1, <1>3 DEF FS!vars, SelfLock
<1> QED
  BY <1>2, <1>3 DEF FeedOverrun

LEMMA InitRefines == Init => FS!Init
BY DEF Init, FS!Init

LEMMA NextRefines == IInv /\ [Next]_vars => [FS!Next]_(FS!vars)
<1> SUFFICES ASSUME IInv, [Next]_vars
             PROVE  FS!Next \/ UNCHANGED FS!vars
  OBVIOUS
<1>1. CASE FindSync
  BY <1>1, FindSyncRefines DEF FS!Next
<1>2. CASE GiveUp
  BY <1>2, GiveUpRefines DEF FS!Next
<1>3. CASE RejectHeader
  BY <1>3, RejectHeaderRefines DEF FS!Next
<1>4. CASE Deliver
  BY <1>4, CompleteFrameRefines DEF Deliver, CompleteFrame, FS!Next
<1>5. CASE Reject
  BY <1>5, CompleteFrameRefines DEF Reject, SelfLock, FS!Next
<1>6. CASE AwaitSync \/ ParseHeader \/ AwaitBytes \/ NextFrame
  BY <1>6 DEF AwaitSync, AtWaitSync, ParseHeader, AtReadHeader, AwaitBytes,
              NextFrame, FS!vars
<1>7. ASSUME NEW c \in Chunks, Feed(c)
      PROVE  FS!Receive
  BY <1>7 DEF Feed, FS!Receive
<1>8. ASSUME NEW c \in Chunks, FeedOverrun(c)
      PROVE  FS!Next \/ UNCHANGED FS!vars
  BY <1>8, FeedOverrunRefines DEF FS!Next
<1>9. CASE UNCHANGED vars
  BY <1>9 DEF vars, FS!vars
<1> QED
  BY <1>1, <1>2, <1>3, <1>4, <1>5, <1>6, <1>7, <1>8, <1>9
     DEF Next, Step, FS!Next

(* The sliding window implements the abstract stream of frames.            *)
THEOREM Refinement == Spec => ImplementsFrameStream
BY InitInv, NextInv, InitRefines, NextRefines, PTL
   DEF Spec, ImplementsFrameStream, FS!Spec

-----------------------------------------------------------------------------
(* How many passes a Feed can still make: four for each byte buffered, and *)
(* fewer the nearer the state is to the end of a frame.                    *)

StatesLeft == CASE state = "FrameReady"  -> 3
                [] state = "WaitSync"    -> 2
                [] state = "ReadHeader"  -> 1
                [] state = "ReadPayload" -> 0

PassesLeft == 4 * available + StatesLeft

(* A pass of the loop after which Feed has not returned. *)
LEMMA PassShortens ==
  ASSUME IInv, pc = "run", Next, pc' = "run"
  PROVE  PassesLeft' < PassesLeft
<1> USE DEF PassesLeft, StatesLeft
<1>1. window \in Seq(Byte) /\ available \in Nat /\ Len(window) = available
  BY DEF IInv, TypeOK, available
<1>2. CASE FindSync
  <2>1. PICK i \in SyncOffsets : window' = Drop(window, i)
    BY <1>2 DEF FindSync
  <2>2. i \in 0 .. Len(window)
    BY <1>1, Sizes DEF IInv, TypeOK, SyncOffsets
  <2>3. available' = available - i /\ i \in Nat
    BY <1>1, <2>1, <2>2, DropFacts DEF available
  <2>4. state = "WaitSync" /\ state' = "ReadHeader"
    BY <1>2 DEF FindSync, AtWaitSync
  <2> QED
    BY <1>1, <2>3, <2>4
<1>3. CASE ParseHeader
  <2>1. available' = available
    BY <1>3 DEF ParseHeader, available
  <2>2. state = "ReadHeader" /\ state' = "ReadPayload"
    BY <1>3 DEF ParseHeader, AtReadHeader
  <2> QED
    BY <1>1, <2>1, <2>2
<1>4. CASE RejectHeader
  <2>1. window' = Drop(window, 1) /\ state' = "WaitSync"
    BY <1>4 DEF RejectHeader, SelfLock
  <2>2. 1 \in 0 .. Len(window) /\ state = "ReadHeader"
    BY <1>1, <1>4, Sizes DEF RejectHeader, AtReadHeader
  <2>3. available' = available - 1
    BY <1>1, <2>1, <2>2, DropFacts DEF available
  <2> QED
    BY <1>1, <2>1, <2>2, <2>3
<1>5. CASE Deliver
  <2>1. /\ state = "ReadPayload" /\ state' = "FrameReady"
        /\ window' = Drop(window, expectedPayloadLen)
        /\ expectedPayloadLen <= available
    BY <1>5 DEF Deliver, CompleteFrame
  <2>2. expectedPayloadLen \in 1 .. Len(window)
    BY <1>1, <2>1, Sizes DEF IInv, TypeOK, AlignedOnSync, ValidLen
  <2>3. available' = available - expectedPayloadLen
    BY <1>1, <2>1, <2>2, DropFacts DEF available
  <2> QED
    BY <1>1, <2>1, <2>2, <2>3
<1>6. CASE NextFrame
  <2>1. available' = available
    BY <1>6 DEF NextFrame, available
  <2>2. state = "FrameReady" /\ state' = "WaitSync"
    BY <1>6 DEF NextFrame
  <2> QED
    BY <1>1, <2>1, <2>2
<1>7. ~AwaitSync /\ ~GiveUp /\ ~AwaitBytes /\ ~Reject
  BY DEF AwaitSync, GiveUp, AwaitBytes, Reject, SelfLock
<1>8. \A c \in Chunks : ~Feed(c) /\ ~FeedOverrun(c)
  BY DEF Feed, FeedOverrun
<1> QED
  BY <1>2, <1>3, <1>4, <1>5, <1>6, <1>7, <1>8 DEF Next, Step

(* runStateMachineLocked cannot loop for ever: whatever the bytes, each    *)
(* pass ends the Feed or lowers a number that is at most 4 * Capacity + 3. *)
(* (That the passes are made at all is the fairness of FairSpec.)          *)
THEOREM FeedIsBounded ==
  Spec => /\ [](PassesLeft \in 0 .. 4 * Capacity + 3)
          /\ [][pc = "run" => pc' # "run" \/ PassesLeft' < PassesLeft]_vars
<1>1. ASSUME IInv PROVE PassesLeft \in 0 .. 4 * Capacity + 3
  <2>1. /\ available \in Nat /\ available <= Capacity /\ Capacity \in Nat
        /\ StatesLeft \in 0 .. 3
    BY <1>1, Sizes DEF IInv, TypeOK, BufferBounded, writePos, available,
                       Capacity, StatesLeft
  <2> QED
    BY <2>1 DEF PassesLeft
<1>2. IInv /\ [Next]_vars =>
        [pc = "run" => pc' # "run" \/ PassesLeft' < PassesLeft]_vars
  BY PassShortens
<1> QED
  BY <1>1, <1>2, Invariance, PTL DEF Spec

-----------------------------------------------------------------------------
(* What handleValidFrame, which gives the verdict on a frame, and the      *)
(* decoder make of each other's lengths, for the constants of the code and *)
(* for every length.                                                       *)

D == INSTANCE Decoder WITH
       ByteBits <- 8, HeaderByteSize <- 20, BeamByteSize <- 10,
       MaxBeamCount <- 512, HeaderBits <- 256, BeamBits <- 64

(* The bytes that the decoder reads of a packet with so many beams. *)
PacketBytes(beams) == 32 + 8 * beams

(* A frame that handleValidFrame takes has the length it states, and holds *)
(* every beam it states: no beam handed on was read past its end.          *)
THEOREM TakenIsWhole ==
  ASSUME NEW len \in Nat, NEW statedLen \in Nat, NEW beams \in Nat,
         D!handleValidFrame(len, statedLen, beams) = "ok"
  PROVE  /\ statedLen = len
         /\ PacketBytes(beams) <= len
BY DEF D!handleValidFrame, D!Valid, D!Decodes, PacketBytes

(* A packet of exactly the bytes that the decoder reads is taken when it   *)
(* has no more than six beams, and refused as invalid when it has more:    *)
(* handleValidFrame wants 10 bytes for a beam that has 8.                  *)
THEOREM ExactLength ==
  ASSUME NEW beams \in 0 .. 512
  PROVE  LET len == PacketBytes(beams)
         IN D!handleValidFrame(len, len, beams) =
              IF beams <= 6 THEN "ok" ELSE "invalid"
<1>1. CASE beams <= 6
  BY <1>1 DEF D!handleValidFrame, D!Valid, D!Decodes, PacketBytes
<1>2. CASE beams > 6
  BY <1>2 DEF D!handleValidFrame, D!Valid, PacketBytes
<1> QED
  BY <1>1, <1>2

(* A frame that the assembler lets through, which is of 40 bytes at least, *)
(* and that handleValidFrame finds valid fails in the decoder only if it   *)
(* states two to five beams and is too short for them.                     *)
THEOREM UndecodableOnlyIf ==
  ASSUME NEW len \in Nat, NEW statedLen \in Nat, NEW beams \in Nat,
         len >= 40,
         D!handleValidFrame(len, statedLen, beams) = "undecodable"
  PROVE  beams \in 2 .. 5 /\ len < PacketBytes(beams)
<1>1. D!Valid(len, statedLen, beams) /\ ~D!Decodes(len, beams)
  BY DEF D!handleValidFrame
<1> QED
  BY <1>1 DEF D!Valid, D!Decodes, PacketBytes
=============================================================================
