-------------------------- MODULE INSReaderProofs --------------------------
(***************************************************************************)
(* Proofs about INSReader, for any datagrams, sizes and windows of time:   *)
(* the type invariant, with the bounds of p.buf; that no plausible frame   *)
(* waits in the buffer (NothingPlausibleLeft); that frames follow one      *)
(* another in the stream, also across an overrun (FramesFollow); that      *)
(* resynchronisation skips no good frame (NoFrameSkipped); and that the    *)
(* loop over a datagram ends (FeedIsBounded).                              *)
(***************************************************************************)
EXTENDS INSReader, SequenceTheorems, WellFoundedInduction, TLAPS

Byte == 0 .. 255

Received == [byte : Byte, at : Nat]

Control ==
  /\ now \in Now0 .. MaxNow
  /\ overruns \in Nat
  /\ pc \in {"test", "read", "process", "exited"}
  /\ running \in BOOLEAN
  /\ stop \in {"no", "close", "wait", "returned"}

Buffer ==
  /\ received \in 0 .. MaxBytes
  /\ buf \in Seq(Received)
  /\ Len(buf) <= Capacity
  /\ \A i \in 1 .. Len(buf) : buf[i].at \in 1 .. received
  /\ readPos \in 0 .. Len(buf)

LastFrame ==
  /\ latestTS \in Nat
  /\ latest \in Seq(Received) /\ Len(latest) \in {0, FrameSize}

Shape == Control /\ Buffer /\ LastFrame

(* The bytes in the buffer are in the order in which they came, without a  *)
(* gap until the first overrun.                                            *)
InOrder ==
  /\ \A i, j \in 1 .. Len(buf) : i < j => buf[i].at < buf[j].at
  /\ overruns = 0 =>
       \A i \in 1 .. Len(buf) : buf[i].at = received - Len(buf) + i

(* The last frame set the clock, and lies before everything unread. *)
Behindhand ==
  Len(latest) = FrameSize =>
    /\ latestTS > 0
    /\ latestTS = TimestampOf(Bytes(SubSeq(latest, 1, TSSize)))
    /\ latest[1].at <= latest[FrameSize].at
    /\ latest[FrameSize].at <= received
    /\ \A i \in 1 .. Len(buf) : i > readPos => latest[FrameSize].at < buf[i].at

IInv == Shape /\ InOrder /\ Behindhand /\ NothingPlausibleLeft

-----------------------------------------------------------------------------
(* What the operators do *)

LEMMA Sizes ==
  /\ FrameSize \in Nat /\ TSSize \in Nat /\ 1 <= TSSize /\ TSSize <= FrameSize
  /\ Capacity \in Nat /\ FrameSize <= Capacity \div 4
  /\ Capacity \div 4 \in Nat
  /\ MaxBytes \in Nat
  /\ Behind \in Nat /\ Ahead \in Nat /\ ValidRange \in Nat
  /\ Now0 \in Nat /\ MaxNow \in Nat /\ Now0 <= MaxNow
BY INSReaderAssumption

LEMMA Remainder ==
  ASSUME NEW n \in Nat, NEW m \in Nat, m >= 1
  PROVE  n % m \in Nat /\ n % m < m /\ n % m <= n
<1>1. n % m \in Int /\ 0 <= n % m /\ n % m < m
  OBVIOUS
<1>2. CASE n < m
  <2>1. n % m = n
    BY <1>2
  <2> QED
    BY <1>1, <2>1
<1>3. CASE n >= m
  BY <1>1, <1>3
<1> QED
  BY <1>1, <1>2, <1>3

(* A piece of a sequence, element by element. *)
LEMMA Piece ==
  ASSUME NEW P, NEW s \in Seq(P), NEW m \in Nat, NEW n \in Nat,
         m + n <= Len(s)
  PROVE  /\ SubSeq(s, m + 1, m + n) \in Seq(P)
         /\ Len(SubSeq(s, m + 1, m + n)) = n
         /\ \A i \in 1 .. n : SubSeq(s, m + 1, m + n)[i] = s[m + i]
<1> DEFINE t == SubSeq(s, m + 1, m + n)
<1>1. \A i \in m + 1 .. m + n : s[i] \in P
  BY ElementOfSeq
<1>2. /\ t \in Seq(P)
      /\ Len(t) = IF m + 1 <= m + n THEN (m + n) - (m + 1) + 1 ELSE 0
      /\ \A i \in 1 .. (m + n) - (m + 1) + 1 : t[i] = s[(m + 1) + i - 1]
  BY <1>1, SubSeqProperties
<1> HIDE DEF t
<1>3. Len(t) = n
  BY <1>2
<1>4. ASSUME NEW i \in 1 .. n PROVE t[i] = s[m + i]
  <2>1. i \in 1 .. (m + n) - (m + 1) + 1 /\ (m + 1) + i - 1 = m + i
    OBVIOUS
  <2> QED
    BY <1>2, <2>1
<1> QED
  BY <1>2, <1>3, <1>4 DEF t

LEMMA Joined ==
  ASSUME NEW P, NEW s \in Seq(P), NEW t \in Seq(P)
  PROVE  /\ s \o t \in Seq(P) /\ Len(s \o t) = Len(s) + Len(t)
         /\ \A i \in 1 .. Len(s) : (s \o t)[i] = s[i]
         /\ \A i \in 1 .. Len(t) : (s \o t)[Len(s) + i] = t[i]
<1> DEFINE u == s \o t  a == Len(s)  b == Len(t)
<1>1. a \in Nat /\ b \in Nat
  OBVIOUS
<1>2. /\ u \in Seq(P) /\ Len(u) = a + b
      /\ \A i \in 1 .. a + b : u[i] = IF i <= a THEN s[i] ELSE t[i - a]
  BY ConcatProperties
<1> HIDE DEF u, a, b
<1>3. ASSUME NEW i \in 1 .. a PROVE u[i] = s[i]
  BY <1>1, <1>2
<1>4. ASSUME NEW i \in 1 .. b PROVE u[a + i] = t[i]
  <2>1. a + i \in 1 .. a + b /\ ~(a + i <= a) /\ (a + i) - a = i
    BY <1>1
  <2> QED
    BY <1>2, <2>1
<1> QED
  BY <1>2, <1>3, <1>4 DEF u, a, b

(* The bytes of a datagram with their places. *)
LEMMA PlacedIs ==
  ASSUME received \in Nat, NEW d \in Datagram
  PROVE  /\ Len(d) \in Nat /\ Len(d) > 0
         /\ Placed(d) \in Seq(Received) /\ Len(Placed(d)) = Len(d)
         /\ \A i \in 1 .. Len(d) :
              Placed(d)[i] = [byte |-> d[i], at |-> received + i]
<1>1. d \in Seq(Byte) /\ Len(d) > 0 /\ Len(d) \in Nat
  BY INSReaderAssumption DEF Byte
<1>2. DOMAIN d = 1 .. Len(d) /\ \A i \in 1 .. Len(d) : d[i] \in Byte
  BY <1>1
<1>3. Placed(d) = [i \in 1 .. Len(d) |-> [byte |-> d[i], at |-> received + i]]
  BY <1>2 DEF Placed
<1>4. \A i \in 1 .. Len(d) : [byte |-> d[i], at |-> received + i] \in Received
  BY <1>2, <1>1 DEF Received
<1>5. Placed(d) \in [1 .. Len(d) -> Received]
  BY <1>3, <1>4
<1>6. Placed(d) \in Seq(Received)
  BY <1>1, <1>5, SeqDef
<1>7. Len(Placed(d)) = Len(d)
  BY <1>1, <1>5, <1>6
<1> QED
  BY <1>1, <1>3, <1>6, <1>7

(* A timestamp is a number. *)
LEMMA TimestampIs ==
  ASSUME NEW s \in Seq(Received), Len(s) = TSSize
  PROVE  TimestampOf(Bytes(s)) \in Nat
<1>1. DOMAIN s = 1 .. TSSize /\ \A i \in 1 .. TSSize : s[i] \in Received
  BY Sizes
<1>2. Bytes(s) \in [1 .. TSSize -> 0 .. 255]
  BY <1>1 DEF Bytes, Received, Byte
<1> QED
  BY <1>2, INSReaderAssumption

(* The first offset at which a frame may begin. *)
LEMMA FirstCandidate ==
  ASSUME Candidates # {}, available \in Int
  PROVE  LET o == CHOOSE o \in Candidates : \A p \in Candidates : o <= p
         IN o \in Candidates /\ \A p \in Candidates : o <= p
<1>1. Candidates \subseteq Nat
  BY Sizes DEF Candidates
<1> DEFINE R == OpToRel(<, Nat)  C == Candidates
<1>2. IsWellFoundedOn(R, Nat) /\ C \subseteq Nat /\ C # {}
  BY <1>1, NatLessThanWellFounded
<1>3. \A x, y \in Nat : y < x => <<y, x>> \in R
  BY DEF OpToRel
<1> HIDE DEF R, C
<1>4. \E x \in C : \A y \in C : ~(<<y, x>> \in R)
  BY <1>2, WFMin
<1>5. PICK x \in C : \A y \in C : ~(<<y, x>> \in R)
  BY <1>4
<1>6. ASSUME NEW y \in C PROVE x <= y
  <2>1. x \in Nat /\ y \in Nat /\ ~(y < x)
    BY <1>2, <1>3, <1>5
  <2> QED
    BY <2>1
<1> QED
  BY <1>6 DEF C

-----------------------------------------------------------------------------
(* What Feed does to the buffer *)

(* The read bytes that compactIfNeeded drops. *)
Dropped == IF MayCompact THEN readPos ELSE 0

LEMMA CompactedIs ==
  ASSUME Buffer
  PROVE  /\ Dropped \in 0 .. readPos /\ Len(buf) \in Nat
         /\ compacted \in Seq(Received)
         /\ Len(compacted) = Len(buf) - Dropped
         /\ \A i \in 1 .. Len(buf) - Dropped : compacted[i] = buf[Dropped + i]
<1>1. /\ buf \in Seq(Received) /\ Len(buf) \in Nat /\ readPos \in Nat
      /\ readPos <= Len(buf)
  BY DEF Buffer
<1>2. CASE ~MayCompact
  BY <1>1, <1>2 DEF compacted, Dropped
<1>3. CASE MayCompact
  <2> DEFINE n == Len(buf) - readPos
  <2>1. n \in Nat /\ readPos + n = Len(buf)
    BY <1>1
  <2>2. Dropped = readPos /\ compacted = SubSeq(buf, readPos + 1, readPos + n)
    BY <1>3, <2>1 DEF compacted, Dropped, writePos
  <2> HIDE DEF n
  <2>3. /\ compacted \in Seq(Received) /\ Len(compacted) = n
        /\ \A i \in 1 .. n : compacted[i] = buf[readPos + i]
    BY <1>1, <2>1, <2>2, Piece
  <2> QED
    BY <1>1, <2>2, <2>3 DEF n
<1> QED
  BY <1>2, <1>3

(* The datagram is behind what was unread, which stays. *)
LEMMA FeedIs ==
  ASSUME Buffer, NEW d \in Datagram, Feed(d)
  PROVE  \E k \in 0 .. readPos :
           /\ readPos' = readPos - k
           /\ buf' \in Seq(Received)
           /\ Len(buf') = Len(buf) - k + Len(d) /\ Len(buf') <= Capacity
           /\ \A i \in 1 .. Len(buf) - k : buf'[i] = buf[k + i]
           /\ \A i \in 1 .. Len(d) : buf'[Len(buf) - k + i].at = received + i
<1>1. /\ buf \in Seq(Received) /\ Len(buf) \in Nat /\ readPos \in Nat
      /\ readPos <= Len(buf) /\ received \in Nat
  BY DEF Buffer
<1> DEFINE p == Placed(d)
<1>2. /\ Len(d) \in Nat /\ Len(d) > 0 /\ p \in Seq(Received) /\ Len(p) = Len(d)
      /\ \A i \in 1 .. Len(d) : p[i].at = received + i
  <2>1. /\ Len(d) \in Nat /\ Len(d) > 0
        /\ p \in Seq(Received) /\ Len(p) = Len(d)
        /\ \A i \in 1 .. Len(d) : p[i] = [byte |-> d[i], at |-> received + i]
    BY <1>1, PlacedIs
  <2> HIDE DEF p
  <2>2. ASSUME NEW i \in 1 .. Len(d) PROVE p[i].at = received + i
    <3>1. p[i] = [byte |-> d[i], at |-> received + i]
      BY <2>1
    <3> QED
      BY <3>1
  <2> QED
    BY <2>1, <2>2
<1> HIDE DEF p
<1>3. CASE writePos + Len(d) > Capacity
  <2>1. /\ buf' = compacted \o p /\ readPos' = readPos - Dropped
        /\ Len(compacted) + Len(d) <= Capacity
    BY <1>1, <1>3 DEF Feed, Fits, Dropped, p
  <2>2. /\ Dropped \in 0 .. readPos /\ compacted \in Seq(Received)
        /\ Len(compacted) = Len(buf) - Dropped
        /\ \A i \in 1 .. Len(buf) - Dropped : compacted[i] = buf[Dropped + i]
    BY CompactedIs
  <2> DEFINE u == compacted \o p
  <2>0. /\ u \in Seq(Received) /\ Len(u) = Len(compacted) + Len(p)
        /\ \A i \in 1 .. Len(compacted) : u[i] = compacted[i]
        /\ \A i \in 1 .. Len(p) : u[Len(compacted) + i] = p[i]
    <3>1. compacted \in Seq(Received) /\ p \in Seq(Received)
      BY <1>2, <2>2
    <3> QED
      BY <3>1, Joined
  <2> HIDE DEF u
  <2>3. /\ buf' \in Seq(Received) /\ Len(buf') = Len(compacted) + Len(p)
        /\ \A i \in 1 .. Len(compacted) : buf'[i] = compacted[i]
        /\ \A i \in 1 .. Len(p) : buf'[Len(compacted) + i] = p[i]
    BY <2>0, <2>1 DEF u
  <2>4. \A i \in 1 .. Len(d) : buf'[Len(buf) - Dropped + i].at = received + i
    BY <1>2, <2>2, <2>3
  <2>5. \A i \in 1 .. Len(buf) - Dropped : buf'[i] = buf[Dropped + i]
    BY <2>2, <2>3
  <2>6. Len(buf') = Len(buf) - Dropped + Len(d) /\ Len(buf') <= Capacity
    BY <1>2, <2>1, <2>2, <2>3
  <2> QED
    BY <2>1, <2>2, <2>3, <2>4, <2>5, <2>6
<1>4. CASE ~(writePos + Len(d) > Capacity)
  <2>1. buf' = buf \o p /\ readPos' = readPos
    BY <1>4 DEF Feed, p
  <2> DEFINE u == buf \o p
  <2>0. /\ u \in Seq(Received) /\ Len(u) = Len(buf) + Len(p)
        /\ \A i \in 1 .. Len(buf) : u[i] = buf[i]
        /\ \A i \in 1 .. Len(p) : u[Len(buf) + i] = p[i]
    <3>1. buf \in Seq(Received) /\ p \in Seq(Received)
      BY <1>1, <1>2
    <3> QED
      BY <3>1, Joined
  <2> HIDE DEF u
  <2>2. /\ buf' \in Seq(Received) /\ Len(buf') = Len(buf) + Len(p)
        /\ \A i \in 1 .. Len(buf) : buf'[i] = buf[i]
        /\ \A i \in 1 .. Len(p) : buf'[Len(buf) + i] = p[i]
    BY <2>0, <2>1 DEF u
  <2>3. Len(buf') <= Capacity
    BY <1>1, <1>2, <1>4, <2>2, Sizes DEF writePos
  <2>4. \A i \in 1 .. Len(d) : buf'[Len(buf) - 0 + i].at = received + i
    BY <1>1, <1>2, <2>2
  <2>5. \A i \in 1 .. Len(buf) - 0 : buf'[i] = buf[0 + i]
    BY <1>1, <2>2
  <2>6. readPos' = readPos - 0 /\ Len(buf') = Len(buf) - 0 + Len(d)
    BY <1>1, <1>2, <2>1, <2>2
  <2>7. 0 \in 0 .. readPos
    BY <1>1
  <2> QED
    BY <2>2, <2>3, <2>4, <2>5, <2>6, <2>7
<1> QED
  BY <1>3, <1>4

(* An overrun leaves less than a frame, and only bytes that were unread:   *)
(* where the buffer is not compacted, a quarter of it, and so more than a  *)
(* frame, is unread.                                                       *)
LEMMA OverrunIs ==
  ASSUME Buffer, NEW d \in Datagram, FeedOverrun(d)
  PROVE  \E k \in readPos .. Len(buf) :
           /\ readPos' = 0
           /\ buf' \in Seq(Received)
           /\ Len(buf') = Len(buf) - k /\ Len(buf') < FrameSize
           /\ \A i \in 1 .. Len(buf) - k : buf'[i] = buf[k + i]
<1>1. /\ buf \in Seq(Received) /\ Len(buf) \in Nat /\ readPos \in Nat
      /\ readPos <= Len(buf)
  BY DEF Buffer
<1> DEFINE s == compacted  n == Len(s)  r == n % FrameSize
<1>2. /\ Dropped \in 0 .. readPos /\ s \in Seq(Received)
      /\ Len(s) = Len(buf) - Dropped /\ n \in Nat
      /\ \A i \in 1 .. Len(buf) - Dropped : s[i] = buf[Dropped + i]
  BY CompactedIs
<1>3. FrameSize \in Nat /\ FrameSize >= 1 /\ FrameSize <= Capacity \div 4
  BY Sizes
<1>4. r \in Nat /\ r < FrameSize /\ r <= n
  BY <1>2, <1>3, Remainder
<1>5. buf' = SubSeq(s, n - r + 1, n) /\ readPos' = 0
  BY DEF FeedOverrun, Kept
<1>6. n - r >= readPos - Dropped
  <2>1. CASE MayCompact
    BY <1>1, <1>4, <2>1 DEF Dropped
  <2>2. CASE ~MayCompact
    <3>1. Dropped = 0 /\ (readPos = 0 \/ Len(buf) - readPos >= Capacity \div 4)
      BY <1>1, <2>2, Sizes DEF Dropped, MayCompact, available, writePos
    <3> HIDE DEF r, s
    <3> QED
      BY <1>1, <1>2, <1>3, <1>4, <3>1, Sizes
  <2> QED
    BY <2>1, <2>2
<1> HIDE DEF s, n, r
<1> DEFINE m == n - r
<1>7. m \in Nat /\ m + r = n /\ m + r <= Len(s)
  BY <1>2, <1>4 DEF n
<1>8. buf' = SubSeq(s, m + 1, m + r)
  BY <1>5, <1>7
<1> HIDE DEF m
<1>9. /\ buf' \in Seq(Received) /\ Len(buf') = r
      /\ \A i \in 1 .. r : buf'[i] = s[m + i]
  BY <1>2, <1>4, <1>7, <1>8, Piece
<1> DEFINE k == Dropped + m
<1>10. k \in readPos .. Len(buf) /\ Len(buf) - k = r
  BY <1>1, <1>2, <1>4, <1>6, <1>7 DEF m, n
<1>11. ASSUME NEW i \in 1 .. r PROVE buf'[i] = buf[k + i]
  <2>1. m + i \in 1 .. Len(buf) - Dropped
    BY <1>1, <1>2, <1>4, <1>7 DEF n
  <2>2. s[m + i] = buf[Dropped + (m + i)] /\ Dropped + (m + i) = k + i
    BY <1>2, <1>7, <2>1
  <2> QED
    BY <1>9, <2>2
<1> HIDE DEF k
<1> QED
  BY <1>4, <1>5, <1>9, <1>10, <1>11

-----------------------------------------------------------------------------
(* The steps, by what they do to the buffer *)

(* Steps that only move the goroutine, Stop or the clock. *)
Aside == \/ TestRunning \/ ReadError \/ NoCandidate \/ FeedReturns
         \/ StopBegins \/ CloseSocket \/ StopReturns \/ Tick
         \/ UNCHANGED vars

LEMMA AsideKeeps ==
  ASSUME Aside
  PROVE  UNCHANGED <<received, buf, readPos, latestTS, latest, overruns>>
BY DEF Aside, TestRunning, ReadError, NoCandidate, FeedReturns, StopBegins,
       CloseSocket, StopReturns, Tick, vars

Skip == SkipToCandidate \/ RejectFrame

LEMMA StepKinds ==
  ASSUME [Next]_vars
  PROVE  \/ Aside \/ Skip \/ AcceptFrame
         \/ \E d \in Datagram : Feed(d) \/ FeedOverrun(d)
BY DEF Next, Step, Aside, Skip

(* Skipping stays inside the buffer. *)
LEMMA SkipIs ==
  ASSUME Buffer, Skip
  PROVE  /\ readPos' \in readPos + 1 .. Len(buf)
         /\ UNCHANGED <<received, now, buf, latestTS, latest, overruns, pc,
                        running, stop>>
         /\ pc = "process"
<1>1. /\ Len(buf) \in Nat /\ readPos \in Nat /\ available \in Int
      /\ available = Len(buf) - readPos
  BY DEF Buffer, available, writePos
<1>2. CASE SkipToCandidate
  <2> DEFINE o == CHOOSE o \in Candidates : \A p \in Candidates : o <= p
  <2>1. o \in Candidates
    BY <1>1, <1>2, FirstCandidate DEF SkipToCandidate
  <2>2. o \in 1 .. available - TSSize
    BY <2>1 DEF Candidates
  <2>3. readPos' = readPos + o
    BY <1>2 DEF SkipToCandidate
  <2> HIDE DEF o
  <2>4. readPos' \in readPos + 1 .. Len(buf)
    BY <1>1, <2>2, <2>3, Sizes
  <2> QED
    BY <1>2, <2>4 DEF SkipToCandidate, AtFrame
<1>3. CASE RejectFrame
  <2>1. available >= FrameSize /\ readPos' = readPos + 1
    BY <1>3 DEF RejectFrame, AtFrame
  <2>2. readPos' \in readPos + 1 .. Len(buf)
    BY <1>1, <2>1, Sizes
  <2> QED
    BY <1>3, <2>2 DEF RejectFrame, AtFrame
<1> QED
  BY <1>2, <1>3 DEF Skip

(* A frame that is accepted is the bytes next to be read. *)
LEMMA AcceptIs ==
  ASSUME Buffer, AcceptFrame
  PROVE  /\ latest' \in Seq(Received) /\ Len(latest') = FrameSize
         /\ \A i \in 1 .. FrameSize : latest'[i] = buf[readPos + i]
         /\ readPos' = readPos + FrameSize /\ readPos + FrameSize <= Len(buf)
         /\ latestTS' = TimestampOf(Bytes(SubSeq(latest', 1, TSSize)))
         /\ latestTS' \in Nat /\ ValidTS(latestTS')
         /\ UNCHANGED <<received, now, buf, overruns, pc, running, stop>>
         /\ pc = "process"
<1>1. /\ Len(buf) \in Nat /\ readPos \in Nat /\ buf \in Seq(Received)
      /\ available = Len(buf) - readPos
  BY DEF Buffer, available, writePos
<1>2. /\ FrameSize \in Nat /\ TSSize \in Nat /\ 1 <= TSSize
      /\ TSSize <= FrameSize
  BY Sizes
<1>3. available >= FrameSize /\ readPos' = readPos + FrameSize
  BY DEF AcceptFrame, AtFrame
<1>4. readPos + FrameSize <= Len(buf) /\ readPos + TSSize <= Len(buf)
  BY <1>1, <1>2, <1>3
<1>5. /\ readPos + 0 + 1 = readPos + 1
      /\ readPos + 0 + FrameSize = readPos + FrameSize
      /\ readPos + 0 + TSSize = readPos + TSSize
  BY <1>1, <1>2
<1>6. latest' = SubSeq(buf, readPos + 1, readPos + FrameSize)
  BY <1>5 DEF AcceptFrame, At
<1>7. /\ latest' \in Seq(Received) /\ Len(latest') = FrameSize
      /\ \A i \in 1 .. FrameSize : latest'[i] = buf[readPos + i]
  BY <1>1, <1>2, <1>4, <1>6, Piece
<1> DEFINE t == SubSeq(buf, readPos + 1, readPos + TSSize)
           u == SubSeq(latest', 0 + 1, 0 + TSSize)
<1>8. /\ t \in Seq(Received) /\ Len(t) = TSSize
      /\ \A i \in 1 .. TSSize : t[i] = buf[readPos + i]
  BY <1>1, <1>2, <1>4, Piece
<1>9. /\ u \in Seq(Received) /\ Len(u) = TSSize
      /\ \A i \in 1 .. TSSize : u[i] = latest'[0 + i]
  BY <1>2, <1>7, Piece
<1>10. u = SubSeq(latest', 1, TSSize)
  BY <1>2
<1>11. latestTS' = TimestampOf(Bytes(t)) /\ ValidTS(TimestampOf(Bytes(t)))
  BY <1>5 DEF AcceptFrame, GoodTS, TSAt, At
<1> HIDE DEF t, u
<1>12. \A i \in 1 .. TSSize : t[i] = u[i]
  BY <1>2, <1>7, <1>8, <1>9
<1>13. t = u
  BY <1>8, <1>9, <1>12, SeqEqual
<1>14. latestTS' \in Nat
  BY <1>8, <1>11, TimestampIs
<1> QED
  BY <1>3, <1>4, <1>7, <1>10, <1>11, <1>13, <1>14 DEF AcceptFrame, AtFrame

-----------------------------------------------------------------------------
(* The types *)

LEMMA ControlStep ==
  ASSUME Control, [Next]_vars
  PROVE  Control'
<1>0. running' \in BOOLEAN
  BY DEF Control, Next, Step, TestRunning, ReadError, NoCandidate, FeedReturns,
         SkipToCandidate, RejectFrame, AcceptFrame, Feed, FeedOverrun,
         StopBegins, CloseSocket, StopReturns, Tick, vars
<1>1. CASE TestRunning \/ ReadError \/ NoCandidate \/ FeedReturns
  BY <1>0, <1>1 DEF Control, TestRunning, ReadError, NoCandidate, FeedReturns
<1>2. CASE StopBegins \/ CloseSocket \/ StopReturns \/ UNCHANGED vars
  BY <1>0, <1>2 DEF Control, StopBegins, CloseSocket, StopReturns, vars
<1>3. CASE Tick
  <2>1. now' \in Now0 .. MaxNow
    BY <1>3, Sizes DEF Control, Tick
  <2> QED
    BY <1>0, <1>3, <2>1 DEF Control, Tick
<1>4. CASE SkipToCandidate \/ RejectFrame \/ AcceptFrame
  BY <1>0, <1>4 DEF Control, SkipToCandidate, RejectFrame, AcceptFrame
<1>5. CASE \E d \in Datagram : Feed(d)
  BY <1>0, <1>5 DEF Control, Feed
<1>6. CASE \E d \in Datagram : FeedOverrun(d)
  BY <1>0, <1>6 DEF Control, FeedOverrun
<1> QED
  BY <1>1, <1>2, <1>3, <1>4, <1>5, <1>6, StepKinds DEF Aside, Skip

LEMMA BufferStep ==
  ASSUME Buffer, [Next]_vars
  PROVE  Buffer'
<1>0. /\ buf \in Seq(Received) /\ Len(buf) \in Nat /\ readPos \in Nat
      /\ readPos <= Len(buf) /\ received \in Nat /\ Len(buf) <= Capacity
      /\ \A i \in 1 .. Len(buf) : buf[i].at \in 1 .. received
  BY DEF Buffer
<1>1. CASE Aside
  BY <1>1, AsideKeeps DEF Buffer
<1>2. CASE Skip
  <2>1. readPos' \in 0 .. Len(buf) /\ UNCHANGED <<received, buf>>
    BY <1>0, <1>2, SkipIs
  <2> QED
    BY <2>1 DEF Buffer
<1>3. CASE AcceptFrame
  <2>1. readPos' \in 0 .. Len(buf) /\ UNCHANGED <<received, buf>>
    BY <1>0, <1>3, AcceptIs, Sizes
  <2> QED
    BY <2>1 DEF Buffer
<1>4. ASSUME NEW d \in Datagram, Feed(d) PROVE Buffer'
  <2>1. PICK k \in 0 .. readPos :
          /\ readPos' = readPos - k
          /\ buf' \in Seq(Received)
          /\ Len(buf') = Len(buf) - k + Len(d) /\ Len(buf') <= Capacity
          /\ \A i \in 1 .. Len(buf) - k : buf'[i] = buf[k + i]
          /\ \A i \in 1 .. Len(d) : buf'[Len(buf) - k + i].at = received + i
    BY <1>4, FeedIs
  <2>2. Len(d) \in Nat /\ Len(d) > 0
    BY <1>0, PlacedIs
  <2>3. received' = received + Len(d) /\ received' \in 0 .. MaxBytes
    BY <1>0, <1>4, <2>2, Sizes DEF Feed, Receive
  <2>4. ASSUME NEW i \in 1 .. Len(buf') PROVE buf'[i].at \in 1 .. received'
    <3>1. CASE i <= Len(buf) - k
      <4>1. i \in 1 .. Len(buf) - k /\ k + i \in 1 .. Len(buf)
        BY <1>0, <2>1, <2>2, <3>1
      <4>2. buf[k + i].at \in 1 .. received
        BY <1>0, <4>1
      <4> QED
        BY <1>0, <2>1, <2>2, <2>3, <4>1, <4>2
    <3>2. CASE i > Len(buf) - k
      <4> DEFINE j == i - (Len(buf) - k)
      <4>1. j \in 1 .. Len(d) /\ Len(buf) - k + j = i
        BY <1>0, <2>1, <2>2, <3>2
      <4> HIDE DEF j
      <4>2. buf'[i].at = received + j
        BY <2>1, <4>1
      <4> QED
        BY <1>0, <2>2, <2>3, <4>1, <4>2
    <3> QED
      BY <1>0, <2>1, <2>2, <3>1, <3>2
  <2>5. readPos' \in 0 .. Len(buf')
    BY <1>0, <2>1, <2>2
  <2> QED
    BY <2>1, <2>3, <2>4, <2>5 DEF Buffer
<1>5. ASSUME NEW d \in Datagram, FeedOverrun(d) PROVE Buffer'
  <2>1. PICK k \in readPos .. Len(buf) :
          /\ readPos' = 0
          /\ buf' \in Seq(Received)
          /\ Len(buf') = Len(buf) - k /\ Len(buf') < FrameSize
          /\ \A i \in 1 .. Len(buf) - k : buf'[i] = buf[k + i]
    BY <1>5, OverrunIs
  <2>2. Len(d) \in Nat /\ Len(d) > 0
    BY <1>0, PlacedIs
  <2>3. received' = received + Len(d) /\ received' \in 0 .. MaxBytes
    BY <1>0, <1>5, <2>2, Sizes DEF FeedOverrun, Receive
  <2>4. ASSUME NEW i \in 1 .. Len(buf') PROVE buf'[i].at \in 1 .. received'
    <3>1. i \in 1 .. Len(buf) - k /\ k + i \in 1 .. Len(buf)
      BY <1>0, <2>1
    <3>2. buf[k + i].at \in 1 .. received
      BY <1>0, <3>1
    <3> QED
      BY <1>0, <2>1, <2>2, <2>3, <3>1, <3>2
  <2>5. readPos' \in 0 .. Len(buf') /\ Len(buf') <= Capacity
    BY <1>0, <2>1, Sizes
  <2> QED
    BY <2>1, <2>3, <2>4, <2>5 DEF Buffer
<1> QED
  BY <1>1, <1>2, <1>3, <1>4, <1>5, StepKinds

LEMMA LastFrameStep ==
  ASSUME Buffer, LastFrame, [Next]_vars
  PROVE  LastFrame'
<1>1. CASE Aside
  BY <1>1, AsideKeeps DEF LastFrame
<1>2. CASE Skip
  BY <1>2, SkipIs DEF LastFrame
<1>3. CASE AcceptFrame
  <2>1. latestTS' \in Nat /\ latest' \in Seq(Received) /\ Len(latest') = FrameSize
    BY <1>3, AcceptIs
  <2> QED
    BY <2>1 DEF LastFrame
<1>4. CASE \E d \in Datagram : Feed(d) \/ FeedOverrun(d)
  BY <1>4 DEF Feed, FeedOverrun, LastFrame
<1> QED
  BY <1>1, <1>2, <1>3, <1>4, StepKinds

-----------------------------------------------------------------------------
(* The order of the bytes *)

LEMMA InOrderStep ==
  ASSUME Buffer, Control, InOrder, [Next]_vars
  PROVE  InOrder'
<1>0. /\ Len(buf) \in Nat /\ readPos \in Nat /\ readPos <= Len(buf)
      /\ received \in Nat /\ overruns \in Nat
      /\ \A i \in 1 .. Len(buf) : buf[i].at \in 1 .. received
      /\ \A i, j \in 1 .. Len(buf) : i < j => buf[i].at < buf[j].at
      /\ overruns = 0 =>
           \A i \in 1 .. Len(buf) : buf[i].at = received - Len(buf) + i
  BY DEF Buffer, InOrder, Control
<1>1. CASE Aside
  BY <1>1, AsideKeeps DEF InOrder
<1>2. CASE Skip
  BY <1>2, SkipIs DEF InOrder
<1>3. CASE AcceptFrame
  BY <1>3, AcceptIs DEF InOrder
<1>4. ASSUME NEW d \in Datagram, Feed(d) PROVE InOrder'
  <2>1. PICK k \in 0 .. readPos :
          /\ readPos' = readPos - k
          /\ buf' \in Seq(Received)
          /\ Len(buf') = Len(buf) - k + Len(d) /\ Len(buf') <= Capacity
          /\ \A i \in 1 .. Len(buf) - k : buf'[i] = buf[k + i]
          /\ \A i \in 1 .. Len(d) : buf'[Len(buf) - k + i].at = received + i
    BY <1>4, FeedIs
  <2>2. Len(d) \in Nat /\ Len(d) > 0
    BY <1>0, PlacedIs
  <2>3. received' = received + Len(d) /\ overruns' = overruns
    BY <1>4 DEF Feed, Receive
  <2>4. ASSUME NEW i \in 1 .. Len(buf'), i <= Len(buf) - k
        PROVE  /\ k + i \in 1 .. Len(buf) /\ buf'[i].at = buf[k + i].at
               /\ buf'[i].at \in 1 .. received
    <3>1. i \in 1 .. Len(buf) - k /\ k + i \in 1 .. Len(buf)
      BY <1>0, <2>1, <2>2, <2>4
    <3>2. buf[k + i].at \in 1 .. received
      BY <1>0, <3>1
    <3> QED
      BY <2>1, <3>1, <3>2
  <2>5. ASSUME NEW i \in 1 .. Len(buf'), i > Len(buf) - k
        PROVE  buf'[i].at = received + (i - (Len(buf) - k))
    <3> DEFINE j == i - (Len(buf) - k)
    <3>1. j \in 1 .. Len(d) /\ Len(buf) - k + j = i
      BY <1>0, <2>1, <2>2, <2>5
    <3> HIDE DEF j
    <3>2. buf'[i].at = received + j
      BY <2>1, <3>1
    <3> QED
      BY <3>2 DEF j
  <2>6. ASSUME NEW i \in 1 .. Len(buf'), NEW j \in 1 .. Len(buf'), i < j
        PROVE  buf'[i].at < buf'[j].at
    <3>1. i \in Int /\ j \in Int /\ k \in Int
      BY <1>0, <2>1, <2>2
    <3>2. CASE j <= Len(buf) - k
      <4>1. i <= Len(buf) - k /\ k + i < k + j
        BY <1>0, <2>6, <3>1, <3>2
      <4>2. /\ k + i \in 1 .. Len(buf) /\ buf'[i].at = buf[k + i].at
            /\ k + j \in 1 .. Len(buf) /\ buf'[j].at = buf[k + j].at
        BY <2>4, <3>2, <4>1
      <4> QED
        BY <1>0, <4>1, <4>2
    <3>3. CASE j > Len(buf) - k /\ i <= Len(buf) - k
      <4>1. buf'[i].at \in 1 .. received
        BY <2>4, <3>3
      <4>2. buf'[j].at = received + (j - (Len(buf) - k))
        BY <2>5, <3>3
      <4> QED
        BY <1>0, <3>1, <3>3, <4>1, <4>2
    <3>4. CASE j > Len(buf) - k /\ i > Len(buf) - k
      <4>1. /\ buf'[i].at = received + (i - (Len(buf) - k))
            /\ buf'[j].at = received + (j - (Len(buf) - k))
        BY <2>5, <3>4
      <4> QED
        BY <1>0, <2>6, <3>1, <4>1
    <3> QED
      BY <1>0, <3>1, <3>2, <3>3, <3>4
  <2>7. ASSUME overruns' = 0, NEW i \in 1 .. Len(buf')
        PROVE  buf'[i].at = received' - Len(buf') + i
    <3>1. i \in Int /\ k \in Int
      BY <1>0, <2>1, <2>2
    <3>2. CASE i <= Len(buf) - k
      <4>1. k + i \in 1 .. Len(buf) /\ buf'[i].at = buf[k + i].at
        BY <2>4, <3>2
      <4>2. buf[k + i].at = received - Len(buf) + (k + i)
        BY <1>0, <2>3, <2>7, <4>1
      <4> QED
        BY <1>0, <2>1, <2>2, <2>3, <3>1, <4>1, <4>2
    <3>3. CASE i > Len(buf) - k
      <4>1. buf'[i].at = received + (i - (Len(buf) - k))
        BY <2>5, <3>3
      <4> QED
        BY <1>0, <2>1, <2>2, <2>3, <3>1, <4>1
    <3> QED
      BY <1>0, <3>1, <3>2, <3>3
  <2> QED
    BY <2>6, <2>7 DEF InOrder
<1>5. ASSUME NEW d \in Datagram, FeedOverrun(d) PROVE InOrder'
  <2>1. PICK k \in readPos .. Len(buf) :
          /\ readPos' = 0
          /\ buf' \in Seq(Received)
          /\ Len(buf') = Len(buf) - k /\ Len(buf') < FrameSize
          /\ \A i \in 1 .. Len(buf) - k : buf'[i] = buf[k + i]
    BY <1>5, OverrunIs
  <2>2. overruns' = overruns + 1
    BY <1>5 DEF FeedOverrun
  <2>3. ASSUME NEW i \in 1 .. Len(buf')
        PROVE  k + i \in 1 .. Len(buf) /\ buf'[i] = buf[k + i]
    BY <1>0, <2>1
  <2>4. ASSUME NEW i \in 1 .. Len(buf'), NEW j \in 1 .. Len(buf'), i < j
        PROVE  buf'[i].at < buf'[j].at
    <3>1. k + i < k + j
      BY <1>0, <2>1, <2>4
    <3>2. buf[k + i].at < buf[k + j].at
      BY <1>0, <2>3, <3>1
    <3> QED
      BY <2>3, <3>2
  <2>5. overruns' # 0
    BY <1>0, <2>2
  <2> QED
    BY <2>4, <2>5 DEF InOrder
<1> QED
  BY <1>1, <1>2, <1>3, <1>4, <1>5, StepKinds

-----------------------------------------------------------------------------
(* The last frame lies behind what is read next *)

LEMMA BehindhandStep ==
  ASSUME Shape, InOrder, Behindhand, [Next]_vars
  PROVE  Behindhand'
<1>0. /\ Len(buf) \in Nat /\ readPos \in Nat /\ readPos <= Len(buf)
      /\ received \in Nat /\ latest \in Seq(Received)
      /\ \A i \in 1 .. Len(buf) : buf[i].at \in 1 .. received
      /\ \A i, j \in 1 .. Len(buf) : i < j => buf[i].at < buf[j].at
      /\ FrameSize \in Nat /\ FrameSize >= 1
  BY Sizes DEF Shape, Buffer, InOrder, LastFrame
<1>1. CASE Aside
  <2>1. UNCHANGED <<received, buf, readPos, latestTS, latest, overruns>>
    BY <1>1, AsideKeeps
  <2> QED
    BY <2>1 DEF Behindhand
<1>2. CASE Skip
  <2>1. /\ readPos' \in readPos + 1 .. Len(buf)
        /\ UNCHANGED <<received, buf, latestTS, latest>>
    BY <1>2, SkipIs DEF Shape
  <2>2. \A i \in 1 .. Len(buf) : i > readPos' => i > readPos
    BY <1>0, <2>1
  <2> QED
    BY <2>1, <2>2 DEF Behindhand
<1>3. CASE AcceptFrame
  <2>1. /\ \A i \in 1 .. FrameSize : latest'[i] = buf[readPos + i]
        /\ readPos' = readPos + FrameSize /\ readPos + FrameSize <= Len(buf)
        /\ latestTS' = TimestampOf(Bytes(SubSeq(latest', 1, TSSize)))
        /\ latestTS' \in Nat /\ ValidTS(latestTS')
        /\ UNCHANGED <<received, buf>>
    BY <1>3, AcceptIs DEF Shape
  <2>2. latestTS' > 0
    <3>1. latestTS' # 0
      BY <2>1 DEF ValidTS
    <3> QED
      BY <2>1, <3>1
  <2>3. /\ readPos + 1 \in 1 .. Len(buf) /\ readPos + FrameSize \in 1 .. Len(buf)
        /\ latest'[1] = buf[readPos + 1]
        /\ latest'[FrameSize] = buf[readPos + FrameSize]
    BY <1>0, <2>1
  <2>4. /\ buf[readPos + 1].at \in 1 .. received
        /\ buf[readPos + FrameSize].at \in 1 .. received
    BY <1>0, <2>3
  <2>5. latest'[1].at <= latest'[FrameSize].at
    <3>1. CASE FrameSize = 1
      BY <2>3, <2>4, <3>1
    <3>2. CASE FrameSize > 1
      <4>1. readPos + 1 < readPos + FrameSize
        BY <1>0, <3>2
      <4>2. buf[readPos + 1].at < buf[readPos + FrameSize].at
        BY <1>0, <2>3, <4>1
      <4> QED
        BY <2>3, <2>4, <4>2
    <3> QED
      BY <1>0, <3>1, <3>2
  <2>6. latest'[FrameSize].at <= received'
    BY <1>0, <2>1, <2>3, <2>4
  <2>7. ASSUME NEW i \in 1 .. Len(buf'), i > readPos'
        PROVE  latest'[FrameSize].at < buf'[i].at
    <3>1. i \in 1 .. Len(buf) /\ readPos + FrameSize < i
      BY <1>0, <2>1, <2>7
    <3>2. buf[readPos + FrameSize].at < buf[i].at
      BY <1>0, <2>3, <3>1
    <3> QED
      BY <2>1, <2>3, <3>2
  <2> QED
    BY <2>1, <2>2, <2>5, <2>6, <2>7 DEF Behindhand
<1>4. ASSUME NEW d \in Datagram, Feed(d) PROVE Behindhand'
  <2> SUFFICES ASSUME Len(latest) = FrameSize
               PROVE  /\ latest[FrameSize].at <= received'
                      /\ \A i \in 1 .. Len(buf') :
                           i > readPos' => latest[FrameSize].at < buf'[i].at
    BY <1>4 DEF Feed, Behindhand
  <2>1. PICK k \in 0 .. readPos :
          /\ readPos' = readPos - k
          /\ buf' \in Seq(Received)
          /\ Len(buf') = Len(buf) - k + Len(d) /\ Len(buf') <= Capacity
          /\ \A i \in 1 .. Len(buf) - k : buf'[i] = buf[k + i]
          /\ \A i \in 1 .. Len(d) : buf'[Len(buf) - k + i].at = received + i
    BY <1>4, FeedIs DEF Shape
  <2>2. Len(d) \in Nat /\ Len(d) > 0
    BY <1>0, PlacedIs
  <2>3. received' = received + Len(d)
    BY <1>4 DEF Feed, Receive
  <2>4. latest[FrameSize] \in Received
    BY <1>0
  <2>5. /\ latest[FrameSize].at \in Nat /\ latest[FrameSize].at <= received
        /\ \A i \in 1 .. Len(buf) :
             i > readPos => latest[FrameSize].at < buf[i].at
    BY <2>4 DEF Behindhand, Received
  <2>6. ASSUME NEW i \in 1 .. Len(buf'), i > readPos'
        PROVE  latest[FrameSize].at < buf'[i].at
    <3>1. CASE i <= Len(buf) - k
      <4>1. /\ i \in 1 .. Len(buf) - k /\ k + i \in 1 .. Len(buf)
            /\ k + i > readPos
        BY <1>0, <2>1, <2>2, <2>6, <3>1
      <4> QED
        BY <2>1, <2>5, <4>1
    <3>2. CASE i > Len(buf) - k
      <4> DEFINE j == i - (Len(buf) - k)
      <4>1. j \in 1 .. Len(d) /\ Len(buf) - k + j = i
        BY <1>0, <2>1, <2>2, <3>2
      <4> HIDE DEF j
      <4>2. buf'[i].at = received + j
        BY <2>1, <4>1
      <4> QED
        BY <1>0, <2>2, <2>5, <4>1, <4>2
    <3> QED
      BY <1>0, <2>1, <2>2, <3>1, <3>2
  <2>7. latest[FrameSize].at <= received'
    BY <1>0, <2>2, <2>3, <2>5
  <2> QED
    BY <2>6, <2>7
<1>5. ASSUME NEW d \in Datagram, FeedOverrun(d) PROVE Behindhand'
  <2> SUFFICES ASSUME Len(latest) = FrameSize
               PROVE  /\ latest[FrameSize].at <= received'
                      /\ \A i \in 1 .. Len(buf') :
                           i > readPos' => latest[FrameSize].at < buf'[i].at
    BY <1>5 DEF FeedOverrun, Behindhand
  <2>1. PICK k \in readPos .. Len(buf) :
          /\ readPos' = 0
          /\ buf' \in Seq(Received)
          /\ Len(buf') = Len(buf) - k /\ Len(buf') < FrameSize
          /\ \A i \in 1 .. Len(buf) - k : buf'[i] = buf[k + i]
    BY <1>5, OverrunIs DEF Shape
  <2>2. Len(d) \in Nat /\ Len(d) > 0
    BY <1>0, PlacedIs
  <2>3. received' = received + Len(d)
    BY <1>5 DEF FeedOverrun, Receive
  <2>4. latest[FrameSize] \in Received
    BY <1>0
  <2>5. /\ latest[FrameSize].at \in Nat /\ latest[FrameSize].at <= received
        /\ \A i \in 1 .. Len(buf) :
             i > readPos => latest[FrameSize].at < buf[i].at
    BY <2>4 DEF Behindhand, Received
  <2>6. ASSUME NEW i \in 1 .. Len(buf') PROVE latest[FrameSize].at < buf'[i].at
    <3>1. /\ i \in 1 .. Len(buf) - k /\ k + i \in 1 .. Len(buf)
          /\ k + i > readPos
      BY <1>0, <2>1
    <3> QED
      BY <2>1, <2>5, <3>1
  <2>7. latest[FrameSize].at <= received'
    BY <1>0, <2>2, <2>3, <2>5
  <2> QED
    BY <2>6, <2>7
<1> QED
  BY <1>1, <1>2, <1>3, <1>4, <1>5, StepKinds

-----------------------------------------------------------------------------
(* What is left in the buffer *)

(* Once a frame has set the clock, the wall clock no longer matters. *)
LEMMA SameVerdict ==
  ASSUME UNCHANGED <<buf, readPos, latestTS>>, latestTS > 0, NEW offset
  PROVE  ValidTS(TSAt(offset))' <=> ValidTS(TSAt(offset))
BY DEF ValidTS, TSAt, At

LEMMA NothingLeftStep ==
  ASSUME Shape, NothingPlausibleLeft, [Next]_vars
  PROVE  NothingPlausibleLeft'
<1>0. /\ Len(buf) \in Nat /\ readPos \in Nat /\ available \in Int
      /\ available = Len(buf) - readPos
      /\ TSSize \in Nat /\ FrameSize \in Nat
  BY Sizes DEF Shape, Buffer, available, writePos
<1>1. CASE Aside
  <2>1. UNCHANGED <<buf, readPos, latestTS>> /\ available' = available
    BY <1>1, AsideKeeps DEF available, writePos
  <2> SUFFICES ASSUME pc' # "process", latestTS > 0, available >= FrameSize,
                      NEW offset \in 0 .. available - TSSize
               PROVE  ~ValidTS(TSAt(offset))
    BY <2>1, SameVerdict DEF NothingPlausibleLeft
  <2>2. CASE pc # "process"
    BY <2>2 DEF NothingPlausibleLeft
  <2>3. CASE NoCandidate
    <3>1. ~ValidTS(TSAt(0)) /\ Candidates = {}
      BY <2>3 DEF NoCandidate, GoodTS
    <3>2. CASE offset = 0
      BY <3>1, <3>2
    <3>3. CASE offset # 0
      <4>1. offset \in 1 .. available - TSSize
        BY <1>0, <3>3
      <4> QED
        BY <3>1, <4>1 DEF Candidates
    <3> QED
      BY <3>2, <3>3
  <2>4. CASE FeedReturns
    BY <1>0, <2>4 DEF FeedReturns
  <2>5. pc # "process" \/ NoCandidate \/ FeedReturns
    BY <1>1 DEF Aside, TestRunning, ReadError, StopBegins, CloseSocket,
                StopReturns, Tick, vars
  <2> QED
    BY <2>2, <2>3, <2>4, <2>5
<1>2. CASE Skip
  BY <1>2, SkipIs DEF Shape, NothingPlausibleLeft
<1>3. CASE AcceptFrame
  BY <1>3, AcceptIs DEF Shape, NothingPlausibleLeft
<1>4. CASE \E d \in Datagram : Feed(d)
  BY <1>4 DEF Feed, NothingPlausibleLeft
<1>5. ASSUME NEW d \in Datagram, FeedOverrun(d) PROVE NothingPlausibleLeft'
  <2>1. PICK k \in readPos .. Len(buf) :
          /\ readPos' = 0
          /\ Len(buf') = Len(buf) - k /\ Len(buf') < FrameSize
    BY <1>5, OverrunIs DEF Shape
  <2>2. ~(available' >= FrameSize)
    BY <1>0, <2>1 DEF available, writePos
  <2> QED
    BY <2>2 DEF NothingPlausibleLeft
<1> QED
  BY <1>1, <1>2, <1>3, <1>4, <1>5, StepKinds

-----------------------------------------------------------------------------
(* The theorems *)

(* Every state that Feed, the receiving goroutine and Stop can reach       *)
(* satisfies the inductive invariant.                                      *)
THEOREM Invariance == Spec => []IInv
<1>1. Init => IInv
  <2> SUFFICES ASSUME Init PROVE IInv
    OBVIOUS
  <2>1. /\ received = 0 /\ now = Now0 /\ buf = <<>> /\ readPos = 0
        /\ latestTS = 0 /\ latest = <<>> /\ overruns = 0 /\ pc = "test"
        /\ running = TRUE /\ stop = "no"
    BY DEF Init
  <2>2. Len(buf) = 0 /\ Len(latest) = 0
    BY <2>1
  <2>3. Buffer
    BY <2>1, <2>2, Sizes DEF Buffer
  <2>4. LastFrame
    BY <2>1, <2>2, Sizes DEF LastFrame
  <2>5. Control
    BY <2>1, Sizes DEF Control
  <2>6. InOrder /\ Behindhand /\ NothingPlausibleLeft
    BY <2>1, <2>2, Sizes DEF InOrder, Behindhand, NothingPlausibleLeft
  <2> QED
    BY <2>3, <2>4, <2>5, <2>6 DEF IInv, Shape
<1>2. IInv /\ [Next]_vars => IInv'
  <2> SUFFICES ASSUME IInv, [Next]_vars PROVE IInv'
    OBVIOUS
  <2>1. Shape'
    BY ControlStep, BufferStep, LastFrameStep DEF IInv, Shape
  <2>2. InOrder'
    BY InOrderStep DEF IInv, Shape
  <2>3. Behindhand' /\ NothingPlausibleLeft'
    BY BehindhandStep, NothingLeftStep DEF IInv
  <2> QED
    BY <2>1, <2>2, <2>3 DEF IInv
<1> QED
  BY <1>1, <1>2, PTL DEF Spec

(* The type invariant of the INS link: in particular p.buf is neither      *)
(* written nor read beyond its capacity, whatever datagrams come.          *)
THEOREM TypeCorrect == Spec => []TypeOK
<1>1. ASSUME IInv PROVE TypeOK
  <2>1. /\ running \in BOOLEAN /\ overruns \in Nat /\ now \in Now0 .. MaxNow
        /\ pc \in {"test", "read", "process", "exited"}
        /\ stop \in {"no", "close", "wait", "returned"}
    BY <1>1 DEF IInv, Shape, Control
  <2>2. DOMAIN buf = 1 .. Len(buf)
    BY <1>1 DEF IInv, Shape, Buffer
  <2>3. /\ received \in 0 .. MaxBytes /\ Len(buf) <= Capacity
        /\ \A i \in DOMAIN buf : buf[i].at \in 1 .. received
        /\ readPos \in 0 .. Len(buf)
    BY <1>1, <2>2 DEF IInv, Shape, Buffer
  <2>4. latestTS \in Nat /\ Len(latest) \in {0, FrameSize}
    BY <1>1 DEF IInv, Shape, LastFrame
  <2> QED
    BY <2>1, <2>3, <2>4 DEF TypeOK
<1> QED
  BY <1>1, Invariance, PTL

(* Between two datagrams no bytes wait that processLocked could have taken *)
(* for a frame, once a first frame has set the clock.                      *)
THEOREM NothingWaits == Spec => []NothingPlausibleLeft
<1>1. IInv => NothingPlausibleLeft
  BY DEF IInv
<1> QED
  BY <1>1, Invariance, PTL

(* The frames that onData gets follow one another in the stream and in     *)
(* time, through resynchronisation, compaction and overruns; until the     *)
(* first overrun each is made of bytes received one after the other.       *)
THEOREM FramesInOrder == Spec => FramesFollow
<1> DEFINE ts(f) == TimestampOf(Bytes(SubSeq(f, 1, TSSize)))
<1>1. ASSUME IInv, [Next]_vars, latest' # latest
      PROVE  /\ latest # <<>> =>
                  /\ latest[FrameSize].at < latest'[1].at
                  /\ ts(latest') - ts(latest) \in -Behind .. Ahead
             /\ overruns = 0 =>
                  latest'[FrameSize].at - latest'[1].at = FrameSize - 1
  <2>0. /\ Len(buf) \in Nat /\ readPos \in Nat /\ received \in Nat
        /\ latest \in Seq(Received) /\ Len(latest) \in {0, FrameSize}
        /\ FrameSize \in Nat /\ FrameSize >= 1 /\ latestTS \in Nat
    BY <1>1, Sizes DEF IInv, Shape, Buffer, LastFrame
  <2>1. AcceptFrame
    <3>1. ~Aside
      BY <1>1, AsideKeeps
    <3>2. ~Skip
      BY <1>1, SkipIs DEF IInv, Shape
    <3>3. ~(\E d \in Datagram : Feed(d) \/ FeedOverrun(d))
      BY <1>1 DEF Feed, FeedOverrun
    <3> QED
      BY <1>1, <3>1, <3>2, <3>3, StepKinds
  <2>2. /\ \A i \in 1 .. FrameSize : latest'[i] = buf[readPos + i]
        /\ readPos + FrameSize <= Len(buf)
        /\ latestTS' = ts(latest') /\ latestTS' \in Nat /\ ValidTS(latestTS')
    BY <1>1, <2>1, AcceptIs DEF IInv, Shape
  <2>3. /\ readPos + 1 \in 1 .. Len(buf) /\ readPos + 1 > readPos
        /\ readPos + FrameSize \in 1 .. Len(buf)
        /\ latest'[1] = buf[readPos + 1]
        /\ latest'[FrameSize] = buf[readPos + FrameSize]
    BY <2>0, <2>2
  <2> HIDE DEF ts
  <2>4. ASSUME latest # <<>>
        PROVE  /\ latest[FrameSize].at < latest'[1].at
               /\ ts(latest') - ts(latest) \in -Behind .. Ahead
    <3>1. Len(latest) = FrameSize
      BY <2>0, <2>4
    <3>2. /\ latestTS > 0 /\ latestTS = ts(latest)
          /\ \A i \in 1 .. Len(buf) :
               i > readPos => latest[FrameSize].at < buf[i].at
      BY <1>1, <3>1 DEF IInv, Behindhand, ts
    <3>3. latestTS' - latestTS \in -Behind .. Ahead
      BY <2>2, <3>2 DEF ValidTS
    <3> QED
      BY <2>2, <2>3, <3>2, <3>3
  <2>5. ASSUME overruns = 0
        PROVE  latest'[FrameSize].at - latest'[1].at = FrameSize - 1
    <3>1. /\ buf[readPos + 1].at = received - Len(buf) + (readPos + 1)
          /\ buf[readPos + FrameSize].at
               = received - Len(buf) + (readPos + FrameSize)
      BY <1>1, <2>3, <2>5 DEF IInv, InOrder
    <3> QED
      BY <2>0, <2>3, <3>1
  <2> QED
    BY <2>4, <2>5
<1>2. IInv /\ [Next]_vars =>
        [latest' # latest =>
           /\ latest # <<>> =>
                /\ latest[FrameSize].at < latest'[1].at
                /\ ts(latest') - ts(latest) \in -Behind .. Ahead
           /\ overruns = 0 =>
                latest'[FrameSize].at - latest'[1].at = FrameSize - 1]_vars
  BY <1>1
<1> QED
  BY <1>2, Invariance, PTL DEF Spec, FramesFollow

(* Where processLocked moves on without handing over a frame, no position  *)
(* that it passes is the start of a frame that it would have accepted.     *)
THEOREM SkipsNoFrame == Spec => NoFrameSkipped
<1>1. ASSUME IInv, [Next]_vars, pc = "process", latest' = latest,
             NEW offset \in 0 .. readPos' - readPos - 1
      PROVE  ~Acceptable(offset)
  <2>0. /\ Len(buf) \in Nat /\ readPos \in Nat /\ available \in Int
        /\ received \in Nat /\ latest \in Seq(Received)
        /\ FrameSize \in Nat /\ FrameSize >= 1 /\ TSSize \in Nat
        /\ Len(latest) \in {0, FrameSize}
    BY <1>1, Sizes DEF IInv, Shape, Buffer, LastFrame, available, writePos
  <2>1. CASE Aside
    <3>1. readPos' = readPos
      BY <2>1, AsideKeeps
    <3> QED
      BY <2>0, <3>1
  <2>2. CASE SkipToCandidate
    <3> DEFINE o == CHOOSE o \in Candidates : \A p \in Candidates : o <= p
    <3>1. o \in Candidates /\ \A p \in Candidates : o <= p
      BY <2>0, <2>2, FirstCandidate DEF SkipToCandidate
    <3>2. o \in 1 .. available - TSSize /\ readPos' = readPos + o
      BY <2>2, <3>1 DEF Candidates, SkipToCandidate
    <3> HIDE DEF o
    <3>3. CASE offset = 0
      BY <2>2, <3>3 DEF SkipToCandidate, GoodTS, Acceptable
    <3>4. CASE offset # 0
      <4>1. offset \in 1 .. available - TSSize /\ ~(o <= offset)
        BY <2>0, <3>2, <3>4
      <4>2. offset \notin Candidates
        BY <3>1, <4>1
      <4> QED
        BY <4>1, <4>2 DEF Candidates, Acceptable
    <3> QED
      BY <3>3, <3>4
  <2>3. CASE RejectFrame
    <3>1. offset = 0
      BY <2>0, <2>3 DEF RejectFrame
    <3> QED
      BY <2>3, <3>1 DEF RejectFrame, Acceptable
  <2>4. CASE AcceptFrame
    <3>1. /\ \A i \in 1 .. FrameSize : latest'[i] = buf[readPos + i]
          /\ Len(latest') = FrameSize /\ readPos + FrameSize <= Len(buf)
      BY <1>1, <2>4, AcceptIs DEF IInv, Shape
    <3>2. /\ readPos + 1 \in 1 .. Len(buf) /\ readPos + 1 > readPos
          /\ latest[1] = buf[readPos + 1] /\ Len(latest) = FrameSize
          /\ latest[1] \in Received /\ latest[FrameSize] \in Received
      BY <1>1, <2>0, <3>1
    <3>3. /\ latest[1].at <= latest[FrameSize].at
          /\ latest[FrameSize].at < latest[1].at
      BY <1>1, <3>2 DEF IInv, Behindhand
    <3>4. latest[1].at \in Nat /\ latest[FrameSize].at \in Nat
      BY <3>2 DEF Received
    <3> QED
      BY <3>3, <3>4
  <2>5. CASE \E d \in Datagram : Feed(d) \/ FeedOverrun(d)
    BY <1>1, <2>5 DEF Feed, FeedOverrun, Receive
  <2> QED
    BY <1>1, <2>1, <2>2, <2>3, <2>4, <2>5, StepKinds DEF Skip
<1>2. IInv /\ [Next]_vars =>
        [pc = "process" /\ latest' = latest =>
           \A offset \in 0 .. readPos' - readPos - 1 : ~Acceptable(offset)]_vars
  BY <1>1
<1> QED
  BY <1>2, Invariance, PTL DEF Spec, NoFrameSkipped

(* The loop of processLocked ends, whatever the datagrams and timestamps:  *)
(* every pass leaves the loop or takes at least one of the bytes that are  *)
(* left off the buffer; and what Stop and the clock do meanwhile adds      *)
(* none.  (That the passes are made at all is the fairness of FairSpec.)   *)
THEOREM FeedIsBounded ==
  Spec => [][pc = "process" =>
               /\ available \in Nat /\ available' \in Nat
               /\ available' <= available
               /\ Step => pc' # "process" \/ available' < available]_vars
<1>1. ASSUME IInv, Next, pc = "process"
      PROVE  /\ available \in Nat /\ available' \in Nat
             /\ available' <= available
             /\ Step => pc' # "process" \/ available' < available
  <2>1. /\ Buffer /\ Len(buf) \in Nat /\ readPos \in 0 .. Len(buf)
        /\ available = Len(buf) - readPos /\ available' = Len(buf') - readPos'
    BY <1>1 DEF IInv, Shape, Buffer, available, writePos
  <2>2. CASE Skip
    BY <2>1, <2>2, SkipIs
  <2>3. CASE AcceptFrame
    <3>1. /\ readPos' = readPos + FrameSize /\ readPos + FrameSize <= Len(buf)
          /\ buf' = buf
      BY <2>1, <2>3, AcceptIs
    <3>2. FrameSize \in Nat /\ FrameSize >= 1
      BY Sizes
    <3> QED
      BY <2>1, <3>1, <3>2
  <2>4. CASE Aside
    <3>1. UNCHANGED <<buf, readPos>>
      BY <2>4, AsideKeeps
    <3>2. Step => Skip \/ AcceptFrame \/ pc' # "process"
      BY <1>1 DEF Step, Skip, TestRunning, ReadError, NoCandidate, FeedReturns
    <3> QED
      BY <2>1, <2>2, <2>3, <3>1, <3>2
  <2>5. \A d \in Datagram : ~Feed(d) /\ ~FeedOverrun(d)
    BY <1>1 DEF Feed, FeedOverrun, Receive
  <2> QED
    BY <1>1, <2>2, <2>3, <2>4, <2>5, StepKinds
<1>2. IInv /\ [Next]_vars =>
        [pc = "process" =>
           /\ available \in Nat /\ available' \in Nat
           /\ available' <= available
           /\ Step => pc' # "process" \/ available' < available]_vars
  BY <1>1
<1> QED
  BY <1>2, Invariance, PTL DEF Spec
=============================================================================
