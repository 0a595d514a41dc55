------------------------------- MODULE Frames -------------------------------
(***************************************************************************)
(* The wire format of the sonar stream, as internal/framing reads it: a    *)
(* frame starts with the sync word, and its header carries the length of   *)
(* the whole frame.  Shared by FrameStream (what the framing layer         *)
(* promises) and Assembler (what it does).                                 *)
(***************************************************************************)
EXTENDS Integers, Sequences

CONSTANTS
  Byte,            \* the byte values the model tells apart
  SyncWord,        \* the bytes every frame begins with
  HeaderByteSize,  \* bytes of a frame header, sync word included
  MinFrameSize,    \* least value of the header's length field
  MaxFrameSize,    \* greatest value of the header's length field
  PktLen(_),       \* the length field of a header
  Verdict(_),      \* what the frame handler says of a complete frame:
                   \*   "ok", "invalid" (rejected before decoding) or
                   \*   "undecodable" (rejected by the decoder)
  Chunks           \* the byte sequences one socket read may return

FrameAssumption ==
  /\ SyncWord \in Seq(Byte) /\ SyncWord # <<>>
  /\ HeaderByteSize \in Nat /\ MinFrameSize \in Nat /\ MaxFrameSize \in Nat
  /\ Len(SyncWord) < HeaderByteSize
  /\ HeaderByteSize <= MinFrameSize
  /\ MinFrameSize <= MaxFrameSize
  /\ \A c \in Chunks : c \in Seq(Byte) /\ Len(c) \in 1..MaxFrameSize

(* The sync word stands at offset i of the byte sequence w. *)
SyncAt(w, i) ==
  /\ i + Len(SyncWord) <= Len(w)
  /\ \A k \in 1..Len(SyncWord) : w[i + k] = SyncWord[k]

HeaderAt(w, i) == SubSeq(w, i + 1, i + HeaderByteSize)

(* MinFrameSize and MaxFrameSize are the minSize and maxSize of the code.  *)
ValidLen(n) == n \in MinFrameSize..MaxFrameSize

Drop(w, n) == SubSeq(w, n + 1, Len(w))
=============================================================================
