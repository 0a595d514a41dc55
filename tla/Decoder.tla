------------------------------ MODULE Decoder ------------------------------
(***************************************************************************)
(* The decoder of sonar packets (internal/uper/decoder.go), and            *)
(* handleValidFrame (internal/framing/safe_processor.go), which tests a    *)
(* frame before it is decoded, as operators.  What a packet holds matters  *)
(* only as far as it decides whether the frame is taken: its length and    *)
(* its number of beams.  The sync word is there, the assembler found it.   *)
(*                                                                         *)
(* The two were written for different packets: the code's constants are    *)
(* in brackets.                                                            *)
(***************************************************************************)
EXTENDS Integers, Sequences

CONSTANTS
  ByteBits,        \* bits in a byte [8]
  HeaderByteSize,  \* header of a packet, for handleValidFrame [20]
  BeamByteSize,    \* a beam, for handleValidFrame [10]
  MaxBeamCount,    \* [512]
  HeaderBits,      \* header of a packet, for Decode
                   \* [32 + 16 + 16 + 64 + 16 + 16 + 16 + 16 + 32 + 16 + 16]
  BeamBits         \* a beam, for decodeBeam [16 + 16 + 8 + 8 + 8 + 8]

(* Of data[byte], the bits from bit on, at most n of them: how many, and   *)
(* their value.                                                            *)
BitsOfByte(data, offset, n) ==
  LET left == ByteBits - (offset % ByteBits)
      take == IF n > left THEN left ELSE n
  IN [take |-> take,
      value |-> (data[offset \div ByteBits + 1] \div 2^(left - take)) % 2^take]

(* ReadBits, when r.offset is offset: byte by byte, the first bit the      *)
(* highest.  -1 stands for the error.                                      *)
ReadBits(data, offset, n) ==
  LET read[at \in Nat, remaining \in Nat, result \in Nat] ==
        IF remaining = 0 THEN result
        ELSE LET b == BitsOfByte(data, at, remaining)
             IN read[at + b.take, remaining - b.take,
                     result * 2^b.take + b.value]
  IN IF offset + n > Len(data) * ByteBits THEN -1 ELSE read[offset, n, 0]

(* ReadInt: the sign is extended; the error stays apart from every value.  *)
ReadInt(data, offset, n) ==
  LET value == ReadBits(data, offset, n)
  IN IF value = -1 THEN [ok |-> FALSE, value |-> 0]
     ELSE [ok |-> TRUE,
           value |-> IF n > 0 /\ value >= 2^(n - 1) THEN value - 2^n ELSE value]

(* A read succeeds if its bits are there and moves on by as many, so all   *)
(* reads of Decode and of decodeBeam succeed if the last one does.         *)
Decodes(len, beams) ==
  beams <= MaxBeamCount /\ len * ByteBits >= HeaderBits + beams * BeamBits

(* The tests of handleValidFrame before it calls the decoder. *)
Valid(len, statedLen, beams) ==
  /\ len >= HeaderByteSize
  /\ statedLen = len
  /\ beams <= MaxBeamCount
  /\ len >= HeaderByteSize + beams * BeamByteSize
  /\ len <= HeaderByteSize + MaxBeamCount * BeamByteSize

handleValidFrame(len, statedLen, beams) ==
  IF ~Valid(len, statedLen, beams) THEN "invalid"
  ELSE IF Decodes(len, beams) THEN "ok" ELSE "undecodable"
=============================================================================
