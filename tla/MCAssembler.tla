---------------------------- MODULE MCAssembler ----------------------------
(* A small instance of Assembler for TLC: a sync word of 2 bytes, headers  *)
(* of 3 bytes, frames of 3 or 4 bytes and a buffer of 16.  Bytes have four *)
(* bits; the first bit of a header's last byte is the number of beams, the *)
(* rest the length.  handleValidFrame takes a header for 3 bytes and a     *)
(* beam for 2, the decoder for 4 and 1: a frame of 3 bytes is undecodable, *)
(* one of 4 bytes with a beam (its byte is 12) is refused.                 *)
EXTENDS Assembler

D == INSTANCE Decoder WITH ByteBits <- 4, BeamByteSize <- 2,
       MaxBeamCount <- 1, HeaderBits <- 16, BeamBits <- 4

MCByte == {0, 3, 4, 7, 8, 12}

MCSyncWord == <<7, 8>>

MCPktLen(h) == D!ReadBits(h, 9, 3)

MCVerdict(f) == D!handleValidFrame(Len(f), MCPktLen(f), D!ReadBits(f, 8, 1))

(* Whole frames, frames split in the sync word or the header, frames that  *)
(* span chunks, sync words inside a payload, noise and an invalid length.  *)
MCChunks == {<<7, 8, 4, 0>>, <<7>>, <<8, 4>>, <<0, 0, 0>>, <<7, 8, 0>>,
             <<7, 8, 12, 8>>, <<7, 8, 3, 7>>, <<8, 3, 7, 8>>, <<3, 7, 8, 3>>}

(* What ReadBits should give: the bits of all bytes as one number, cut     *)
(* out of it at once.                                                      *)
BitsOfNumber(data, offset, n) ==
  LET value[i \in 0 .. Len(data)] ==
        IF i = 0 THEN 0 ELSE value[i - 1] * 16 + data[i]
  IN (value[Len(data)] \div 2^(4 * Len(data) - offset - n)) % 2^n

(* ReadBits and ReadInt agree with the reference for all data of two       *)
(* bytes, offsets and widths, and fail exactly when bits are missing.      *)
ASSUME ReaderIsRight ==
  \A data \in [1 .. 2 -> 0 .. 15], offset \in 0 .. 8, n \in 0 .. 8 :
    LET bits == D!ReadBits(data, offset, n)
        int == D!ReadInt(data, offset, n)
    IN IF offset + n > 8 THEN bits = -1 /\ ~int.ok
       ELSE /\ bits = BitsOfNumber(data, offset, n)
            /\ int.ok /\ (int.value - bits) % 2^n = 0
            /\ n > 0 => int.value \in -(2^(n - 1)) .. 2^(n - 1) - 1
=============================================================================
