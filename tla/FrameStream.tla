---------------------------- MODULE FrameStream ----------------------------
(***************************************************************************)
(* What the framing layer (internal/framing) promises, with no buffer: the *)
(* bytes received and not yet accounted for form one unbounded sequence,   *)
(* `pending', and each byte of it leaves in one of four ways.  It is part  *)
(* of a complete frame; it cannot begin a frame; the receiver gives up on  *)
(* a stretch that holds no sync word; or the receiver, still holding what  *)
(* followed a rejected frame, is overrun.                                  *)
(***************************************************************************)
EXTENDS Frames

VARIABLES
  pending,         \* bytes received and neither delivered, skipped nor lost
  stalled,         \* the last frame was rejected and nothing has arrived since
  out              \* the frames delivered as pings, oldest first

vars == <<pending, stalled, out>>

(* Enough of w is there to tell that no frame begins at offset i. *)
NoFrameAt(w, i) ==
  /\ i + Len(SyncWord) <= Len(w)
  /\ SyncAt(w, i) => /\ i + HeaderByteSize <= Len(w)
                     /\ ~ValidLen(PktLen(HeaderAt(w, i)))

(* No offset of w holds a whole sync word. *)
NoSyncIn(w) == \A i \in 0..Len(w) : ~SyncAt(w, i)

-----------------------------------------------------------------------------

Init ==
  /\ pending = <<>>
  /\ stalled = FALSE
  /\ out = <<>>

Receive ==
  /\ \E c \in Chunks : pending' = pending \o c
  /\ stalled' = FALSE
  /\ out' = out

Skip ==
  /\ \E n \in 1..Len(pending) :
       /\ \A i \in 0..n-1 : NoFrameAt(pending, i)
       /\ pending' = Drop(pending, n)
  /\ UNCHANGED <<stalled, out>>

Emit ==
  /\ SyncAt(pending, 0)
  /\ HeaderByteSize <= Len(pending)
  /\ LET n == PktLen(HeaderAt(pending, 0))
         frame == SubSeq(pending, 1, n)
     IN /\ ValidLen(n)
        /\ n <= Len(pending)
        /\ pending' = Drop(pending, n)
        /\ stalled' = (Verdict(frame) # "ok")
        /\ out' = IF Verdict(frame) = "ok" THEN Append(out, frame) ELSE out

GiveUp ==
  /\ NoSyncIn(pending)
  /\ pending' = <<>>
  /\ UNCHANGED <<stalled, out>>

Overrun ==
  /\ stalled
  /\ pending' = <<>>
  /\ stalled' = FALSE
  /\ out' = out

Next == Receive \/ Skip \/ Emit \/ GiveUp \/ Overrun

Spec == Init /\ [][Next]_vars
=============================================================================
