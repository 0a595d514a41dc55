----------------------------- MODULE FrameStore -----------------------------
(***************************************************************************)
(* The frames kept in Redis (PublishFrame and GetFramesInRange of          *)
(* internal/redis/hub.go), as operators on a store value.                  *)
(*                                                                         *)
(* A frame is [ping, time, id]: its 16-bit ping counter, its timestamp,    *)
(* and what else it holds.  A filled frame has the counter and timestamp   *)
(* of the last frame of its snapshot.  Times are integers, HourLength of   *)
(* them to an hour.  The keys expire after 48 hours: here, never.          *)
(***************************************************************************)
EXTENDS Integers

CONSTANT HourLength

HourOf(time) == time \div HourLength

(* index: the sorted sets frames:<hour>, member and score; hash: the       *)
(* hashes frame:<ping>.                                                    *)
EmptyStore == [index |-> {}, hash |-> {}]

(* A member that is in the set already gets a new score. *)
ZAdd(s, f, hour) ==
  [s EXCEPT !.index =
     {e \in @ : ~(e.hour = hour /\ e.ping = f.ping)}
       \cup {[hour |-> hour, ping |-> f.ping, score |-> f.time]}]

HSet(s, f) == [s EXCEPT !.hash = {g \in @ : g.ping # f.ping} \cup {f}]

(* Defect: the last hour is left out. *)
HoursShort(start, end) == HourOf(start) .. HourOf(end) - 1

Hours(start, end) == HourOf(start) .. HourOf(end)

(* The counters come from the sets of these hours, the frames from the     *)
(* hashes of these counters.                                               *)
GetFramesInRange(s, start, end) ==
  LET hits == {e \in s.index : /\ e.hour \in Hours(start, end)
                               /\ e.score \in start .. end}
  IN {f \in s.hash : \E e \in hits : e.ping = f.ping}
=============================================================================
