----------------------------- MODULE QuietHours -----------------------------
(***************************************************************************)
(* The quiet-hours arithmetic of backend/internal/config/config.go.        *)
(* Clock times are ticks since local midnight, 0 .. Day - 1.  A window is  *)
(* the record of the three settings the code reads: enabled, start, end.   *)
(***************************************************************************)
EXTENDS Integers

CONSTANT Day        \* ticks in a day (the code's 24 * 60 minutes)

ASSUME DayAssumption == Day \in Nat \ {0}

ClockTime == 0 .. Day - 1

Window == [enabled : BOOLEAN, start : ClockTime, end : ClockTime]

\* The window is half-open; start = end disables it; start > end wraps midnight.
InQuietHours(w, t) ==
  /\ w.enabled
  /\ w.start # w.end
  /\ \/ w.start < w.end /\ w.start <= t /\ t < w.end
     \/ w.start > w.end /\ (w.start <= t \/ t < w.end)

\* How long after clock time t the first moment outside the window comes: the
\* window's end today, or tomorrow's when today's is not after t.
NextActiveDelay(w, t) ==
  IF ~InQuietHours(w, t) THEN 0
  ELSE IF w.end > t THEN w.end - t
  ELSE w.end + Day - t
=============================================================================
