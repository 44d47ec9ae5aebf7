---------------------------- MODULE TradingWindow ----------------------------
(***************************************************************************)
(* The wall-clock rules for new entries and for the weekend                *)
(* (trading_hours.py). Times are minutes; a timestamp counts from Monday   *)
(* 00:00 on the broker's clock. None stands for a value that cannot be     *)
(* parsed or resolved.                                                     *)
(***************************************************************************)
EXTENDS Integers, Maybe

Minute(t) == t % 1440
Weekday(t) == (t \div 1440) % 7
Friday == 4
Saturday == 5
Sunday == 6

\* Settings: enabled, start, end, cutoff (minutes or None), tz (minutes east of
\* UTC, or None for an unknown zone name), flat
FromSettings(s) ==
    [enabled |-> s.enabled /\ s.start # None /\ s.end # None,
     start |-> IF s.start = None THEN 0 ELSE s.start,
     end |-> IF s.end = None THEN 0 ELSE s.end,
     tz |-> s.tz, flat |-> s.flat,
     cutoff |-> IF s.cutoff = None THEN 1255 ELSE s.cutoff]

\* The broker's clock runs offset minutes ahead of UTC.
LocalTime(w, ts, offset) ==
    IF w.tz = None THEN None ELSE ts - offset + w.tz

\* Fail-open: an unknown zone lets every entry through.
Allows(w, ts, offset) ==
    \/ ~w.enabled
    \/ LocalTime(w, ts, offset) = None
    \/ LET now == Minute(LocalTime(w, ts, offset))
       IN  IF w.start <= w.end THEN w.start <= now /\ now < w.end
           ELSE w.start <= now \/ now < w.end

ShouldFlattenForWeekend(w, ts, offset) ==
    /\ w.flat
    /\ LET utc == ts - offset
       IN  \/ Weekday(utc) = Saturday
           \/ Weekday(utc) = Sunday /\ Minute(utc) < w.cutoff
           \/ Weekday(utc) = Friday /\ Minute(utc) >= w.cutoff

=============================================================================
