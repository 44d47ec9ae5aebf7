----------------------------- MODULE WalkForward -----------------------------
(***************************************************************************)
(* The windows a walk-forward run tests: an in-sample part, right after it *)
(* an out-of-sample part, then both moved on by a step, in days or in      *)
(* calendar months. Times are days since the first of January of year 1    *)
(* at midnight; knobs are [days, months: each None or [in, oos, step], oos *)
(* and step None where they are left to their default].                    *)
(***************************************************************************)
EXTENDS Integers, Maybe

CONSTANT Runs   \* the walk-forward runs asked for: [knobs, start, end]

\* The in-sample length is validated. Nothing keeps the other two from being
\* negative, which no caller asks for.
Parts == [in : Nat \ {0}, oos : Nat \cup {None}, step : Nat \cup {None}]
ASSUME RunsAssumption ==
    Runs \subseteq [knobs : [days : Parts \cup {None}, months : Parts \cup {None}], start : Nat, end : Nat]

-----------------------------------------------------------------------------
\* Calendar of datetime; month 0 is January of year 1, year 0 is year 1
Leap(year) == (year + 1) % 4 = 0 /\ ((year + 1) % 100 = 0 => (year + 1) % 400 = 0)
MonthLength[m \in Int] ==
    IF m % 12 = 1 THEN (IF Leap(m \div 12) THEN 29 ELSE 28)
    ELSE IF m % 12 \in {3, 5, 8, 10} THEN 30 ELSE 31
YearStart(year) == 365 * year + year \div 4 - year \div 100 + year \div 400
MonthStart[m \in Int] ==
    YearStart(m \div 12) + <<0, 31, 59, 90, 120, 151, 181, 212, 243, 273, 304, 334>>[(m % 12) + 1]
        + (IF Leap(m \div 12) /\ m % 12 > 1 THEN 1 ELSE 0)
MonthOf[t \in Nat] ==
    CHOOSE m \in 12 * (t \div 366) .. 12 * (t \div 365) + 11 : MonthStart[m] <= t /\ t < MonthStart[m + 1]
DayOf[t \in Nat] == t - MonthStart[MonthOf[t]] + 1

\* Mutant: a day the month does not have runs over into the next one.
AddMonthsOver(t, n) == MonthStart[MonthOf[t] + n] + DayOf[t] - 1
AddMonths(t, n) ==
    LET m == MonthOf[t] + n
    IN  MonthStart[m] + (IF DayOf[t] <= MonthLength[m] THEN DayOf[t] ELSE MonthLength[m]) - 1

-----------------------------------------------------------------------------
Or(x, default) == IF x \in {None, 0} THEN default ELSE x
\* A quarter of the in-sample length where nothing is said, and at least one
Knobs(k) == [in   |-> k.in,
             oos  |-> Or(Or(k.oos, k.in \div 4), 1),
             step |-> Or(Or(k.step, k.in \div 4), 1)]
DefaultMonths == [in |-> 12, oos |-> 3, step |-> 3]

InDays(knobs) == knobs.days # None
Lengths(knobs) ==
    IF InDays(knobs) THEN Knobs(knobs.days)
    ELSE IF knobs.months # None THEN Knobs(knobs.months) ELSE DefaultMonths
Later(knobs, t, n) == IF InDays(knobs) THEN t + n ELSE AddMonths(t, n)

WindowFrom(knobs, t) ==
    LET oos == Later(knobs, t, Lengths(knobs).in)
    IN  [from |-> t, oos |-> oos, to |-> Later(knobs, oos, Lengths(knobs).oos)]

Fits(w, end) == w.from < end /\ w.oos < end /\ w.to <= end

-----------------------------------------------------------------------------
VARIABLES
    run,      \* the run asked for
    inStart,  \* where the next window starts
    window,   \* the window tested last
    previous, \* history: the one tested before it
    ended
walkVars == <<run, inStart, window, previous, ended>>

\* A range that ends before it starts is refused
WalkInit ==
    /\ run \in {r \in Runs : r.start < r.end} /\ inStart = run.start
    /\ window = None /\ previous = None /\ ended = FALSE

NextWindow == WindowFrom(run.knobs, inStart)

\* One round of the loop: both parts are backtested and the start moves on
TestWindow ==
    /\ ~ ended /\ Fits(NextWindow, run.end)
    /\ window' = NextWindow /\ previous' = window
    /\ inStart' = Later(run.knobs, inStart, Lengths(run.knobs).step)
    /\ UNCHANGED <<run, ended>>

\* The first window that does not fit ends the loop
LeaveLoop == ~ ended /\ ~ Fits(NextWindow, run.end) /\ ended' = TRUE /\ UNCHANGED <<run, inStart, window, previous>>

WalkNext == TestWindow \/ LeaveLoop
WalkSpec == WalkInit /\ [][WalkNext]_walkVars

-----------------------------------------------------------------------------
\* However the dates are clamped, the windows move on, each stays in the range
\* and in its month, and none tests a day it was fitted on.
MovesOn ==
    /\ window # None =>
        /\ run.start <= window.from /\ window.from < window.oos
        /\ window.oos < window.to /\ window.to <= run.end
        /\ ~ InDays(run.knobs) =>
            MonthOf[window.to] = MonthOf[window.from] + Lengths(run.knobs).in + Lengths(run.knobs).oos
    /\ previous # None => window.from > previous.from

\* Where the step is as long as the part tested, the parts tested follow each
\* other without a gap and without testing a day twice, up to the end: as long
\* as no date falls on a day some month does not have.
Tiles ==
    window # None =>
    (Lengths(run.knobs).step = Lengths(run.knobs).oos /\ (InDays(run.knobs) \/ DayOf[run.start] <= 28) =>
        /\ previous # None => window.oos = previous.to
        /\ ended => Later(run.knobs, window.to, Lengths(run.knobs).oos) > run.end)

(* The windows of a walk-forward run cover its range as they should         *)
(* (WalkForwardEngine.run, _add_months).                                    *)
WindowsAreSound == MovesOn /\ Tiles
=============================================================================
