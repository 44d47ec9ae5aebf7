----------------------------- MODULE RiskManager -----------------------------
(***************************************************************************)
(* The pre-trade gate of execution/risk.py as the execution engine drives  *)
(* it: approve and record_trade run inside the synchronous                 *)
(* ExecutionPipeline.process on the decision's timestamp, which is the     *)
(* broker's bar clock; record_pnl and roll run on the wall clock. The      *)
(* running totals are saved under a Redis key that lives 15 seconds and    *)
(* loaded once at start. Time is counted in ticks much longer than that.   *)
(***************************************************************************)
EXTENDS Integers, FiniteSets

CONSTANTS DayLen,      \* ticks in a UTC day
          WeekDays,    \* days in a week
          Offset,      \* ticks the broker's bar clock is ahead of UTC
          Pnls,        \* results a closed position can have
          Equities,    \* equities the broker can report
          DailyPct,    \* risk_max_daily, in percent
          WeeklyPct,   \* risk_max_weekly, in percent
          MaxOpen,     \* risk_max_open_positions
          MaxTrades,   \* risk_max_trades_per_session
          MaxNow,      \* bound: last tick
          MaxEntries,  \* bound: positions ever opened
          MaxCrashes   \* bound: process deaths

ASSUME RiskAssumption ==
    /\ DayLen \in Nat \ {0}
    /\ WeekDays \in Nat \ {0}
    /\ Offset \in Nat
    /\ Pnls \subseteq Int
    /\ Equities \subseteq Int
    /\ DailyPct \in Nat \ {0}
    /\ WeeklyPct \in Nat \ {0}
    /\ MaxOpen \in Nat
    /\ MaxTrades \in Nat
    /\ MaxNow \in Nat
    /\ MaxEntries \in Nat
    /\ MaxCrashes \in Nat

Sides == {"long", "short"}
NoKey == 0         \* day_key = "" and week_key = ""
NoPause == 0       \* paused_until = None
NoSave == [expired |-> TRUE]

VARIABLES
    now,       \* wall clock, UTC
    up,        \* is the execution engine running?
    risk,      \* _RiskState (while down: what the dead process knew)
    emUntil,   \* end of the EmergencyStopManager's pause, NoPause: inactive
    saved,     \* state:risk_tracker in Redis
    open,      \* open positions at the broker, per side
    closed,    \* closed positions the manage loop has not finalised
    entries,   \* positions ever opened
    crashes,   \* process deaths so far
    truth,     \* history: what was booked and opened this wall day and week
    lossy,     \* history: counts were dropped this week (see below)
    blind,     \* history: an entry was approved on a failed positions_get
    pauseEnd,  \* history: end of the pause the running process owes
    lastEquity \* history: the equity the newest entry was approved with

vars == <<now, up, risk, emUntil, saved, open, closed, entries, crashes,
          truth, lossy, blind, pauseEnd, lastEquity>>

RiskState == [daily : Int, weekly : Int, trades : Nat,
              dayKey : Nat, weekKey : Nat, pausedUntil : Nat]

Truth == [daily : Int, weekly : Int, trades : Nat]

Fresh == [daily |-> 0, weekly |-> 0, trades |-> 0,
          dayKey |-> NoKey, weekKey |-> NoKey, pausedUntil |-> NoPause]

TypeOK ==
    /\ now \in 0..MaxNow
    /\ up \in BOOLEAN
    /\ risk \in RiskState
    /\ emUntil \in Nat
    /\ saved \in RiskState \cup {NoSave}
    /\ open \in [Sides -> Nat]
    /\ closed \in Nat
    /\ entries \in 0..MaxEntries
    /\ crashes \in 0..MaxCrashes
    /\ truth \in Truth
    /\ lossy \in BOOLEAN
    /\ blind \in BOOLEAN
    /\ pauseEnd \in Nat
    /\ lastEquity \in Int

Init ==
    /\ now = 0
    /\ up = TRUE
    /\ risk = Fresh
    /\ emUntil = NoPause
    /\ saved = NoSave
    /\ open = [s \in Sides |-> 0]
    /\ closed = 0
    /\ entries = 0
    /\ crashes = 0
    /\ truth = [daily |-> 0, weekly |-> 0, trades |-> 0]
    /\ lossy = FALSE
    /\ blind = FALSE
    /\ pauseEnd = NoPause
    /\ lastEquity = 0

-----------------------------------------------------------------------------
(* Calendar. Keys start at 1, so that NoKey is the empty string.           *)

Day(t) == 1 + t \div DayLen
Week(t) == 1 + t \div (DayLen * WeekDays)

EndOfDay(t) == DayLen * Day(t)
EndOfWeek(t) == DayLen * WeekDays * Week(t)

\* The timestamp of a decision made now.
Bar == now + Offset

\* Counts are dropped by a restart that finds no saved state, an order reply
\* that is lost, and a decision taken while the two clocks are not on the
\* same day: approve and record_pnl then reset the totals for each other.
Disagree == Day(Bar) # Day(now) \/ Week(Bar) # Week(now)

\* _maybe_roll_day: any change of the date, forward or back, resets.
RollDay(r, t) ==
    [r EXCEPT !.daily = IF r.dayKey \notin {NoKey, Day(t)} THEN 0 ELSE @,
              !.trades = IF r.dayKey \notin {NoKey, Day(t)} THEN 0 ELSE @,
              !.dayKey = Day(t)]

RollWeek(r, t) ==
    [r EXCEPT !.weekly = IF r.weekKey \notin {NoKey, Week(t)} THEN 0 ELSE @,
              !.weekKey = Week(t)]

Roll(r, t) == RollWeek(RollDay(r, t), t)

\* _loss_pct >= limit: the loss as a fraction of the equity just read; no
\* loss is counted against an account without equity.
AtCap(pnl, equity, pct) ==
    equity > 0 /\ pnl < 0 /\ -pnl * 100 >= pct * equity

-----------------------------------------------------------------------------
(* approve(), on the bar clock, in the order of its checks.                *)

Rolled == Roll(risk, Bar)

\* EmergencyStopManager.is_active(t) switches an elapsed pause off.
EmAfterCheck(t) == IF emUntil > t THEN emUntil ELSE NoPause

\* pause_active.
Paused == emUntil > Bar \/ risk.pausedUntil > Bar

\* pause_active forgets an elapsed pause.
Unpaused == [Rolled EXCEPT !.pausedUntil = NoPause]

\* positions_get as the RiskManager sees it: the connector turns a failed
\* read into an empty list.
SeenPositions == {open, [s \in Sides |-> 0]}

\* Mutant: one position more than the limit.
BlockedLateByExposure(side, seen) ==
    \/ seen["long"] + seen["short"] > MaxOpen
    \/ Unpaused.trades >= MaxTrades
    \/ \E s \in Sides \ {side} : seen[s] > 0

\* Limits 5 to 7: open exposure, trades of the session, opposite position.
BlockedByLimits(side, seen) ==
    \/ seen["long"] + seen["short"] >= MaxOpen
    \/ Unpaused.trades >= MaxTrades
    \/ \E s \in Sides \ {side} : seen[s] > 0

\* get_account or positions_get raises after the roll.
AccountUnavailable ==
    /\ up
    /\ risk' = Rolled
    /\ lossy' = (lossy \/ Disagree)
    /\ UNCHANGED <<now, up, emUntil, saved, open, closed, entries, crashes,
                   truth, pauseEnd, lastEquity, blind>>

VetoPaused ==
    /\ up
    /\ Paused
    /\ risk' = Rolled
    /\ emUntil' = EmAfterCheck(Bar)
    /\ lossy' = (lossy \/ Disagree)
    /\ UNCHANGED <<now, up, saved, open, closed, entries, crashes, truth,
                   pauseEnd, lastEquity, blind>>

\* _activate_pause, handed on with activate_external_pause.
ActivatePause(until) ==
    /\ risk' = [Unpaused EXCEPT !.pausedUntil = until]
    /\ emUntil' = until
    /\ pauseEnd' = until
    /\ lossy' = (lossy \/ Disagree)
    /\ UNCHANGED <<now, up, saved, open, closed, entries, crashes, truth,
                   lastEquity, blind>>

HitDailyCap(equity) ==
    /\ up
    /\ ~Paused
    /\ AtCap(Rolled.daily, equity, DailyPct)
    /\ ActivatePause(EndOfDay(Bar))

HitWeeklyCap(equity) ==
    /\ up
    /\ ~Paused
    /\ ~AtCap(Rolled.daily, equity, DailyPct)
    /\ AtCap(Rolled.weekly, equity, WeeklyPct)
    /\ ActivatePause(EndOfWeek(Bar))

\* Mutant: the weekly loss is not looked at.
BelowDailyCap(equity) ==
    /\ up
    /\ ~Paused
    /\ ~AtCap(Rolled.daily, equity, DailyPct)

BelowCaps(equity) ==
    /\ up
    /\ ~Paused
    /\ ~AtCap(Rolled.daily, equity, DailyPct)
    /\ ~AtCap(Rolled.weekly, equity, WeeklyPct)

\* A limit blocks, or the approved trade dies before the broker: no stop, no
\* size (always without equity), failed safety check, rejected order.
NoOrder(equity) ==
    /\ BelowCaps(equity)
    /\ risk' = Unpaused
    /\ emUntil' = NoPause
    /\ lossy' = (lossy \/ Disagree)
    /\ UNCHANGED <<now, up, saved, open, closed, entries, crashes, truth,
                   pauseEnd, lastEquity, blind>>

\* Approved, sent and filled; record_trade runs unless the broker's reply was
\* lost, which OrderManager.send reports as a rejection.
Enter(side, equity, seen, recorded) ==
    /\ BelowCaps(equity)
    /\ equity > 0
    /\ ~BlockedByLimits(side, seen)
    /\ entries < MaxEntries
    /\ risk' = [Unpaused EXCEPT !.trades = IF recorded THEN @ + 1 ELSE @]
    /\ emUntil' = NoPause
    /\ open' = [open EXCEPT ![side] = @ + 1]
    /\ entries' = entries + 1
    /\ truth' = [truth EXCEPT !.trades = @ + 1]
    /\ lossy' = (lossy \/ ~recorded \/ Disagree)
    /\ blind' = (blind \/ seen # open)
    /\ lastEquity' = equity
    /\ UNCHANGED <<now, up, saved, closed, crashes, pauseEnd>>

Approve ==
    \E side \in Sides, equity \in Equities, seen \in SeenPositions :
        \/ HitDailyCap(equity)
        \/ HitWeeklyCap(equity)
        \/ NoOrder(equity)
        \/ \E recorded \in BOOLEAN : Enter(side, equity, seen, recorded)

-----------------------------------------------------------------------------
(* The manage loop and the state publisher, on the wall clock.             *)

\* The broker closes a position: stop, target or a close order.
ClosePosition(side) ==
    /\ open[side] > 0
    /\ open' = [open EXCEPT ![side] = @ - 1]
    /\ closed' = closed + 1
    /\ blind' = (blind /\ \E s \in Sides : open'[s] > 0)
    /\ UNCHANGED <<now, up, risk, emUntil, saved, entries, crashes, truth,
                   lossy, pauseEnd, lastEquity>>

\* Mutant: a win is not added to the running totals.
RecordLossOnly(pnl) ==
    /\ up
    /\ closed > 0
    /\ risk' = [Roll(risk, now) EXCEPT !.daily = IF pnl < 0 THEN @ + pnl ELSE @,
                                       !.weekly = IF pnl < 0 THEN @ + pnl ELSE @]
    /\ saved' \in {risk', saved}
    /\ closed' = closed - 1
    /\ truth' = [truth EXCEPT !.daily = @ + pnl, !.weekly = @ + pnl]
    /\ UNCHANGED <<now, up, emUntil, open, entries, crashes, lossy, pauseEnd,
                   lastEquity, blind>>

\* _journal_close: record_pnl and, best effort, _persist_risk.
RecordPnl(pnl) ==
    /\ up
    /\ closed > 0
    /\ risk' = [Roll(risk, now) EXCEPT !.daily = @ + pnl, !.weekly = @ + pnl]
    /\ saved' \in {risk', saved}
    /\ closed' = closed - 1
    /\ truth' = [truth EXCEPT !.daily = @ + pnl, !.weekly = @ + pnl]
    /\ UNCHANGED <<now, up, emUntil, open, entries, crashes, lossy, pauseEnd,
                   lastEquity, blind>>

\* _publish_state, every 3 seconds: roll and, best effort, _persist_risk.
PublishState ==
    /\ up
    /\ risk' = Roll(risk, now)
    /\ saved' \in {risk', saved}
    /\ UNCHANGED <<now, up, emUntil, open, closed, entries, crashes, truth,
                   lossy, pauseEnd, lastEquity, blind>>

\* Mutant: clearing the emergency also lifts the limit pause.
SyncClearsAll ==
    /\ up
    /\ emUntil' = NoPause
    /\ risk' = [risk EXCEPT !.pausedUntil = NoPause]
    /\ UNCHANGED <<now, up, saved, open, closed, entries, crashes, truth,
                   lossy, pauseEnd, lastEquity, blind>>

\* _sync_emergency with the operator's flag off: an active pause is cleared,
\* the RiskManager's own included.
SyncEmergency ==
    /\ up
    /\ emUntil' = NoPause
    /\ UNCHANGED <<now, up, risk, saved, open, closed, entries, crashes,
                   truth, lossy, pauseEnd, lastEquity, blind>>

-----------------------------------------------------------------------------
(* Time, Redis and the process.                                            *)

\* 15 seconds without a successful save.
Expire ==
    /\ saved' = NoSave
    /\ UNCHANGED <<now, up, risk, emUntil, open, closed, entries, crashes,
                   truth, lossy, pauseEnd, lastEquity, blind>>

Crash ==
    /\ up
    /\ crashes < MaxCrashes
    /\ up' = FALSE
    /\ crashes' = crashes + 1
    /\ UNCHANGED <<now, risk, emUntil, saved, open, closed, entries, truth,
                   lossy, pauseEnd, lastEquity, blind>>

\* _run: a new RiskManager and EmergencyStopManager (no state file), then
\* _load_risk.
Restart ==
    /\ ~up
    /\ up' = TRUE
    /\ risk' = IF saved = NoSave THEN Fresh ELSE saved
    /\ emUntil' = NoPause
    /\ pauseEnd' = risk'.pausedUntil
    /\ lossy' = (lossy \/ Roll(risk', now) # Roll(risk, now))
    /\ UNCHANGED <<now, saved, open, closed, entries, crashes, truth,
                   lastEquity, blind>>

\* A tick outlives the Redis key of a process that is down.
Tick ==
    /\ now < MaxNow
    /\ now' = now + 1
    /\ saved' = IF up THEN saved ELSE NoSave
    /\ truth' = [daily |-> IF Day(now') = Day(now) THEN truth.daily ELSE 0,
                 weekly |-> IF Week(now') = Week(now) THEN truth.weekly ELSE 0,
                 trades |-> IF Day(now') = Day(now) THEN truth.trades ELSE 0]
    /\ lossy' = (lossy /\ Week(now') = Week(now))
    /\ UNCHANGED <<up, risk, emUntil, open, closed, entries, crashes,
                   pauseEnd, lastEquity, blind>>

-----------------------------------------------------------------------------
Next ==
    \/ AccountUnavailable
    \/ VetoPaused
    \/ Approve
    \/ \E side \in Sides : ClosePosition(side)
    \/ \E pnl \in Pnls : RecordPnl(pnl)
    \/ PublishState
    \/ SyncEmergency
    \/ Expire
    \/ Crash
    \/ Restart
    \/ Tick

Spec == Init /\ [][Next]_vars

-----------------------------------------------------------------------------
(* Properties.                                                             *)

\* A loss-limit pause holds to its end: _sync_emergency clearing the
\* emergency manager within 3 seconds, the totals flapping between two
\* calendars and a restart that restores the state never let an entry through
\* before the pause it owes is over.
PauseHolds == [][entries' > entries => Bar >= pauseEnd]_vars

\* "Daily loss >= risk_max_daily: block", "Weekly loss ... block": no entry
\* is made with the booked loss of its wall day or week at the cap, unless
\* counts had been dropped.
LossCapsEnforced ==
    [][entries' > entries =>
          \/ lossy'
          \/ /\ ~AtCap(truth.daily, lastEquity', DailyPct)
             /\ ~AtCap(truth.weekly, lastEquity', WeeklyPct)]_vars

\* The running totals the caps are computed from are those of the wall day
\* and week, and no trade of the day is forgotten, under the same proviso.
TotalsExact ==
    LET r == Roll(risk, now) IN
    (up /\ ~lossy) => /\ r.daily = truth.daily
                      /\ r.weekly = truth.weekly
                      /\ r.trades >= truth.trades

\* "Open positions >= risk_max_open_positions: block": also over restarts,
\* lost replies and closes the engine has not seen; broken only by an entry
\* that was approved on a failed read of the book.
ExposureBounded == blind \/ open["long"] + open["short"] <= MaxOpen

\* "Long+Short both open: block": the book is never hedged, with the same
\* proviso.
NeverHedged == blind \/ open["long"] = 0 \/ open["short"] = 0

=============================================================================
