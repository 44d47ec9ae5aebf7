-------------------------- MODULE RiskManagerProofs --------------------------
(***************************************************************************)
(* Safety of the pre-trade gate for every calendar, clock offset, limit,   *)
(* set of results and number of crashes.                                   *)
(***************************************************************************)
EXTENDS RiskManager, TLAPS

-----------------------------------------------------------------------------
(* The calendar.                                                           *)

LEMMA KeysAreNat ==
    ASSUME NEW t \in Nat
    PROVE  Day(t) \in Nat /\ Week(t) \in Nat
  <1> USE RiskAssumption DEF RiskAssumption
  <1>1. ASSUME NEW d \in Nat \ {0} PROVE t \div d \in Nat
    BY <1>1
  <1>2. DayLen * WeekDays \in Nat \ {0}
    OBVIOUS
  <1> QED BY <1>1, <1>2 DEF Day, Week

LEMMA EndsAreNat ==
    ASSUME NEW t \in Nat
    PROVE  EndOfDay(t) \in Nat /\ EndOfWeek(t) \in Nat
  <1>1. DayLen \in Nat /\ DayLen * WeekDays \in Nat
    BY RiskAssumption DEF RiskAssumption
  <1>2. Day(t) \in Nat /\ Week(t) \in Nat
    BY KeysAreNat
  <1>3. ASSUME NEW a \in Nat, NEW b \in Nat PROVE a * b \in Nat
    BY <1>3
  <1> QED BY <1>1, <1>2, <1>3 DEF EndOfDay, EndOfWeek

\* Rolling keeps the shape of the state and never touches a pause.
LEMMA RollTyped ==
    ASSUME NEW r \in RiskState, NEW t \in Nat
    PROVE  Roll(r, t) \in RiskState /\ Roll(r, t).pausedUntil = r.pausedUntil
  <1>1. Day(t) \in Nat /\ Week(t) \in Nat
    BY KeysAreNat
  <1>2. RollDay(r, t) \in RiskState
    <2>1. (IF r.dayKey \notin {NoKey, Day(t)} THEN 0 ELSE r.daily) \in Int
      BY DEF RiskState
    <2>2. (IF r.dayKey \notin {NoKey, Day(t)} THEN 0 ELSE r.trades) \in Nat
      BY DEF RiskState
    <2> QED BY <1>1, <2>1, <2>2 DEF RollDay, RiskState
  <1>3. ASSUME NEW q \in RiskState
        PROVE  RollWeek(q, t) \in RiskState
    <2>1. (IF q.weekKey \notin {NoKey, Week(t)} THEN 0 ELSE q.weekly) \in Int
      BY DEF RiskState
    <2> QED BY <1>1, <2>1 DEF RollWeek, RiskState
  <1>4. RollDay(r, t).pausedUntil = r.pausedUntil
    BY DEF RollDay, RiskState
  <1>5. ASSUME NEW q \in RiskState
        PROVE  RollWeek(q, t).pausedUntil = q.pausedUntil
    BY DEF RollWeek, RiskState
  <1> QED BY <1>2, <1>3, <1>4, <1>5 DEF Roll

LEMMA BarIsNat == TypeOK => Bar \in Nat /\ now \in Nat
  BY RiskAssumption DEF RiskAssumption, TypeOK, Bar

\* What approve() leaves behind has the type of the state.
LEMMA RolledTyped ==
    ASSUME TypeOK
    PROVE  /\ Rolled \in RiskState /\ Rolled.pausedUntil = risk.pausedUntil
           /\ Unpaused \in RiskState /\ Unpaused.pausedUntil = NoPause
           /\ Roll(risk, now) \in RiskState
           /\ Roll(risk, now).pausedUntil = risk.pausedUntil
  <1>1. Bar \in Nat /\ now \in Nat
    BY BarIsNat
  <1>2. Rolled \in RiskState /\ Rolled.pausedUntil = risk.pausedUntil
    BY <1>1, RollTyped DEF Rolled, TypeOK
  <1>3. Roll(risk, now) \in RiskState
        /\ Roll(risk, now).pausedUntil = risk.pausedUntil
    BY <1>1, RollTyped DEF TypeOK
  <1>4. Unpaused \in RiskState /\ Unpaused.pausedUntil = NoPause
    BY <1>2 DEF Unpaused, RiskState, NoPause
  <1> QED BY <1>2, <1>3, <1>4

-----------------------------------------------------------------------------
(* Type correctness.                                                       *)

LEMMA InitTypeOK == Init => TypeOK
  <1> SUFFICES ASSUME Init PROVE TypeOK
    OBVIOUS
  <1>1. Fresh \in RiskState
    BY DEF Fresh, RiskState, NoKey, NoPause
  <1>2. truth \in Truth
    BY DEF Init, Truth
  <1>3. now \in 0..MaxNow /\ entries \in 0..MaxEntries
        /\ crashes \in 0..MaxCrashes
    BY RiskAssumption DEF RiskAssumption, Init
  <1>4. open \in [Sides -> Nat]
    BY DEF Init
  <1>5. risk \in RiskState /\ saved \in RiskState \cup {NoSave}
    BY <1>1 DEF Init
  <1>6. /\ lastEquity \in Int /\ closed \in Nat
        /\ emUntil \in Nat /\ pauseEnd \in Nat
    BY SMT DEF Init, NoPause
  <1>7. up \in BOOLEAN /\ lossy \in BOOLEAN /\ blind \in BOOLEAN
    BY DEF Init
  <1> QED BY <1>2, <1>3, <1>4, <1>5, <1>6, <1>7 DEF TypeOK

LEMMA ApproveTypeOK == TypeOK /\ Approve => TypeOK'
  <1> SUFFICES ASSUME TypeOK,
                      NEW side \in Sides, NEW equity \in Equities,
                      NEW seen \in SeenPositions,
                      \/ HitDailyCap(equity)
                      \/ HitWeeklyCap(equity)
                      \/ NoOrder(equity)
                      \/ \E recorded \in BOOLEAN :
                            Enter(side, equity, seen, recorded)
               PROVE  TypeOK'
    BY DEF Approve
  <1>1. Unpaused \in RiskState /\ Bar \in Nat
    BY RolledTyped, BarIsNat
  <1>2. ASSUME NEW until \in Nat, ActivatePause(until) PROVE TypeOK'
    <2>1. risk' \in RiskState
      BY <1>1, <1>2 DEF ActivatePause, RiskState
    <2> QED BY <1>2, <2>1 DEF ActivatePause, TypeOK
  <1>3. CASE HitDailyCap(equity) \/ HitWeeklyCap(equity)
    BY <1>1, <1>2, <1>3, EndsAreNat DEF HitDailyCap, HitWeeklyCap
  <1>4. CASE NoOrder(equity)
    BY <1>1, <1>4 DEF NoOrder, TypeOK, NoPause
  <1>5. ASSUME NEW recorded \in BOOLEAN, Enter(side, equity, seen, recorded)
        PROVE  TypeOK'
    <2>1. risk' \in RiskState
      BY <1>1, <1>5 DEF Enter, RiskState
    <2>2. open' \in [Sides -> Nat]
      BY <1>5 DEF Enter, TypeOK
    <2>3. entries' \in 0..MaxEntries
      BY <1>5, RiskAssumption DEF RiskAssumption, Enter, TypeOK
    <2>4. truth' \in Truth
      BY <1>5 DEF Enter, TypeOK, Truth
    <2>5. lastEquity' \in Int /\ emUntil' \in Nat
      BY <1>5, RiskAssumption DEF RiskAssumption, Enter, TypeOK, NoPause
    <2>6. lossy' \in BOOLEAN /\ blind' \in BOOLEAN
      BY <1>5 DEF Enter, TypeOK
    <2> QED BY <1>5, <2>1, <2>2, <2>3, <2>4, <2>5, <2>6 DEF Enter, TypeOK
  <1> QED BY <1>3, <1>4, <1>5

LEMMA NextTypeOK == TypeOK /\ [Next]_vars => TypeOK'
  <1> SUFFICES ASSUME TypeOK, [Next]_vars PROVE TypeOK'
    OBVIOUS
  <1>1. /\ Rolled \in RiskState /\ Roll(risk, now) \in RiskState
        /\ Bar \in Nat /\ now \in Nat
    BY RolledTyped, BarIsNat
  <1>2. CASE AccountUnavailable
    BY <1>1, <1>2 DEF AccountUnavailable, TypeOK
  <1>3. CASE VetoPaused
    BY <1>1, <1>3 DEF VetoPaused, TypeOK, EmAfterCheck, NoPause
  <1>4. CASE Approve
    BY <1>4, ApproveTypeOK
  <1>5. ASSUME NEW side \in Sides, ClosePosition(side) PROVE TypeOK'
    <2>1. open' \in [Sides -> Nat] /\ closed' \in Nat
      BY <1>5 DEF ClosePosition, TypeOK
    <2>2. blind' \in BOOLEAN
      BY <1>5 DEF ClosePosition, TypeOK
    <2> QED BY <1>5, <2>1, <2>2 DEF ClosePosition, TypeOK
  <1>6. ASSUME NEW pnl \in Pnls, RecordPnl(pnl) PROVE TypeOK'
    <2>1. pnl \in Int
      BY RiskAssumption DEF RiskAssumption
    <2>2. ASSUME NEW q \in RiskState
          PROVE  [q EXCEPT !.daily = @ + pnl, !.weekly = @ + pnl] \in RiskState
      <3>1. q.daily + pnl \in Int /\ q.weekly + pnl \in Int
        BY <2>1 DEF RiskState
      <3> QED BY <3>1 DEF RiskState
    <2>3. risk' \in RiskState
      BY <1>1, <1>6, <2>2 DEF RecordPnl
    <2>4. truth' \in Truth
      <3>1. truth.daily + pnl \in Int /\ truth.weekly + pnl \in Int
        BY <2>1 DEF Truth, TypeOK
      <3> QED BY <1>6, <3>1 DEF RecordPnl, TypeOK, Truth
    <2>5. closed' \in Nat
      BY <1>6 DEF RecordPnl, TypeOK
    <2> QED BY <1>6, <2>3, <2>4, <2>5 DEF RecordPnl, TypeOK
  <1>7. CASE PublishState
    BY <1>1, <1>7 DEF PublishState, TypeOK
  <1>8. CASE SyncEmergency \/ Expire
    BY <1>8 DEF SyncEmergency, Expire, TypeOK, NoPause
  <1>9. CASE Crash
    <2>1. crashes' \in 0..MaxCrashes
      BY <1>9, RiskAssumption DEF RiskAssumption, Crash, TypeOK
    <2> QED BY <1>9, <2>1 DEF Crash, TypeOK
  <1>10. CASE Restart
    <2>1. risk' \in RiskState
      BY <1>10 DEF Restart, TypeOK, Fresh, RiskState, NoKey, NoPause
    <2>2. pauseEnd' \in Nat
      BY <1>10, <2>1 DEF Restart, RiskState
    <2>3. lossy' \in BOOLEAN
      BY <1>10 DEF Restart, TypeOK
    <2> QED BY <1>10, <2>1, <2>2, <2>3 DEF Restart, TypeOK, NoPause
  <1>11. CASE Tick
    <2>1. now' \in 0..MaxNow
      BY <1>11, RiskAssumption DEF RiskAssumption, Tick, TypeOK
    <2>2. truth' \in Truth
      BY <1>11 DEF Tick, TypeOK, Truth
    <2>3. lossy' \in BOOLEAN
      BY <1>11 DEF Tick, TypeOK
    <2> QED BY <1>11, <2>1, <2>2, <2>3 DEF Tick, TypeOK
  <1>12. CASE UNCHANGED vars
    BY <1>12 DEF vars, TypeOK
  <1> QED
    BY <1>2, <1>3, <1>4, <1>5, <1>6, <1>7, <1>8, <1>9, <1>10, <1>11, <1>12
    DEF Next

\* The state of the manager, the saved copy and the book keep their types.
THEOREM RiskTypeOK == Spec => []TypeOK
  BY InitTypeOK, NextTypeOK, PTL DEF Spec

-----------------------------------------------------------------------------
(* A loss-limit pause.                                                     *)

\* What a running process owes it also remembers, until the bar clock has
\* passed it: the emergency manager's copy is not needed to keep the pause.
PauseKept == pauseEnd = risk.pausedUntil \/ pauseEnd <= Bar

LEMMA InitPauseKept == Init => PauseKept
  BY DEF Init, PauseKept, Fresh

LEMMA NextPauseKept == TypeOK /\ PauseKept /\ [Next]_vars => PauseKept'
  <1> SUFFICES ASSUME TypeOK, PauseKept, [Next]_vars PROVE PauseKept'
    OBVIOUS
  <1>1. /\ Rolled.pausedUntil = risk.pausedUntil
        /\ Roll(risk, now).pausedUntil = risk.pausedUntil
        /\ Roll(risk, now) \in RiskState /\ Unpaused \in RiskState
        /\ Bar \in Nat /\ now \in Nat
    BY RolledTyped, BarIsNat
  <1>2. ASSUME ~Paused PROVE pauseEnd <= Bar
    BY <1>1, <1>2 DEF Paused, PauseKept, TypeOK, RiskState
  <1>3. CASE AccountUnavailable \/ VetoPaused
    BY <1>1, <1>3 DEF AccountUnavailable, VetoPaused, PauseKept, Bar
  <1>4. CASE Approve
    <2>1. PICK side \in Sides, equity \in Equities, seen \in SeenPositions :
             \/ HitDailyCap(equity)
             \/ HitWeeklyCap(equity)
             \/ NoOrder(equity)
             \/ \E recorded \in BOOLEAN : Enter(side, equity, seen, recorded)
      BY <1>4 DEF Approve
    <2>2. ASSUME NEW until, ActivatePause(until) PROVE PauseKept'
      BY <1>1, <2>2 DEF ActivatePause, PauseKept, RiskState
    <2>3. CASE HitDailyCap(equity) \/ HitWeeklyCap(equity)
      BY <2>2, <2>3 DEF HitDailyCap, HitWeeklyCap
    <2>4. CASE NoOrder(equity) \/ \E recorded \in BOOLEAN :
                                    Enter(side, equity, seen, recorded)
      <3>1. ~Paused /\ pauseEnd' = pauseEnd /\ now' = now
        BY <2>4 DEF NoOrder, Enter, BelowCaps
      <3> QED BY <1>2, <3>1 DEF PauseKept, Bar
    <2> QED BY <2>1, <2>3, <2>4
  <1>5. ASSUME NEW side \in Sides, ClosePosition(side) PROVE PauseKept'
    BY <1>5 DEF ClosePosition, PauseKept, Bar
  <1>6. ASSUME NEW pnl \in Pnls, RecordPnl(pnl) PROVE PauseKept'
    <2>1. risk'.pausedUntil = risk.pausedUntil
      BY <1>1, <1>6 DEF RecordPnl, RiskState
    <2> QED BY <1>6, <2>1 DEF RecordPnl, PauseKept, Bar
  <1>7. CASE PublishState
    BY <1>1, <1>7 DEF PublishState, PauseKept, Bar
  <1>8. CASE SyncEmergency \/ Expire \/ Crash
    BY <1>8 DEF SyncEmergency, Expire, Crash, PauseKept, Bar
  <1>9. CASE Restart
    BY <1>9 DEF Restart, PauseKept
  <1>10. CASE Tick
    <2>1. Bar' = Bar + 1 /\ risk' = risk /\ pauseEnd' = pauseEnd
      BY <1>1, <1>10, RiskAssumption DEF RiskAssumption, Tick, Bar
    <2> QED BY <1>1, <2>1 DEF PauseKept, TypeOK
  <1>11. CASE UNCHANGED vars
    BY <1>11 DEF vars, PauseKept, Bar
  <1> QED
    BY <1>3, <1>4, <1>5, <1>6, <1>7, <1>8, <1>9, <1>10, <1>11 DEF Next

\* No entry is made before the end of the pause the running process owes,
\* whatever the two clocks, the kill-switch sync and restarts do in between.
THEOREM RiskPauseHolds == Spec => PauseHolds
  <1> DEFINE Held == entries' > entries => Bar >= pauseEnd
  <1>1. TypeOK /\ PauseKept /\ [Next]_vars => [Held]_vars
    <2> SUFFICES ASSUME TypeOK, PauseKept, Next, entries' > entries
                 PROVE  Bar >= pauseEnd
      OBVIOUS
    <2>1. entries \in Nat /\ Bar \in Nat /\ pauseEnd \in Nat
      BY BarIsNat DEF TypeOK
    <2>2. entries' # entries
      BY <2>1
    <2>3. Approve
      BY <2>2 DEF Next, AccountUnavailable, VetoPaused, ClosePosition,
         RecordPnl, PublishState, SyncEmergency, Expire, Crash, Restart, Tick
    <2>4. ~Paused
      BY <2>2, <2>3 DEF Approve, Enter, BelowCaps, NoOrder, HitDailyCap,
         HitWeeklyCap, ActivatePause
    <2> QED BY <2>1, <2>4 DEF Paused, PauseKept, TypeOK, RiskState
  <1> QED
    BY <1>1, InitTypeOK, NextTypeOK, InitPauseKept, NextPauseKept, PTL
    DEF Spec, PauseHolds

-----------------------------------------------------------------------------
(* Exposure.                                                               *)

LEMMA InitExposure == Init => ExposureBounded /\ NeverHedged
  BY RiskAssumption
  DEF RiskAssumption, Init, ExposureBounded, NeverHedged, Sides

LEMMA NextExposure ==
    ASSUME TypeOK, ExposureBounded, NeverHedged, [Next]_vars
    PROVE  ExposureBounded' /\ NeverHedged'
  <1>1. /\ open["long"] \in Nat /\ open["short"] \in Nat /\ MaxOpen \in Nat
        /\ open \in [Sides -> Nat]
    BY RiskAssumption DEF RiskAssumption, TypeOK, Sides
  <1>2. ASSUME open' = open, blind' = blind
        PROVE  ExposureBounded' /\ NeverHedged'
    BY <1>2 DEF ExposureBounded, NeverHedged
  <1>3. ASSUME NEW side \in Sides, ClosePosition(side)
        PROVE  ExposureBounded' /\ NeverHedged'
    <2>1. /\ open[side] > 0
          /\ open'["long"] = IF side = "long" THEN open["long"] - 1
                                             ELSE open["long"]
          /\ open'["short"] = IF side = "short" THEN open["short"] - 1
                                               ELSE open["short"]
      BY <1>1, <1>3 DEF ClosePosition, Sides
    <2>2. open'["long"] \in Nat /\ open'["short"] \in Nat
      BY <1>1, <2>1 DEF Sides
    <2>3. CASE ~blind
      BY <1>1, <2>1, <2>2, <2>3 DEF ExposureBounded, NeverHedged, Sides
    <2>4. CASE blind
      <3>1. SUFFICES ASSUME ~blind' PROVE ExposureBounded' /\ NeverHedged'
        BY DEF ExposureBounded, NeverHedged
      <3>2. \A s \in Sides : ~(open'[s] > 0)
        BY <1>3, <2>4, <3>1 DEF ClosePosition
      <3>3. open'["long"] = 0 /\ open'["short"] = 0
        BY <2>2, <3>2 DEF Sides
      <3> QED BY <1>1, <3>3 DEF ExposureBounded, NeverHedged
    <2> QED BY <2>3, <2>4
  <1>4. ASSUME NEW side \in Sides, NEW equity \in Equities,
               NEW seen \in SeenPositions, NEW recorded \in BOOLEAN,
               Enter(side, equity, seen, recorded)
        PROVE  ExposureBounded' /\ NeverHedged'
    <2>1. SUFFICES ASSUME ~blind' PROVE ExposureBounded' /\ NeverHedged'
      BY DEF ExposureBounded, NeverHedged
    <2>2. ~blind /\ seen = open
      BY <1>4, <2>1 DEF Enter
    <2>3. /\ ~(open["long"] + open["short"] >= MaxOpen)
          /\ \A s \in Sides \ {side} : ~(open[s] > 0)
      BY <1>4, <2>2 DEF Enter, BlockedByLimits
    <2>4. /\ open'["long"] = IF side = "long" THEN open["long"] + 1
                                             ELSE open["long"]
          /\ open'["short"] = IF side = "short" THEN open["short"] + 1
                                               ELSE open["short"]
      BY <1>1, <1>4 DEF Enter, Sides
    <2>5. ExposureBounded'
      BY <1>1, <2>3, <2>4 DEF ExposureBounded, Sides
    <2>6. NeverHedged'
      BY <1>1, <2>3, <2>4 DEF NeverHedged, Sides
    <2> QED BY <2>5, <2>6
  <1>5. CASE ~(open' = open /\ blind' = blind)
    BY <1>3, <1>4, <1>5
    DEF Next, vars, Approve, NoOrder, HitDailyCap, HitWeeklyCap,
        ActivatePause, AccountUnavailable, VetoPaused, RecordPnl,
        PublishState, SyncEmergency, Expire, Crash, Restart, Tick
  <1> QED BY <1>2, <1>5

\* The book never holds more positions than the limit, over restarts, lost
\* replies and closes the engine has not seen, from one empty book to the
\* next entry approved on a failed read.
THEOREM RiskExposureBounded == Spec => []ExposureBounded
  BY InitTypeOK, NextTypeOK, InitExposure, NextExposure, PTL DEF Spec

\* Long and short are never open together, under the same proviso.
THEOREM RiskNeverHedged == Spec => []NeverHedged
  BY InitTypeOK, NextTypeOK, InitExposure, NextExposure, PTL DEF Spec
-----------------------------------------------------------------------------
(* The running totals.                                                     *)

\* Nothing is booked under a key that has not been set, or under a day or a
\* week that has not begun: the bar clock may roll a state forward, and only
\* closes, which are counted on the wall clock, add to it.
NoneAhead(q) ==
    /\ q.dayKey = NoKey \/ q.dayKey > Day(now) => q.daily = 0
    /\ q.weekKey = NoKey \/ q.weekKey > Week(now) => q.weekly = 0

\* What the wall clock's roll leaves of a state is what was booked.
Counts(q) ==
    LET r == Roll(q, now) IN
    /\ r.daily = truth.daily
    /\ r.weekly = truth.weekly
    /\ r.trades >= truth.trades

\* The totals a dead process knew stay comparable, so that a restart can be
\* held to them; a saved copy may be old but is never ahead.
TotalsInv ==
    /\ ~lossy => Counts(risk)
    /\ NoneAhead(risk)
    /\ saved # NoSave => NoneAhead(saved)

\* A quotient and its remainder bound the dividend.
LEMMA QuotientBounds ==
    ASSUME NEW t \in Nat, NEW d \in Nat \ {0}
    PROVE  /\ t \div d \in Nat
           /\ d * (t \div d) <= t
           /\ t < d * (t \div d) + d
  OBVIOUS

LEMMA TimesMonotone ==
    ASSUME NEW a \in Nat, NEW b \in Nat, NEW d \in Nat, a <= b
    PROVE  d * a <= d * b
  OBVIOUS

\* A tick later the quotient is the same or larger.
LEMMA QuotientAdvances ==
    ASSUME NEW t \in Nat, NEW d \in Nat \ {0}
    PROVE  t \div d <= (t + 1) \div d
  <1> DEFINE p == t \div d
             q == (t + 1) \div d
  <1>1. /\ p \in Nat /\ d * p <= t
        /\ q \in Nat /\ t + 1 < d * q + d
    BY QuotientBounds
  <1> HIDE DEF p, q
  <1> SUFFICES ASSUME q + 1 <= p PROVE FALSE
    BY <1>1 DEF p, q
  <1>2. d * (q + 1) <= d * p
    BY <1>1, TimesMonotone
  <1>3. d * (q + 1) = d * q + d
    BY <1>1
  <1>4. d * q \in Nat /\ d * p \in Nat
    BY <1>1
  <1> QED BY <1>1, <1>2, <1>3, <1>4

\* A multiple of a period does not end inside the period.
LEMMA PeriodsNest ==
    ASSUME NEW t \in Nat, NEW d \in Nat \ {0}, NEW m \in Nat,
           NEW e \in Nat \ {0},
           e = d * m, (t + 1) \div d = t \div d
    PROVE  (t + 1) \div e = t \div e
  <1>1. PICK p \in Nat : p = t \div d /\ d * p <= t /\ t + 1 < d * p + d
    BY QuotientBounds
  <1>2. PICK w \in Nat : w = t \div e /\ e * w <= t /\ t < e * w + e
    BY QuotientBounds
  <1>3. PICK v \in Nat : v = (t + 1) \div e /\ e * v <= t + 1
    <2>1. t + 1 \in Nat
      OBVIOUS
    <2> QED BY <2>1, QuotientBounds
  <1>4. w <= v
    BY <1>2, <1>3, QuotientAdvances
  <1>5. SUFFICES ASSUME w # v PROVE FALSE
    BY <1>2, <1>3
  <1>6. PICK k \in Nat : k = m * v
    OBVIOUS
  <1>7. d * k = e * v
    BY <1>6
  <1>8. e * (w + 1) <= e * v /\ e * (w + 1) = e * w + e
    BY <1>4, <1>5, TimesMonotone
  <1>9. e * w \in Nat /\ e * v \in Nat /\ d * k \in Nat /\ d * p \in Nat
    OBVIOUS
  <1>10. t < d * k /\ d * k <= t + 1
    <2>1. e * w + e <= d * k
      BY <1>7, <1>8
    <2>2. t < e * w + e /\ d * k <= t + 1
      BY <1>2, <1>3, <1>7
    <2> QED BY <1>9, <2>1, <2>2
  <1>11. p + 1 <= k
    <2>1. k <= p => d * k <= d * p
      BY TimesMonotone
    <2> QED BY <1>1, <1>9, <1>10, <2>1
  <1>12. d * (p + 1) <= d * k /\ d * (p + 1) = d * p + d
    BY <1>11, TimesMonotone
  <1> QED BY <1>1, <1>9, <1>10, <1>12

\* A week does not end inside a day.
LEMMA WeekEndsWithDay ==
    ASSUME NEW t \in Nat, Day(t + 1) = Day(t)
    PROVE  Week(t + 1) = Week(t)
  <1>1. /\ DayLen \in Nat \ {0} /\ WeekDays \in Nat
        /\ DayLen * WeekDays \in Nat \ {0}
    BY RiskAssumption DEF RiskAssumption
  <1>2. t \div DayLen \in Nat /\ (t + 1) \div DayLen \in Nat
    BY <1>1, QuotientBounds
  <1>3. (t + 1) \div DayLen = t \div DayLen
    BY <1>2 DEF Day
  <1>4. ASSUME NEW e \in Nat \ {0}, e = DayLen * WeekDays
        PROVE  (t + 1) \div e = t \div e
    BY <1>1, <1>3, <1>4, PeriodsNest
  <1> QED BY <1>1, <1>4 DEF Week

\* Keys start at 1 and only advance with the clock.
LEMMA KeysAdvance ==
    ASSUME NEW t \in Nat
    PROVE  /\ Day(t) \in Nat \ {NoKey} /\ Week(t) \in Nat \ {NoKey}
           /\ Day(t) <= Day(t + 1) /\ Week(t) <= Week(t + 1)
  <1>1. DayLen \in Nat \ {0} /\ DayLen * WeekDays \in Nat \ {0}
    BY RiskAssumption DEF RiskAssumption
  <1>2. ASSUME NEW d \in Nat \ {0}
        PROVE  /\ 1 + t \div d \in Nat \ {0}
               /\ 1 + t \div d <= 1 + (t + 1) \div d
    BY QuotientBounds, QuotientAdvances
  <1> QED BY <1>1, <1>2 DEF Day, Week, NoKey

\* What rolling leaves of a state, field by field.
LEMMA RollFields ==
    ASSUME NEW q \in RiskState, NEW t \in Nat
    PROVE  LET r == Roll(q, t) IN
           /\ r.daily = IF q.dayKey \notin {NoKey, Day(t)} THEN 0 ELSE q.daily
           /\ r.trades = IF q.dayKey \notin {NoKey, Day(t)} THEN 0
                                                            ELSE q.trades
           /\ r.weekly = IF q.weekKey \notin {NoKey, Week(t)} THEN 0
                                                              ELSE q.weekly
           /\ r.dayKey = Day(t)
           /\ r.weekKey = Week(t)
  BY DEF Roll, RollDay, RollWeek, RiskState

\* Rolling a second time changes none of the totals.
LEMMA RollAgain ==
    ASSUME NEW q \in RiskState, NEW t \in Nat,
           q.dayKey = Day(t), q.weekKey = Week(t)
    PROVE  LET r == Roll(q, t) IN
           r.daily = q.daily /\ r.weekly = q.weekly /\ r.trades = q.trades
  BY RollFields

\* Rolling forward, even past the present, puts nothing ahead.
LEMMA NoneAheadRolled ==
    ASSUME NEW q \in RiskState, NEW t \in Nat, now \in Nat, NoneAhead(q)
    PROVE  NoneAhead(Roll(q, t))
  <1>1. Day(t) \in Nat \ {NoKey} /\ Week(t) \in Nat \ {NoKey}
    BY KeysAdvance
  <1>2. Day(now) \in Nat \ {NoKey} /\ Week(now) \in Nat \ {NoKey}
    BY KeysAdvance
  <1> QED BY <1>1, <1>2, RollFields DEF NoneAhead, RiskState

\* approve() rolls on the bar clock: either the clocks agree and the result
\* is what the wall clock would have left, or the step is counted as lossy.
LEMMA RolledCounts ==
    ASSUME TypeOK, TotalsInv
    PROVE  /\ NoneAhead(Rolled)
           /\ ~lossy /\ ~Disagree => /\ Rolled.daily = truth.daily
                                     /\ Rolled.weekly = truth.weekly
                                     /\ Rolled.trades >= truth.trades
                                     /\ Rolled.dayKey = Day(now)
                                     /\ Rolled.weekKey = Week(now)
  <1>1. Bar \in Nat /\ now \in Nat /\ risk \in RiskState
    BY BarIsNat DEF TypeOK
  <1>2. NoneAhead(Rolled)
    BY <1>1, NoneAheadRolled DEF Rolled, TotalsInv
  <1>3. ASSUME ~lossy, ~Disagree
        PROVE  /\ Rolled.daily = Roll(risk, now).daily
               /\ Rolled.weekly = Roll(risk, now).weekly
               /\ Rolled.trades = Roll(risk, now).trades
               /\ Rolled.dayKey = Day(now)
               /\ Rolled.weekKey = Week(now)
    BY <1>1, <1>3, RollFields DEF Rolled, Disagree
  <1> QED BY <1>2, <1>3 DEF TotalsInv, Counts

LEMMA InitTotals == Init => TotalsInv
  <1> SUFFICES ASSUME Init PROVE TotalsInv
    OBVIOUS
  <1>1. Fresh \in RiskState /\ now \in Nat
    BY DEF Fresh, RiskState, NoKey, NoPause, Init
  <1>2. Counts(risk)
    BY <1>1, RollFields DEF Counts, Init, Fresh
  <1>3. NoneAhead(risk)
    BY DEF NoneAhead, Init, Fresh
  <1> QED BY <1>2, <1>3 DEF TotalsInv, Init

LEMMA ApproveTotals ==
    ASSUME TypeOK, TotalsInv,
           AccountUnavailable \/ VetoPaused \/ Approve
    PROVE  TotalsInv'
  <1>1. /\ Bar \in Nat /\ now \in Nat /\ risk' \in RiskState
        /\ Rolled \in RiskState /\ truth \in Truth
    BY BarIsNat, RolledTyped, NextTypeOK DEF TypeOK, Next
  <1>2. /\ now' = now /\ saved' = saved
        /\ ~lossy' => ~lossy /\ ~Disagree
        /\ truth'.daily = truth.daily /\ truth'.weekly = truth.weekly
        /\ risk'.daily = Rolled.daily /\ risk'.weekly = Rolled.weekly
        /\ risk'.dayKey = Rolled.dayKey /\ risk'.weekKey = Rolled.weekKey
        /\ ~lossy' => \/ /\ truth'.trades = truth.trades
                         /\ risk'.trades = Rolled.trades
                      \/ /\ truth'.trades = truth.trades + 1
                         /\ risk'.trades = Rolled.trades + 1
    <2>1. CASE AccountUnavailable \/ VetoPaused
      BY <2>1 DEF AccountUnavailable, VetoPaused
    <2>2. ASSUME NEW until, ActivatePause(until)
          PROVE  /\ UNCHANGED <<now, saved, truth>>
                 /\ ~lossy' => ~lossy /\ ~Disagree
                 /\ risk' = [Unpaused EXCEPT !.pausedUntil = until]
      BY <2>2 DEF ActivatePause
    <2>3. CASE \E equity \in Equities :
                  HitDailyCap(equity) \/ HitWeeklyCap(equity)
      BY <1>1, <2>2, <2>3 DEF HitDailyCap, HitWeeklyCap, Unpaused, RiskState
    <2>4. CASE \E equity \in Equities : NoOrder(equity)
      BY <1>1, <2>4 DEF NoOrder, Unpaused, RiskState
    <2>5. ASSUME NEW side \in Sides, NEW equity \in Equities,
                 NEW seen \in SeenPositions, NEW recorded \in BOOLEAN,
                 Enter(side, equity, seen, recorded)
          PROVE  /\ now' = now /\ saved' = saved
                 /\ ~lossy' => recorded /\ ~lossy /\ ~Disagree
                 /\ truth'.daily = truth.daily /\ truth'.weekly = truth.weekly
                 /\ truth'.trades = truth.trades + 1
                 /\ risk'.daily = Rolled.daily /\ risk'.weekly = Rolled.weekly
                 /\ risk'.dayKey = Rolled.dayKey
                 /\ risk'.weekKey = Rolled.weekKey
                 /\ recorded => risk'.trades = Rolled.trades + 1
      BY <1>1, <2>5 DEF Enter, Unpaused, RiskState, Truth
    <2> QED BY <2>1, <2>3, <2>4, <2>5 DEF Approve
  <1>3. NoneAhead(risk)' /\ (saved' # NoSave => NoneAhead(saved)')
    BY <1>2, RolledCounts DEF NoneAhead, TotalsInv
  <1>4. ASSUME ~lossy' PROVE Counts(risk)'
    <2>1. /\ Roll(risk', now).daily = risk'.daily
          /\ Roll(risk', now).weekly = risk'.weekly
          /\ Roll(risk', now).trades = risk'.trades
      BY <1>1, <1>2, <1>4, RolledCounts, RollAgain
    <2>2. risk'.trades >= truth'.trades
      BY <1>1, <1>2, <1>4, RolledCounts DEF RiskState, Truth
    <2> QED BY <1>2, <1>4, <2>1, <2>2, RolledCounts DEF Counts
  <1> QED BY <1>3, <1>4 DEF TotalsInv

\* A state rolled on the wall clock, as it is or with one result booked.
LEMMA WallTotals ==
    ASSUME TypeOK, TotalsInv, NEW pnl \in Int,
           UNCHANGED <<now, lossy>>, risk' \in RiskState,
           saved' \in {risk', saved},
           risk'.daily = Roll(risk, now).daily + pnl,
           risk'.weekly = Roll(risk, now).weekly + pnl,
           risk'.trades = Roll(risk, now).trades,
           risk'.dayKey = Day(now), risk'.weekKey = Week(now),
           truth'.daily = truth.daily + pnl,
           truth'.weekly = truth.weekly + pnl,
           truth'.trades = truth.trades
    PROVE  TotalsInv'
  <1>1. /\ now \in Nat /\ risk \in RiskState /\ truth \in Truth
        /\ Roll(risk, now) \in RiskState
    BY BarIsNat, RolledTyped DEF TypeOK
  <1>2. Day(now) \in Nat \ {NoKey} /\ Week(now) \in Nat \ {NoKey}
    BY <1>1, KeysAdvance
  <1>3. NoneAhead(risk)'
    BY <1>2 DEF NoneAhead
  <1>4. saved' # NoSave => NoneAhead(saved)'
    BY <1>3 DEF NoneAhead, TotalsInv
  <1>5. ASSUME ~lossy PROVE Counts(risk)'
    <2>1. /\ Roll(risk', now).daily = risk'.daily
          /\ Roll(risk', now).weekly = risk'.weekly
          /\ Roll(risk', now).trades = risk'.trades
      BY <1>1, RollAgain
    <2>2. Counts(risk)
      BY <1>5 DEF TotalsInv
    <2> QED BY <1>1, <2>1, <2>2 DEF Counts, RiskState, Truth
  <1> QED BY <1>3, <1>4, <1>5 DEF TotalsInv

\* The totals empty with the day and with the week, and a state that was
\* rolled ahead had nothing to lose.
LEMMA TickTotals ==
    ASSUME TypeOK, TotalsInv, Tick
    PROVE  TotalsInv'
  <1>1. /\ now \in Nat /\ now' = now + 1 /\ risk' = risk
        /\ risk \in RiskState /\ truth \in Truth
        /\ lossy' = (lossy /\ Week(now') = Week(now))
        /\ saved' \in {saved, NoSave}
    BY BarIsNat DEF TypeOK, Tick
  <1>2. /\ Day(now) \in Nat \ {NoKey} /\ Week(now) \in Nat \ {NoKey}
        /\ Day(now') \in Nat \ {NoKey} /\ Week(now') \in Nat \ {NoKey}
        /\ Day(now) <= Day(now') /\ Week(now) <= Week(now')
    BY <1>1, KeysAdvance
  <1>3. ASSUME NEW q \in RiskState, NoneAhead(q) PROVE NoneAhead(q)'
    BY <1>2, <1>3 DEF NoneAhead, RiskState
  <1>4. NoneAhead(risk)' /\ (saved' # NoSave => NoneAhead(saved)')
    <2>1. NoneAhead(risk)'
      BY <1>1, <1>3 DEF TotalsInv
    <2>2. ASSUME saved' # NoSave PROVE NoneAhead(saved)'
      <3>1. saved' = saved /\ saved \in RiskState /\ NoneAhead(saved)
        BY <1>1, <2>2 DEF TypeOK, TotalsInv
      <3> QED BY <1>3, <3>1 DEF NoneAhead
    <2> QED BY <2>1, <2>2
  <1>5. ASSUME ~lossy' PROVE Counts(risk)'
    <2>1. CASE Day(now') = Day(now)
      <3>1. Week(now') = Week(now) /\ ~lossy /\ truth' = truth
        <4>1. Week(now') = Week(now)
          BY <1>1, <2>1, WeekEndsWithDay
        <4> QED BY <1>1, <1>5, <2>1, <4>1 DEF Tick, TypeOK, Truth
      <3>2. Counts(risk)
        BY <3>1 DEF TotalsInv
      <3> QED BY <1>1, <2>1, <3>1, <3>2, RollFields DEF Counts
    <2>2. CASE Day(now') # Day(now)
      <3>1. Roll(risk', now').daily = 0
        BY <1>1, <1>2, <2>2, RollFields DEF TotalsInv, NoneAhead, RiskState
      <3>2. Roll(risk', now').trades \in Nat
        BY <1>1, RollTyped DEF RiskState
      <3>3. truth'.daily = 0 /\ truth'.trades = 0
            /\ truth'.weekly = IF Week(now') = Week(now) THEN truth.weekly
                                                        ELSE 0
        BY <2>2 DEF Tick
      <3>4. CASE Week(now') = Week(now)
        <4>1. Roll(risk', now').weekly = Roll(risk, now).weekly
          BY <1>1, <3>4, RollFields
        <4>2. Counts(risk)
          BY <1>1, <1>5, <3>4 DEF TotalsInv
        <4> QED BY <3>1, <3>2, <3>3, <3>4, <4>1, <4>2 DEF Counts
      <3>5. CASE Week(now') # Week(now)
        <4>1. Roll(risk', now').weekly = 0
          BY <1>1, <1>2, <3>5, RollFields DEF TotalsInv, NoneAhead, RiskState
        <4> QED BY <3>1, <3>2, <3>3, <3>5, <4>1 DEF Counts
      <3> QED BY <3>4, <3>5
    <2> QED BY <2>1, <2>2
  <1> QED BY <1>4, <1>5 DEF TotalsInv

\* What a restart loads is what the dead process knew, or the step is lossy.
LEMMA RestartTotals ==
    ASSUME TypeOK, TotalsInv, Restart
    PROVE  TotalsInv'
  <1>1. /\ now' = now /\ truth' = truth /\ saved' = saved
        /\ risk' = IF saved = NoSave THEN Fresh ELSE saved
        /\ lossy' = (lossy \/ Roll(risk', now) # Roll(risk, now))
    BY DEF Restart
  <1>2. NoneAhead(risk)' /\ (saved' # NoSave => NoneAhead(saved)')
    BY <1>1 DEF NoneAhead, TotalsInv, Fresh
  <1>3. ~lossy' => Counts(risk)'
    BY <1>1 DEF Counts, TotalsInv
  <1> QED BY <1>2, <1>3 DEF TotalsInv

LEMMA NextTotals ==
    ASSUME TypeOK, TotalsInv, [Next]_vars
    PROVE  TotalsInv'
  <1>1. /\ risk' \in RiskState /\ Roll(risk, now) \in RiskState
        /\ truth \in Truth /\ risk \in RiskState /\ now \in Nat
    BY NextTypeOK, RolledTyped, BarIsNat DEF TypeOK
  <1>2. ASSUME UNCHANGED <<now, truth, risk, lossy>>,
               saved' \in {saved, NoSave}
        PROVE  TotalsInv'
    BY <1>2 DEF TotalsInv, Counts, NoneAhead
  <1>3. CASE AccountUnavailable \/ VetoPaused \/ Approve
    BY <1>3, ApproveTotals
  <1>4. ASSUME NEW side \in Sides, ClosePosition(side) PROVE TotalsInv'
    BY <1>2, <1>4 DEF ClosePosition
  <1>5. ASSUME NEW pnl \in Pnls, RecordPnl(pnl) PROVE TotalsInv'
    <2>1. pnl \in Int
      BY RiskAssumption DEF RiskAssumption
    <2>2. /\ risk'.daily = Roll(risk, now).daily + pnl
          /\ risk'.weekly = Roll(risk, now).weekly + pnl
          /\ risk'.trades = Roll(risk, now).trades
          /\ risk'.dayKey = Roll(risk, now).dayKey
          /\ risk'.weekKey = Roll(risk, now).weekKey
      BY <1>1, <1>5 DEF RecordPnl, RiskState
    <2>3. /\ truth'.daily = truth.daily + pnl
          /\ truth'.weekly = truth.weekly + pnl
          /\ truth'.trades = truth.trades
      BY <1>1, <1>5 DEF RecordPnl, Truth
    <2>4. UNCHANGED <<now, lossy>> /\ saved' \in {risk', saved}
      BY <1>5 DEF RecordPnl
    <2> QED BY <1>1, <2>1, <2>2, <2>3, <2>4, RollFields, WallTotals
  <1>6. CASE PublishState
    <2>1. /\ UNCHANGED <<now, lossy, truth>> /\ saved' \in {risk', saved}
          /\ risk' = Roll(risk, now)
      BY <1>6 DEF PublishState
    <2>2. /\ risk'.daily = Roll(risk, now).daily + 0
          /\ risk'.weekly = Roll(risk, now).weekly + 0
          /\ truth'.daily = truth.daily + 0
          /\ truth'.weekly = truth.weekly + 0
      BY <1>1, <2>1 DEF RiskState, Truth
    <2> QED BY <1>1, <2>1, <2>2, RollFields, WallTotals
  <1>7. CASE SyncEmergency \/ Expire \/ Crash
    BY <1>2, <1>7 DEF SyncEmergency, Expire, Crash
  <1>8. CASE Restart
    BY <1>8, RestartTotals
  <1>9. CASE Tick
    BY <1>9, TickTotals
  <1>10. CASE UNCHANGED vars
    BY <1>2, <1>10 DEF vars
  <1> QED
    BY <1>3, <1>4, <1>5, <1>6, <1>7, <1>8, <1>9, <1>10 DEF Next

\* The totals the caps are computed from are those of the wall day and week,
\* and no trade of the day is forgotten, for every calendar and offset of the
\* bar clock and over every crash, unless a drop of counts has been reported.
THEOREM RiskTotalsExact == Spec => []TotalsExact
  <1>1. TotalsInv => TotalsExact
    BY DEF TotalsInv, Counts, TotalsExact
  <1> QED
    BY <1>1, InitTypeOK, NextTypeOK, InitTotals, NextTotals, PTL DEF Spec

\* No entry is made with the booked loss of its wall day or week at the cap:
\* approve() compares the totals of the bar clock, and those are the booked
\* ones whenever the step drops no counts.
THEOREM RiskLossCapsEnforced == Spec => LossCapsEnforced
  <1> DEFINE Capped == entries' > entries =>
                 \/ lossy'
                 \/ /\ ~AtCap(truth.daily, lastEquity', DailyPct)
                    /\ ~AtCap(truth.weekly, lastEquity', WeeklyPct)
  <1>1. TypeOK /\ TotalsInv /\ [Next]_vars => [Capped]_vars
    <2> SUFFICES ASSUME TypeOK, TotalsInv, Next, entries' > entries, ~lossy'
                 PROVE  /\ ~AtCap(truth.daily, lastEquity', DailyPct)
                        /\ ~AtCap(truth.weekly, lastEquity', WeeklyPct)
      OBVIOUS
    <2>1. entries' # entries
      BY DEF TypeOK
    <2>2. \E side \in Sides, equity \in Equities, seen \in SeenPositions,
             recorded \in BOOLEAN : Enter(side, equity, seen, recorded)
      BY <2>1
      DEF Next, Approve, NoOrder, HitDailyCap, HitWeeklyCap, ActivatePause,
          AccountUnavailable, VetoPaused, ClosePosition, RecordPnl,
          PublishState, SyncEmergency, Expire, Crash, Restart, Tick
    <2>3. /\ ~AtCap(Rolled.daily, lastEquity', DailyPct)
          /\ ~AtCap(Rolled.weekly, lastEquity', WeeklyPct)
          /\ ~lossy /\ ~Disagree
      BY <2>2 DEF Enter, BelowCaps
    <2> QED BY <2>3, RolledCounts
  <1> QED
    BY <1>1, InitTypeOK, NextTypeOK, InitTotals, NextTotals, PTL
    DEF Spec, LossCapsEnforced
=============================================================================
