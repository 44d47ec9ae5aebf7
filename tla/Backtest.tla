------------------------------- MODULE Backtest -------------------------------
(***************************************************************************)
(* One run of the backtest engine over a range of bars, the report it      *)
(* draws from its journal, the tape it records and the offline replay of   *)
(* the tape. Whether a bar brings a qualified decision the zone registry   *)
(* and the risk manager let through is a choice: DecisionEngine, ZoneLock  *)
(* and RiskManager model them.                                             *)
(* Positions and tape entries keep their prices on the signed axis.        *)
(***************************************************************************)
EXTENDS TradePlan

CONSTANTS
    Shapes,        \* the bars the market may make; session, and the band and type of a signal with them
    MaxBars, MaxTrades,
    ListLimit,     \* default limit of list_trades
    Budget,        \* money the risk manager grants a trade
    Slippage,      \* [base, factor]: points, and percent of the bar's range
    Spread,        \* the same, and how many times it is that in a news blackout
    Exit,          \* [tp1, tp2: percent; be, activate: R; buffer, chandelier: ATRs; bonus]
    AtrFloor, Initial

EntryTypes == {"scout", "reduced", "full"}
SessionNames == {"asia", "london", "ny", "overlap", "closed"}
ScoreBands == {"below", "observe", "prepare", "reduced", "full"}
\* The validators of the cost models, the exit settings and the bar; the setup
\* types, sessions and bands the schemas name
ASSUME BacktestAssumption ==
    /\ Budget \in Nat /\ AtrFloor \in Nat /\ Initial \in Int /\ ListLimit \in Nat
    /\ Slippage \in [base : Nat, factor : Nat]
    /\ Spread \in [base : Nat, factor : Nat, times : Nat \ {0}]
    /\ Exit \in [tp1 : Nat, tp2 : Nat, be : Nat, activate : Nat, buffer : Nat, chandelier : Nat, bonus : Int]
    /\ \A bar \in Shapes :
        LET level == Int \cup {None}
        IN  /\ {bar.low, bar.high, bar.close, bar.atr} \subseteq Int
            /\ bar.low <= bar.close /\ bar.close <= bar.high
            /\ {bar.weekend, bar.news} \subseteq BOOLEAN /\ bar.swings \in [Sides -> level] /\ bar.centers \subseteq Int
            /\ bar.gaps # None => bar.gaps \in Seq([bull : BOOLEAN, top : Int, bottom : Int])
            /\ bar.profiles \in Seq([vah : level, val : level, vpoc : level])
            /\ bar.type \in EntryTypes /\ bar.session \in SessionNames /\ bar.band \in ScoreBands

VARIABLES
    phase,    \* "run" | "done"
    bars,     \* the bars so far, also those of the tape
    open,     \* open positions by trade
    journal,  \* the trades
    balance,  \* of the paper account
    booked,   \* what the risk manager was told
    entries,  \* the entries of the tape
    report
backtestVars == <<phase, bars, open, journal, balance, booked, entries, report>>

Best(side, bar) == Signed(side, IF side = "long" THEN bar.high ELSE bar.low)
Worst(side, bar) == Signed(side, IF side = "long" THEN bar.low ELSE bar.high)
Total(s) ==
    LET sum[n \in 0..Len(s)] == IF n = 0 THEN 0 ELSE sum[n - 1] + s[n]
    IN  sum[Len(s)]
SumOver(f) == FoldFunction(LAMBDA a, b : a + b, 0, f)

-----------------------------------------------------------------------------
\* models.py: fixed and volatility models and their chains come to a base and
\* a share of the bar's range.
OnRange(model, bar) == model.base + (model.factor * (bar.high - bar.low)) \div 100
SlippageOf(bar) == OnRange(Slippage, bar)
SpreadOf(bar) == OnRange(Spread, bar) * (IF bar.news THEN Spread.times ELSE 1)

\* A bundle without a liquidity target gets one on each side of the close
MarketOf(bar) ==
    LET reach == (3 * (IF bar.atr > 0 THEN bar.atr ELSE AtrFloor)) \div 4
    IN  [swings |-> bar.swings, atr |-> bar.atr, gaps |-> bar.gaps, profiles |-> bar.profiles,
         centers |-> IF bar.centers = {} THEN {bar.close - reach, bar.close + reach} ELSE bar.centers]

-----------------------------------------------------------------------------
\* The walk of an open position over a bar

PartialClose(p, percent, price) ==
    LET volume == (p.initial * percent) \div 100
    IN  IF volume < VolumeMin \/ volume >= p.volume THEN p
        ELSE [p EXCEPT !.realized = @ + (price - p.entry) * volume * Contract,
                       !.volume = @ - volume]

\* The first target arms the trail even when its part is too small to close.
TakeFirst(p, bar) ==
    IF ~p.tp1Taken /\ Best(p.side, bar) >= p.tp1
    THEN [PartialClose(p, Exit.tp1, p.tp1) EXCEPT !.tp1Taken = TRUE, !.armed = TRUE] ELSE p
TakeSecond(p, bar) ==
    IF ~p.tp2Taken /\ Best(p.side, bar) >= p.tp2
    THEN [PartialClose(p, Exit.tp2, p.tp2) EXCEPT !.tp2Taken = TRUE] ELSE p

Ratchet(p, bar) ==
    LET best == Best(p.side, bar)
        peak == Max({p.peak, best})
        armed == p.armed \/ (Exit.activate > 0 /\ best - p.entry >= Exit.activate * p.dist)
        atBreakEven == p.tp1Taken \/ (Exit.be > 0 /\ peak - p.entry >= Exit.be * p.dist)
        swing == IF bar.swings[p.side] = None THEN None ELSE Signed(p.side, bar.swings[p.side])
    IN  [p EXCEPT !.peak = peak, !.armed = armed,
                  !.sl = IF armed THEN Trail(@, p.entry, peak, swing, bar.atr, atBreakEven, Exit)
                         ELSE @]

Leaves(p, price) == [position |-> p, exit |-> price]
\* Stop, weekend, the targets, the runner, the trail: in this order
WalkPosition(p, bar) ==
    LET q == TakeSecond(TakeFirst(p, bar), bar)
        close == Signed(p.side, bar.close)
    IN  IF Worst(p.side, bar) <= p.sl THEN Leaves(p, p.sl)
        ELSE IF bar.weekend THEN Leaves(p, close)
        ELSE IF Best(p.side, bar) >= p.tp3 THEN Leaves(q, p.tp3)
        ELSE IF q.armed /\ ShouldCloseRunner(p.side, p.tp3, close, bar.event) THEN Leaves(q, close)
        ELSE Leaves(Ratchet(q, bar), None)

LastLeg(w) ==
    IF w.exit = None THEN 0 ELSE (w.exit - w.position.entry) * w.position.volume * Contract
\* Mutant: what the partial closes realised is forgotten.
ClosedTradeLastLeg(trade, w) == [trade EXCEPT !.pnl = LastLeg(w), !.closed = Len(bars) + 1]
\* A trade of the journal that the walk w has closed
ClosedTrade(trade, w) ==
    [trade EXCEPT !.pnl = w.position.realized + LastLeg(w), !.closed = Len(bars) + 1]

\* What the walk w of open trade t brings
Gain(t, w) == w.position.realized - open[t].realized + LastLeg(w)

-----------------------------------------------------------------------------
\* The report

Before(ts, i, j) == ts[i].closed < ts[j].closed \/ (ts[i].closed = ts[j].closed /\ i < j)
\* Cumulative result of the closed trades in the order they were closed
EquityCurve(ts) ==
    LET closed == {i \in DOMAIN ts : ts[i].pnl # None}
    IN  [k \in 1..Cardinality(closed) |->
            MapThenSumSet(LAMBDA i : ts[i].pnl,
                {i \in closed : Cardinality({j \in closed : Before(ts, j, i)}) < k})]

\* Mutant: the peak follows the curve down.
MaxDrawdownLastPeak(curve) ==
    FoldLeft(LAMBDA s, e : [peak |-> e, worst |-> Max({s.worst, s.peak - e})],
             [peak |-> IF curve = <<>> THEN 0 ELSE curve[1], worst |-> 0], curve).worst
MaxDrawdown(curve) ==
    FoldLeft(LAMBDA s, e : LET peak == Max({s.peak, e})
                           IN  [peak |-> peak, worst |-> Max({s.worst, peak - e})],
             [peak |-> IF curve = <<>> THEN 0 ELSE curve[1], worst |-> 0], curve).worst

\* Bucket of a result in R: -3 .. 3
Bucket(pnl, risk) ==
    CASE pnl <= -3 * risk -> -3
      [] -3 * risk < pnl /\ pnl <= -2 * risk -> -2
      [] -2 * risk < pnl /\ pnl <= -risk -> -1
      [] -risk < pnl /\ pnl < risk -> 0
      [] risk <= pnl /\ pnl < 2 * risk -> 1
      [] 2 * risk <= pnl /\ pnl < 3 * risk -> 2
      [] pnl >= 3 * risk -> 3
RDistribution(ts) ==
    [b \in -3..3 |-> Cardinality({i \in DOMAIN ts : ts[i].pnl # None /\ Bucket(ts[i].pnl, ts[i].risk) = b})]

\* Counts and results of the trades by the value of one of their fields
Breakdown(ts, field, values) ==
    [v \in values |->
        LET results == {i \in DOMAIN ts : ts[i][field] = v /\ ts[i].pnl # None}
        IN  [count |-> Cardinality({i \in DOMAIN ts : ts[i][field] = v}), closed |-> Cardinality(results),
             wins |-> Cardinality({i \in results : ts[i].pnl > 0}),
             losses |-> Cardinality({i \in results : ts[i].pnl < 0}),
             total |-> MapThenSumSet(LAMBDA i : ts[i].pnl, results)]]
SetupBreakdown(ts) == Breakdown(ts, "type", EntryTypes)
SessionStats(ts) == Breakdown(ts, "session", SessionNames)
BandStats(ts) == Breakdown(ts, "band", ScoreBands)

\* list_trades: the first ListLimit trades by opening time
Listed(ts) == SubSeq(ts, 1, Min({Len(ts), ListLimit}))
ReportOf(ts) ==
    LET listed == Listed(ts)
        results == [i \in DOMAIN listed |-> listed[i].pnl]
        Count(P(_)) == Cardinality({i \in DOMAIN results : P(results[i])})
    IN  [trades |-> Len(listed), wins |-> Count(LAMBDA x : x > 0), losses |-> Count(LAMBDA x : x < 0),
         breakeven |-> Count(LAMBDA x : x = 0), equity |-> Initial + Total(results),
         curve |-> EquityCurve(listed), drawdown |-> MaxDrawdown(EquityCurve(listed)),
         distribution |-> RDistribution(listed),
         groups |-> {SetupBreakdown(listed), SessionStats(listed), BandStats(listed)}]

-----------------------------------------------------------------------------
\* exit_replay.py

\* A part of the entry is closed at a target.
ReplayTake(e, s, percent, price) ==
    LET part == (e.volume * percent) \div 100
    IN  IF part < VolumeMin \/ part >= s.volume THEN s
        ELSE [s EXCEPT !.realized = @ + (price - e.price) * part * Contract, !.volume = @ - part]

\* One bar of the replay of entry e: s is the local state of replay_entry
ReplayBar(e, s, bar) ==
    LET best == Best(e.side, bar)
        close == Signed(e.side, bar.close)
        one == IF ~s.tp1 /\ best >= e.tp1
               THEN [ReplayTake(e, s, Exit.tp1, e.tp1) EXCEPT !.tp1 = TRUE, !.armed = TRUE] ELSE s
        two == IF ~one.tp2 /\ best >= e.tp2
               THEN [ReplayTake(e, one, Exit.tp2, e.tp2) EXCEPT !.tp2 = TRUE] ELSE one
        peak == Max({s.peak, best})
        risk == IF e.price = e.sl THEN 1 ELSE Distance(e.price, e.sl)
        armed == two.armed \/ (Exit.activate > 0 /\ best - e.price >= Exit.activate * risk)
        floor == two.tp1 \/ (Exit.be > 0 /\ peak - e.price >= Exit.be * risk)
        swing == IF bar.swings[e.side] = None THEN None ELSE Signed(e.side, bar.swings[e.side])
    IN  IF s.exit # None THEN s
        ELSE IF Worst(e.side, bar) <= s.sl THEN [s EXCEPT !.exit = s.sl]
        ELSE IF bar.weekend THEN [s EXCEPT !.exit = close]
        ELSE IF best >= e.tp3 THEN [two EXCEPT !.exit = e.tp3]
        ELSE IF two.armed /\ ShouldCloseRunner(e.side, e.tp3, close, bar.event)
             THEN [two EXCEPT !.exit = close]
        ELSE [two EXCEPT !.peak = peak, !.armed = armed,
                !.sl = IF armed THEN Trail(@, e.price, peak, swing, bar.atr, floor, Exit) ELSE @]

ReplayStart(e) ==
    [sl |-> e.sl, volume |-> e.volume, realized |-> 0, peak |-> e.price,
     tp1 |-> FALSE, tp2 |-> FALSE, armed |-> FALSE, exit |-> None]
ReplayState(e, after) ==
    LET s[n \in 0..Len(after)] == IF n = 0 THEN ReplayStart(e) ELSE ReplayBar(e, s[n - 1], after[n])
    IN  s[Len(after)]
\* What is left is closed at the last close of the tape.
ReplayResult(e, s, last) ==
    s.realized + ((IF s.exit = None THEN Signed(e.side, last.close) ELSE s.exit) - e.price)
                    * s.volume * Contract

\* Mutant: the replay starts with the bar of the entry.
ReplayFromEntry(e, tape) == ReplayResult(e, ReplayState(e, tape), Last(tape))
\* The result of entry e over the tape that begins with the bar of its entry:
\* nothing when that is the only bar
Replay(e, tape) == IF Len(tape) = 1 THEN 0 ELSE ReplayResult(e, ReplayState(e, Tail(tape)), Last(tape))
ReplayTape == [k \in DOMAIN entries |-> Replay(entries[k], SubSeq(bars, entries[k].bar, Len(bars)))]

-----------------------------------------------------------------------------
BacktestInit ==
    /\ phase = "run"
    /\ bars = <<>> /\ open = << >> /\ journal = <<>> /\ entries = <<>>
    /\ balance = Initial /\ booked = 0
    /\ report = None

\* The position a plan opens, at half the spread and the slippage from the close
Opened(plan, bar) ==
    LET fill == Signed(plan.side, bar.close) + SpreadOf(bar) \div 2 + SlippageOf(bar)
    IN  [side |-> plan.side, entry |-> fill, sl |-> plan.sl, tp1 |-> plan.tp1, tp2 |-> plan.tp2,
         tp3 |-> plan.tp3, volume |-> plan.volume, initial |-> plan.volume,
         dist |-> IF fill = plan.sl THEN 1 ELSE Distance(fill, plan.sl), peak |-> fill,
         tp1Taken |-> FALSE, tp2Taken |-> FALSE, armed |-> FALSE, realized |-> 0]

\* Books the walks of the open positions and the entry at the close of bar, if any
Book(bar, walks, entry) ==
    LET gain == Total([t \in DOMAIN journal |-> IF t \in DOMAIN walks THEN Gain(t, walks[t]) ELSE 0])
        staying == {t \in DOMAIN walks : walks[t].exit = None}
        closed == [t \in DOMAIN journal |->
                    IF t \in DOMAIN walks \ staying THEN ClosedTrade(journal[t], walks[t]) ELSE journal[t]]
        new == Len(journal) + 1
    IN  /\ balance' = balance + gain
        /\ booked' = booked + gain
        /\ IF entry = None
           THEN /\ open' = [t \in staying |-> walks[t].position]
                /\ journal' = closed
                /\ UNCHANGED entries
           ELSE /\ open' = [t \in staying \cup {new} |-> IF t = new THEN entry ELSE walks[t].position]
                /\ journal' = Append(closed, [side |-> entry.side, entry |-> entry.entry, sl |-> entry.sl,
                        cost |-> entry.entry - Signed(entry.side, bar.close),
                        volume |-> entry.initial, risk |-> Budget, pnl |-> None, closed |-> 0,
                        type |-> bar.type, session |-> bar.session, band |-> bar.band])
                /\ entries' = Append(entries, [trade |-> new, side |-> entry.side, price |-> entry.entry,
                        sl |-> entry.sl, tp1 |-> entry.tp1, tp2 |-> entry.tp2, tp3 |-> entry.tp3,
                        volume |-> entry.initial, risk |-> Budget, bar |-> Len(bars) + 1])

\* Whether the plan for an entry at the close of bar comes to an order
Tradable(side, bar) ==
    LET plan == Plan(side, bar.close, MarketOf(bar), [levels |-> {}, rr |-> <<None, None>>], Budget)
    IN  /\ plan.sl # 0
        /\ Signed(side, bar.close) # plan.sl
        /\ plan.volume > 0

\* One bar of the run: the open positions are walked, then a signal is traded.
RunBar(bar, signal) ==
    LET walks == [t \in DOMAIN open |-> WalkPosition(open[t], bar)]
        plan == Plan(signal, bar.close, MarketOf(bar), [levels |-> {}, rr |-> <<None, None>>], Budget)
    IN  /\ phase = "run" /\ Len(bars) < MaxBars
        /\ signal # None => Len(journal) < MaxTrades
        /\ Book(bar, walks, IF signal # None /\ Tradable(signal, bar) THEN Opened(plan, bar) ELSE None)
        /\ bars' = Append(bars, bar)
        /\ UNCHANGED <<phase, report>>

\* The end of the range, or max_bars: what is open is closed at the last close.
Finish ==
    LET bar == Last(bars)
        walks == [t \in DOMAIN open |-> Leaves(open[t], Signed(open[t].side, bar.close))]
    IN  /\ phase = "run" /\ bars # <<>>
        /\ Book(bar, walks, None)
        /\ phase' = "done"
        /\ report' = ReportOf(journal')
        /\ UNCHANGED bars

BacktestNext ==
    \/ \E bar \in Shapes, signal \in Sides \cup {None} : RunBar(bar, signal)
    \/ Finish

BacktestSpec == BacktestInit /\ [][BacktestNext]_backtestVars

-----------------------------------------------------------------------------
\* Replaying the tape with the settings of the run gives every trade the result
\* the engine booked for it; an entry on the last bar excepted, which the
\* replay counts as nothing (exit_replay.py:13-16).
ReplayMirrorsEngine ==
    phase = "done" => \A k \in DOMAIN entries :
        entries[k].bar < Len(bars) => ReplayTape[k] = journal[entries[k].trade].pnl

\* The paper account and the risk manager have booked, leg by leg, exactly what
\* the journal says of closed trades and the open ones have realised.
BalanceIsBooked ==
    /\ DOMAIN open = {t \in DOMAIN journal : journal[t].pnl = None}
    /\ booked = balance - Initial
    /\ booked = Total([t \in DOMAIN journal |->
                        IF journal[t].pnl = None THEN open[t].realized ELSE journal[t].pnl])

\* No trade loses more than the risk granted, within the sizer's tolerance, and
\* the cost of its fill: through any path of partial closes and stop moves.
LossWithinBudget ==
    \A t \in DOMAIN journal : journal[t].pnl # None =>
        100 * (-journal[t].pnl - journal[t].cost * journal[t].volume * Contract)
            <= journal[t].risk * (100 + RiskTolerance)

\* The report is about every trade, up to the limit of the journal's listing:
\* its equity is the account's, its counts, buckets and groups add up, and its
\* drawdown is the worst fall between two points of its curve.
ReportAddsUp ==
    phase = "done" =>
        /\ Len(journal) <= ListLimit => report.equity = balance
        /\ report.wins + report.losses + report.breakeven = report.trades
        /\ SumOver(report.distribution) = report.trades
        /\ \A g \in report.groups : /\ SumOver([v \in DOMAIN g |-> g[v].count]) = report.trades
                                   /\ SumOver([v \in DOMAIN g |-> g[v].total]) = report.equity - Initial
        /\ report.drawdown = Max({0} \cup UNION {{report.curve[i] - report.curve[j] :
                                j \in i..Len(report.curve)} : i \in DOMAIN report.curve})
=============================================================================
