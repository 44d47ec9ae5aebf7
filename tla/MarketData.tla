----------------------------- MODULE MarketData -----------------------------
(***************************************************************************)
(* From the terminal's chart to a FeaturesEvent: the live data collector   *)
(* polls the last two bars and publishes the closed one on market_ticks;   *)
(* the feature engine warms its buffers up from the terminal, reads the    *)
(* broker's clock offset off the newest bar, takes the bars from the       *)
(* stream, and assembles a bundle per bar. The stream delivers in order    *)
(* and at most once (OnceInOrder): what a fault strands in the group's     *)
(* pending list, and what is trimmed unread, never comes. The chart-only   *)
(* streams are left out.                                                   *)
(* A step of the clock is a minute; the market may pause for hours.        *)
(***************************************************************************)
EXTENDS Features

CONSTANTS
    Shapes,        \* what a finished minute may look like: [o, h, l, c, v]
    Start,         \* the first minute on the broker's clock
    Pauses,        \* minutes the market may be closed for
    TrueOffset,    \* broker clock minus UTC, a multiple of 60
    News,          \* the calendar the provider serves: [ts (UTC), high]
    Charts,        \* charts the feature engines are compared on
    WarmupBars,    \* warmup_bars
    MaxHistory,    \* max_history_bars
    DeepHistory,   \* volume_profile_history_bars, 0 for none
    TicksMaxLen,   \* the cap of market_ticks (stream_maxlen)
    MaxBars, MaxFailures  \* bounds

ASSUME MarketAssumption ==
    /\ Shapes \subseteq [o : Int, h : Int, l : Int, c : Int, v : Nat] /\ None \notin Int
    /\ Start \in Int /\ Pauses \subseteq Nat /\ TrueOffset \in Int /\ TrueOffset % 60 = 0
    /\ News \subseteq [ts : Int, high : BOOLEAN] /\ PreNews \in Nat /\ PostNews \in 0..1440
    /\ WarmupBars \in Nat /\ DeepHistory \in Nat /\ MaxHistory \in Nat \ {0}
    /\ TicksMaxLen \in Nat \ {0}
ASSUME ChartsAssumption ==
    \A bars \in Charts : /\ bars \in Seq([t : Int, o : Int, h : Int, l : Int, c : Int, v : Nat])
                         /\ \A i, j \in DOMAIN bars : i < j => bars[i].t < bars[j].t

VARIABLES
    chart,    \* the closed bars of the terminal
    now,      \* the minute of the newest bar, on the broker's clock
    idle,     \* minutes since then
    ticks,    \* market_ticks: the times of the bars published
    col,      \* the collector: up, last (last_time), polled (this minute)
    fe,       \* the feature engine: up, bars and deep (its buffers), offset,
              \* calendar (the provider's cache); history: warm (did the
              \* warm-up succeed), fresh (was the newest bar new then), lost
              \* (entries of ticks this process will never be handed)
    taken,    \* entries of ticks behind the group's cursor and looked at
    out,      \* the newest FeaturesEvent: ts, blackout, previous (the locked
              \* profile); history: sure (offset and calendar were there)
    skipped,  \* history: minutes that passed without a poll
    failures

marketVars == <<chart, now, idle, ticks, col, fe, taken, out, skipped, failures>>

Failure == failures < MaxFailures /\ failures' = failures + 1
BarOf(t, s) == [t |-> t, o |-> s.o, h |-> s.h, l |-> s.l, c |-> s.c, v |-> s.v]
NoFeatures == [up |-> FALSE, bars |-> <<>>, deep |-> <<>>, offset |-> 0,
               calendar |-> {}, warm |-> FALSE, fresh |-> FALSE, lost |-> {}]

MarketInit ==
    /\ \E s \in Shapes : chart = <<BarOf(Start, s)>>
    /\ now = Start + 1 /\ idle = 0
    /\ ticks = <<>> /\ taken = 0
    /\ col = [up |-> FALSE, last |-> None, polled |-> TRUE]
    /\ fe = NoFeatures /\ out = None
    /\ skipped = 0 /\ failures = 0

-----------------------------------------------------------------------------
\* The terminal

\* The bar that is forming, as far as it has got: its first tick
Forming ==
    LET p == Last(chart).c IN [t |-> now, o |-> p, h |-> p, l |-> p, c |-> p, v |-> 1]
\* get_rates: the newest n bars, the forming one included
GetRates(n) == LastN(Append(chart, Forming), n)

\* A minute ends and the next bar begins, perhaps after a pause. A collector
\* that is down or slower than a minute has not looked.
Minute(shape) ==
    /\ Len(chart) < MaxBars
    /\ chart' = Append(chart, BarOf(now, shape))
    /\ now' = now + 1 + idle /\ idle' = 0
    /\ IF col.up /\ ~col.polled THEN Failure ELSE UNCHANGED failures
    /\ skipped' = skipped + (IF col.polled THEN 0 ELSE 1)
    /\ col' = [col EXCEPT !.polled = FALSE]
    /\ UNCHANGED <<ticks, fe, taken, out>>
\* The market closes; the newest bar grows old. Only a feature engine that
\* starts meanwhile looks at its age.
Pause(n) ==
    /\ idle = 0 /\ ~fe.up /\ idle' = n
    /\ UNCHANGED <<chart, now, ticks, col, fe, taken, out, skipped, failures>>

-----------------------------------------------------------------------------
\* The stream

\* The entries up to k pass a feature engine by that has not seen them.
PassBy(k) ==
    /\ taken' = k
    /\ fe' = IF fe.up THEN [fe EXCEPT !.lost = @ \cup (taken + 1)..k] ELSE fe

\* Entries handed to the consumer do not reach its handler: the reply is lost,
\* or a failed xack ends consume() in the middle of a batch. Nobody asks for
\* them again.
BusLoses ==
    /\ fe.up /\ Failure
    /\ \E k \in (taken + 1)..Len(ticks) : PassBy(k)
    /\ UNCHANGED <<chart, now, idle, ticks, col, out, skipped>>

\* XADD with MAXLEN ~: some of the oldest entries may go, read or not, as long
\* as the newest TicksMaxLen stay.
Trim ==
    \E cut \in taken..Len(ticks) :
        /\ cut = taken \/ Len(ticks) + 1 - cut >= TicksMaxLen
        /\ PassBy(cut)

-----------------------------------------------------------------------------
\* The collector

CollectorStarts ==
    /\ ~col.up /\ col' = [up |-> TRUE, last |-> None, polled |-> FALSE]
    /\ UNCHANGED <<chart, now, idle, ticks, fe, taken, out, skipped, failures>>
CollectorDies ==
    /\ col.up /\ Failure /\ col' = [col EXCEPT !.up = FALSE]
    /\ UNCHANGED <<chart, now, idle, ticks, fe, taken, out, skipped>>

\* Mutant: the forming bar's time is remembered.
RememberForming(recent) == Last(recent).t
Remember(recent) == recent[1].t
\* _run_live: the older of the last two bars is closed.
Poll ==
    /\ col.up /\ ~col.polled
    /\ LET recent == GetRates(2)
       IN  IF recent[1].t # col.last
           THEN /\ ticks' = Append(ticks, recent[1].t) /\ Trim
                /\ col' = [up |-> TRUE, last |-> Remember(recent), polled |-> TRUE]
           ELSE /\ col' = [col EXCEPT !.polled = TRUE] /\ UNCHANGED <<ticks, fe, taken>>
    /\ UNCHANGED <<chart, now, idle, out, skipped, failures>>
\* The publish raises: nothing catches it, the process ends.
PollPublishFails ==
    /\ col.up /\ ~col.polled /\ GetRates(2)[1].t # col.last
    /\ Failure /\ col' = [col EXCEPT !.up = FALSE]
    /\ UNCHANGED <<chart, now, idle, ticks, fe, taken, out, skipped>>

-----------------------------------------------------------------------------
\* The feature engine

\* Mutant: the distance is cut instead of rounded.
DetectOffsetCut(latest, utc) == 60 * ((latest - utc) \div 60)
DetectOffset(latest, utc) == 60 * ((latest - utc + 30) \div 60)

\* Mutant: only closed bars older than the newest one are fetched.
WarmWithoutNewest == LET r == GetRates(Max({WarmupBars, DeepHistory}) + 2)
                     IN  SubSeq(r, 1, Max({1, Len(r) - 2}))
Warm == GetRates(Max({WarmupBars, DeepHistory}))

\* _run: the warm-up and the offset are best-effort.
FeatureEngineStarts ==
    /\ ~fe.up
    /\ \/ /\ WarmupBars > 0
          /\ fe' = [up |-> TRUE, bars |-> LastN(Warm, WarmupBars),
                    deep |-> IF DeepHistory > 0 THEN Warm ELSE <<>>,
                    offset |-> DetectOffset(Last(Warm).t, now + idle - TrueOffset),
                    calendar |-> {}, warm |-> TRUE, fresh |-> idle < 30, lost |-> {}]
          /\ UNCHANGED failures
       \/ /\ fe' = [NoFeatures EXCEPT !.up = TRUE]
          /\ IF WarmupBars = 0 THEN UNCHANGED failures ELSE Failure
    /\ UNCHANGED <<chart, now, idle, ticks, col, taken, out, skipped>>
\* A batch that was fetched is gone with the process.
FeatureEngineDies ==
    /\ fe.up /\ Failure /\ fe' = NoFeatures
    /\ taken' \in taken..Len(ticks)
    /\ UNCHANGED <<chart, now, idle, ticks, col, out, skipped>>

\* _refresh_if_stale: an empty cache is asked for on every bar.
Calendars(cache) ==
    IF cache # {} THEN {cache}
    ELSE {News} \cup {c \in {{}} : failures < MaxFailures}

BarAt(t) == CHOOSE b \in ToSet(chart) : b.t = t
\* The handler: the bar joins both buffers, the oldest ones leave, and the
\* bundle goes out; a publish that fails loses the bundle, not the bar.
Handle ==
    /\ fe.up /\ taken < Len(ticks)
    /\ LET bar == BarAt(ticks[taken + 1])
           bars == LastN(Append(fe.bars, bar), MaxHistory)
           deep == IF DeepHistory > 0 THEN LastN(Append(fe.deep, bar), DeepHistory)
                   ELSE <<>>
       IN  \E calendar \in Calendars(fe.calendar) :
           \E bundle \in {Compact(Assemble(bars, IF DeepHistory > 0 THEN deep ELSE bars,
                                            bar.t, fe.offset, calendar))} :
             /\ fe' = [fe EXCEPT !.bars = bars, !.deep = deep, !.calendar = calendar]
             /\ \/ /\ out' = [ts |-> bar.t, blackout |-> bundle.news.blackout,
                              previous |-> bundle.vr.previous,
                              sure |-> fe.warm /\ fe.fresh /\ calendar = News]
                   /\ failures' = failures + (IF calendar = News THEN 0 ELSE 1)
                \/ calendar = News /\ Failure /\ UNCHANGED out
    /\ taken' = taken + 1
    /\ UNCHANGED <<chart, now, idle, ticks, col, skipped>>

MarketNext ==
    \/ \E s \in Shapes : Minute(s)
    \/ \E p \in Pauses : Pause(p)
    \/ CollectorStarts \/ CollectorDies \/ Poll \/ PollPublishFails \/ BusLoses
    \/ FeatureEngineStarts \/ FeatureEngineDies \/ Handle

MarketSpec == MarketInit /\ [][MarketNext]_marketVars

-----------------------------------------------------------------------------
\* Each closed bar reaches market_ticks once and in order: nothing goes back,
\* only a new process repeats the newest bar, and a bar between two published
\* ones is missing only for a minute in which nobody polled (_run_live).
BarsAdvance ==
    /\ \A i \in 2..Len(ticks) : ticks[i-1] <= ticks[i]
    /\ Cardinality({i \in 2..Len(ticks) : ticks[i] = ticks[i-1]}) <= failures
    /\ Cardinality({b \in ToSet(chart) : ticks # <<>> /\ ticks[1] < b.t
                       /\ b.t < Last(ticks) /\ b.t \notin ToSet(ticks)}) <= skipped

\* The feature engine's buffer has no hole of its own making: between its
\* oldest bar and the newest entry behind the cursor, every bar the collector
\* published is there, whether it came through the stream, the warm-up or both.
\* A bar is missing only where the bus lost its entry since this process
\* started; what was lost before, and any backlog, the warm-up has made good,
\* unless it failed (_run, handle).
BufferHasNoHole ==
    fe.up /\ fe.warm /\ taken > 0 =>
        LET times == {b.t : b \in ToSet(fe.bars)}
        IN  \A i \in (1..taken) \ fe.lost : ticks[i] >= Min(times) => ticks[i] \in times

\* A bundle for a bar inside the minutes around a high-impact release carries
\* the blackout, if the calendar was there and the engine was started while the
\* market ran (make_news_provider, the offset detection, NewsContextEngine).
BlackoutIsSeen ==
    out # None /\ out.sure =>
        LET utc == out.ts - TrueOffset
        IN  (\E e \in News : e.high /\ e.ts - PreNews <= utc /\ utc <= e.ts + PostNews)
              => out.blackout

\* On no chart do the engines see more of the past once its future is known.
\* The features are pure functions of the bars, so one state is enough to look.
Untouched == ticks = <<>> /\ taken = 0 /\ Len(chart) = 1 /\ idle = 0 /\ ~col.up /\ ~fe.up /\ failures = 0
PointInTime == Untouched => PointInTimeIn(Charts, News)

=============================================================================
