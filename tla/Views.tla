-------------------------------- MODULE Views --------------------------------
(***************************************************************************)
(* What the dashboard's reading endpoints answer, from a journal's content *)
(* (`kind` is its store) and from the entries of the streams. A stream is  *)
(* the sequence of its entries as they were added. Times on bars and on    *)
(* what is stored are the broker's; `now` is our own clock.                *)
(***************************************************************************)
EXTENDS Review

CONSTANTS
    LeastFetch,           \* trades the trade list reads at least
    MaxOverlays,          \* snapshots the overlay reads
    MaxBars,              \* entries of a stream the chart reads
    HourLength, EndOfTime

-----------------------------------------------------------------------------
\* The chart: a bar is [time, symbol, open, high, low, close, vol]

\* The newest entries of one stream by the time of their bar. They are read newest first and the
\* last one read stays, so of a bar added twice the first is shown.
HasBar(e, symbol) == e.readable /\ e.bar.symbol = symbol
BarsOf(entries, symbol, n) ==
    LET first == IF Len(entries) > n THEN Len(entries) - n + 1 ELSE 1
        mine == {i \in first .. Len(entries) : HasBar(entries[i], symbol)}
        kept == {i \in mine : \A j \in mine : entries[j].bar.time = entries[i].bar.time => i <= j}
    IN  [t \in {entries[i].bar.time : i \in kept} |->
            entries[CHOOSE i \in kept : entries[i].bar.time = t].bar]

Most(values) == CHOOSE v \in values : \A w \in values : w <= v
Fewest(values) == CHOOSE v \in values : \A w \in values : v <= w

\* One candle out of the bars of a period
Candle(key, g) ==
    LET times == DOMAIN g
    IN  [time |-> key, open |-> g[Fewest(times)].open, close |-> g[Most(times)].close,
         high |-> Most({g[t].high : t \in times}), low |-> Fewest({g[t].low : t \in times}),
         vol |-> FoldSet(LAMBDA t, acc : acc + g[t].vol, 0, times)]

Bucket(t, minutes) == (t \div minutes) * minutes
Resample(bars, minutes) ==
    {Candle(k, [t \in {u \in DOMAIN bars : Bucket(u, minutes) = k} |-> bars[t]]) :
        k \in {Bucket(u, minutes) : u \in DOMAIN bars}}

CandleTime(k) == k.time
FetchOnce(count, minutes) == IF count * minutes < MaxBars THEN count * minutes ELSE MaxBars
FetchCount(count, minutes) == IF count * minutes * 2 < MaxBars THEN count * minutes * 2 ELSE MaxBars

\* A bar of the live stream replaces the one of the history. With no bar in either the chart
\* falls back to the journal's snapshots, which carry none.
Over(live, old) ==
    [t \in DOMAIN live \cup DOMAIN old |-> IF t \in DOMAIN live THEN live[t] ELSE old[t]]
Candles(history, ticks, symbol, count, minutes) ==
    LET n == FetchCount(count, minutes)
    IN  Newest(Resample(Over(BarsOf(ticks, symbol, n), BarsOf(history, symbol, n)), minutes), CandleTime, count)

\* The newest snapshot with overlays, and the points of its curve after the anchor
Overlays(kind, c, now, anchor) ==
    LET drawn == {s \in ListSnapshots(kind, c, now - 2 * DayLength, now + DayLength, MaxOverlays, TRUE) : s.overlay}
        latest == Most({s.bar : s \in drawn})
        offset == HourLength * ((2 * (latest - now) + HourLength) \div (2 * HourLength))
    IN  IF drawn = {} THEN None
        ELSE [bar |-> latest, curve |-> {s.bar : s \in {o \in drawn : o.bar > anchor + offset}}]

-----------------------------------------------------------------------------
\* The journal

\* An instrument and its broker's names for it begin alike
SameInstrument(a, b) == IsPrefix(a, b) \/ IsPrefix(b, a)

\* More trades than asked for, the oldest of the journal, then the newest of these
JournalTrades(kind, c, limit, symbol) ==
    LET n == IF 4 * limit > LeastFetch THEN 4 * limit ELSE LeastFetch
    IN  Newest({t \in ListTrades(kind, c, 0, EndOfTime, n) : SameInstrument(t.symbol, symbol)}, Opened, limit)

\* Round to the nearest hour, as the age of the newest bar tells the broker's clock from ours
BrokerNow(now, bar) ==
    IF bar = None THEN now ELSE now + HourLength * ((2 * (bar - now) + HourLength) \div (2 * HourLength))

PeriodStart(period, end) ==
    CASE period = "today" -> (end \div DayLength) * DayLength
      [] period = "last_24h" -> end - DayLength
      [] period = "last_week" -> end - 7 * DayLength
      [] period = "last_month" -> end - 30 * DayLength
      [] period = "all" -> 0

Aggregate(kind, c, period, now, bar) ==
    LET end == BrokerNow(now, bar)
        trades == ListTrades(kind, c, PeriodStart(period, end), end, MaxRows)
        closed == {t \in trades : t.r # None /\ t.pnl # None}
    IN  [trades |-> Cardinality(trades), closed |-> Cardinality(closed),
         wins |-> Cardinality({t \in closed : t.pnl > 0}),
         losses |-> Cardinality({t \in closed : t.pnl < 0}), total |-> SumOf(closed, Pnl)]
=============================================================================
