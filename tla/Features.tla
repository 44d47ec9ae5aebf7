------------------------------- MODULE Features -------------------------------
(***************************************************************************)
(* The feature engines: pure functions from a buffer of bars and the time  *)
(* of the newest one to the bundle the decision engine reads. A bar has    *)
(* t, o, h, l, c, v; times are minutes, prices and volumes integers, means *)
(* are rounded down. Percentile ranks, the momentum score and what nothing *)
(* downstream reads are left out.                                          *)
(***************************************************************************)
EXTENDS Integers, Sequences, SequencesExt, FiniteSets, FiniteSetsExt, Functions, Maybe

CONSTANTS
    AtrPeriod,          \* 14
    M5, H1,             \* minutes of the higher time frames
    FractalN,           \* of the M5 structure, 3
    Period,             \* minutes of a volume-profile period
    BinSize, ValuePct,  \* of the profile, 70 percent
    PreNews, PostNews   \* blackout minutes, 15 and 5

Today(utc, minute) == utc - (utc % 1440) + minute
Abs(x) == IF x < 0 THEN -x ELSE x
Total(s) == FoldLeft(LAMBDA n, x : n + x, 0, s)
Mean(s) == Total(s) \div Len(s)
Column(bars, f) == [i \in DOMAIN bars |-> bars[i][f]]
Highest(bars) == Max(ToSet(Column(bars, "h")))
Lowest(bars) == Min(ToSet(Column(bars, "l")))
Ascending(numbers) ==
    [k \in 1..Cardinality(numbers) |->
        CHOOSE x \in numbers : Cardinality({y \in numbers : y < x}) = k - 1]
LastN(s, n) == SubSeq(s, Max({1, Len(s) - n + 1}), Len(s))

-----------------------------------------------------------------------------
\* _indicators.py

\* A stable sort by a key: what was appended first stays first.
By(bars, key(_)) ==
    LET keys == Ascending({key(b) : b \in ToSet(bars)})
    IN  [k \in DOMAIN keys |-> SelectSeq(bars, LAMBDA b : key(b) = keys[k])]
SortedByTime(bars) == FlattenSeq(By(bars, LAMBDA b : b.t))

\* filter_pit: the bars up to ts, in the order they came
Until(bars, ts) ==
    LET upto[n \in 0..Len(bars)] ==
            IF n = 0 THEN <<>>
            ELSE IF bars[n].t <= ts THEN Append(upto[n - 1], bars[n]) ELSE upto[n - 1]
    IN  upto[Len(bars)]

\* Mutant: the cut is missing.
AllBars(bars, ts) == SortedByTime(bars)
\* filter_pit and the sort every engine starts with
PointInTimeBars(bars, ts) == SortedByTime(Until(bars, ts))

\* The last bucket may still be in progress.
RoundByTime(bars, tf) ==
    LET buckets == By(bars, LAMBDA b : b.t \div tf)
    IN  [k \in DOMAIN buckets |->
            LET g == buckets[k]
            IN  [t |-> tf * (g[1].t \div tf), o |-> g[1].o, h |-> Highest(g),
                 l |-> Lowest(g), c |-> g[Len(g)].c, v |-> Total(Column(g, "v"))]]

TrueRange(bars, i) ==
    LET b == bars[i]
    IN  IF i = 1 THEN b.h - b.l
        ELSE Max({b.h - b.l, Abs(b.h - bars[i-1].c), Abs(b.l - bars[i-1].c)})
Atr(bars) ==
    IF Len(bars) < AtrPeriod THEN None
    ELSE Mean(LastN([i \in DOMAIN bars |-> TrueRange(bars, i)], AtrPeriod))
Positive(atr) == atr # None /\ atr > 0

\* The fractal swings of n bars on each side; a bar that is both is a high.
IsHigh(bars, n, i) ==
    \A j \in 1..n : bars[i-j].h < bars[i].h /\ bars[i+j].h < bars[i].h
IsLow(bars, n, i) ==
    \A j \in 1..n : bars[i-j].l > bars[i].l /\ bars[i+j].l > bars[i].l
FindSwings(bars, n) ==
    LET inner == (n + 1)..(Len(bars) - n)
    IN  {[high |-> TRUE, price |-> bars[i].h, i |-> i] : i \in {j \in inner : IsHigh(bars, n, j)}}
          \cup {[high |-> FALSE, price |-> bars[i].l, i |-> i] :
                   i \in {j \in inner : IsLow(bars, n, j) /\ ~IsHigh(bars, n, j)}}

-----------------------------------------------------------------------------
\* fvg.py

\* A gap between the first and the third of three bars
DetectFvgs(bars, tf) ==
    LET up == {i \in 3..Len(bars) : bars[i].l > bars[i-2].h}
        down == {i \in 3..Len(bars) : bars[i].h < bars[i-2].l}
        Zone(i, bull, top, bottom) ==
            [tf |-> tf, bull |-> bull, top |-> top, bottom |-> bottom, at |-> bars[i].t,
             body |-> Abs(bars[i-1].c - bars[i-1].o), status |-> "open", ext |-> None]
    IN  {Zone(i, TRUE, bars[i].l, bars[i-2].h) : i \in up}
          \cup {Zone(i, FALSE, bars[i-2].l, bars[i].h) : i \in down}

\* Closes mitigate, wicks do not.
RefineMitigation(zone, bars) ==
    LET later == {b \in ToSet(bars) : b.t > zone.at}
        filled == \E b \in later : IF zone.bull THEN b.c <= zone.bottom ELSE b.c >= zone.top
        entered == \E b \in later : IF zone.bull THEN b.c <= zone.top ELSE b.c >= zone.bottom
    IN  [zone EXCEPT !.status = IF filled THEN "mitigated"
                                ELSE IF entered THEN "partially_mitigated" ELSE "open"]

\* The base of the last tight run of higher lows (or lower highs)
FinalLegBase(prices, low, step) ==
    FoldRight(LAMBDA p, acc :
                IF acc.done THEN acc
                ELSE LET d == IF low THEN acc.base - p ELSE p - acc.base
                     IN  IF d > 0 /\ d <= step THEN [acc EXCEPT !.base = p]
                         ELSE [acc EXCEPT !.done = TRUE],
              Front(prices), [base |-> Last(prices), done |-> FALSE]).base

\* An H1 zone reaches back to where its impulse began on M1.
ExtendToOrigin(zone, h1, m1, n, step, cap) ==
    LET at == {i \in DOMAIN h1 : h1[i].t = zone.at}
        i == CHOOSE j \in at : TRUE
        window == SelectSeq(m1, LAMBDA b : h1[i-2].t <= b.t /\ b.t < zone.at)
        swings == Ascending({j \in (n + 1)..(Len(window) - n) :
                     IF zone.bull THEN IsLow(window, n, j) ELSE IsHigh(window, n, j)})
        prices == [k \in DOMAIN swings |-> IF zone.bull THEN window[swings[k]].l
                                           ELSE window[swings[k]].h]
        base == FinalLegBase(prices, zone.bull, step)
        depth == IF zone.bull THEN zone.bottom - base ELSE base - zone.top
    IN  IF at = {} \/ i < 3 \/ Len(window) < 2 * n + 1 \/ prices = <<>>
        THEN zone
        ELSE IF depth > 0 /\ (cap = None \/ depth <= cap)
             THEN [zone EXCEPT !.ext = base] ELSE zone

\* size, displacement and status; the loss with age is left out
Rank(z) == (z.top - z.bottom) * (1 + z.body)
             * (CASE z.status = "mitigated" -> 1 [] z.status = "open" -> 10 [] OTHER -> 5)

FvgCompute(bars, ts) ==
    LET m1 == PointInTimeBars(bars, ts)
        h1 == RoundByTime(m1, H1)
        On(series, tf) == {RefineMitigation(z, series) : z \in DetectFvgs(series, tf)}
        atr == Atr(h1)
        step == IF Positive(atr) THEN atr \div 2 ELSE 5
        cap == IF Positive(atr) THEN 2 * atr ELSE None
        zones == {ExtendToOrigin(z, h1, m1, 2, step, cap) : z \in On(h1, "H1")}
                   \cup On(RoundByTime(m1, M5), "M5") \cup On(m1, "M1")
    IN  [zones |-> zones,
         top |-> {z \in zones : Cardinality({y \in zones : Rank(y) > Rank(z)}) < 3}]

-----------------------------------------------------------------------------
\* structure.py

\* The swing a close at bar i is compared with: the newest at or before i
SwingBefore(swings, high, i) ==
    LET known == {s \in swings : s.high = high /\ s.i <= i}
    IN  IF known = {} THEN None ELSE CHOOSE s \in known : \A r \in known : r.i <= s.i

\* Walk the bars; an upward break is always a BOS, a downward one after an
\* upward trend a CHOCH: the CHOCH_UP branch is behind one that takes its case.
DetectEvents(bars, swings, minDist, minBars) ==
    FoldLeft(
        LAMBDA acc, i :
            LET c == bars[i].c
                sh == SwingBefore(swings, TRUE, i)
                sl == SwingBefore(swings, FALSE, i)
                event(kind, up) == [kind |-> kind, up |-> up, at |-> bars[i].t, close |-> c]
            IN  IF i - acc.last < minBars THEN acc
                ELSE IF sh # None /\ c > sh.price /\ c - sh.price >= minDist
                THEN [last |-> i, trend |-> "up",
                      events |-> Append(acc.events, event("bos", TRUE))]
                ELSE IF sl # None /\ c < sl.price /\ sl.price - c >= minDist
                THEN [last |-> i, trend |-> "down",
                      events |-> Append(acc.events,
                         event(IF acc.trend = "up" THEN "choch" ELSE "bos", FALSE))]
                ELSE acc,
        [last |-> -10000, trend |-> "range", events |-> <<>>],
        [i \in DOMAIN bars |-> i])

\* A pool is swept by a wick beyond it and a close back inside.
LiquidityPools(swings, bars) ==
    {[high |-> s.high, price |-> s.price, i |-> s.i,
      swept |-> \E i \in (s.i + 1)..Len(bars) :
                   IF s.high THEN bars[i].h > s.price /\ bars[i].c < s.price
                   ELSE bars[i].l < s.price /\ bars[i].c > s.price] : s \in swings}

LastOf(kind, events) ==
    LET of == SelectSeq(events, LAMBDA e : e.kind = kind)
    IN  IF of = <<>> THEN None ELSE Last(of)
\* Bars whose median distance is a whole bucket or more stay as they are.
MaybeResample(bars, tf) ==
    LET gaps == SortSeq([i \in 1..(Len(bars) - 1) |-> bars[i+1].t - bars[i].t], <)
    IN  IF Len(bars) < 2 \/ tf = 1 \/ gaps[Len(gaps) \div 2 + 1] >= tf THEN bars
        ELSE RoundByTime(bars, tf)
StructureCompute(bars, ts, n, minBars, tf) ==
    LET m1 == PointInTimeBars(bars, ts)
        series == MaybeResample(m1, tf)
        swings == FindSwings(series, n)
        atr == Atr(m1)
        walk == DetectEvents(series, swings, IF Positive(atr) THEN atr \div 2 ELSE 0, minBars)
    IN  [swings |-> swings, bos |-> LastOf("bos", walk.events),
         choch |-> LastOf("choch", walk.events), trend |-> walk.trend,
         pools |-> LiquidityPools(swings, series)]

-----------------------------------------------------------------------------
\* liquidity.py: pools closer than the band to the next lower one join it.
Cluster(pools, band) ==
    LET below(p) == {q \in pools : q.price < p.price /\ p.price - q.price <= band}
        starts == {p.price : p \in {q \in pools : below(q) = {}}}
        Of(s) == {p \in pools : s <= p.price /\ \A r \in starts : ~(s < r /\ r <= p.price)}
    IN  {[low |-> s, center |-> MapThenSumSet(LAMBDA p : p.price, Of(s))
                                   \div Cardinality(Of(s)),
          pools |-> Cardinality(Of(s))] : s \in starts}
LiquidityCompute(pools, price, bars, ts) ==
    LET atr == Atr(PointInTimeBars(bars, ts))
        band == IF Positive(atr) THEN atr \div 2 ELSE 1
        highs == Cluster({p \in pools : ~p.swept /\ p.high}, band)
        lows == Cluster({p \in pools : ~p.swept /\ ~p.high}, band)
        Near(d) == Positive(atr) /\ 0 < d /\ 2 * d <= 3 * atr
    IN  [above |-> {z \in highs : z.center > price}, below |-> {z \in lows : z.center < price},
         traps |-> {z \in lows : z.pools >= 2 /\ Near(price - z.center)}
                     \cup {z \in highs : z.pools >= 2 /\ Near(z.center - price)}]

-----------------------------------------------------------------------------
\* session.py, on real UTC: the broker's clock runs offset ahead of it.
Windows == <<[name |-> "asia", from |-> 0, to |-> 420, risk |-> 5],
             [name |-> "london", from |-> 420, to |-> 720, risk |-> 10],
             [name |-> "overlap", from |-> 720, to |-> 960, risk |-> 7],
             [name |-> "ny", from |-> 960, to |-> 1260, risk |-> 10],
             [name |-> "closed", from |-> 1260, to |-> 1440, risk |-> 3]>>
Classify(t) == CHOOSE w \in ToSet(Windows) : w.from <= t % 1440 /\ t % 1440 < w.to
SessionCompute(bars, ts, offset) ==
    LET w == Classify(ts - offset)
        midnight == offset + Today(ts - offset, 0)
        pit == PointInTimeBars(bars, ts)
        in == SelectSeq(pit, LAMBDA b : midnight + w.from <= b.t /\ b.t < midnight + w.to)
        prior == Front(in)
        last == Last(in)
        atr == Atr(pit)
        Equal(f, extreme) ==
            Positive(atr) /\ Cardinality({i \in DOMAIN in : 2 * Abs(in[i][f] - extreme) <= atr}) >= 2
    IN  [name |-> w.name, risk |-> w.risk,
         sweep |-> Len(in) >= 2 /\ \/ last.h > Highest(prior) /\ last.c < Highest(prior)
                                   \/ last.l < Lowest(prior) /\ last.c > Lowest(prior),
         eqHighs |-> in # <<>> /\ Equal("h", Highest(in)),
         eqLows |-> in # <<>> /\ Equal("l", Lowest(in))]

-----------------------------------------------------------------------------
\* vwap.py: three VWAPs anchored at 00:00, 07:00 and 12:00 UTC
Anchors == {0, 420, 720}
LastAnchorBefore(utc, a) == IF Today(utc, a) < utc THEN Today(utc, a) ELSE None
\* else the newest one up to a week back that has a bar within six hours
ResolveLiveAnchor(utc, a, bars, offset) ==
    LET first == Today(utc, a) - (IF utc % 1440 <= a THEN 1440 ELSE 0)
        live == {k \in 0..7 : \E b \in ToSet(bars) :
                    LET at == first - 1440 * k + offset IN at <= b.t /\ b.t < at + 360}
    IN  IF live = {} THEN None ELSE first - 1440 * Min(live)
\* The running sums from the anchor on; dist has the sign of close - vwap
Accumulate(bars, anchor) ==
    FoldLeft(LAMBDA acc, b :
                LET v == Max({1, b.v})
                    pv == acc.pv + ((b.h + b.l + b.c) \div 3) * v
                IN  IF anchor = None \/ b.t < anchor THEN acc
                    ELSE [pv |-> pv, v |-> acc.v + v,
                          dist |-> Append(acc.dist, b.c * (acc.v + v) - pv)],
             [pv |-> 0, v |-> 0, dist |-> <<>>], bars)
VwapEvent(dist) ==
    LET n == Len(dist)
        recent == {dist[i] : i \in Max({1, n - 4})..(n - 1)}
    IN  IF n < 2 THEN "none"
        ELSE IF dist[n] > 0 /\ \E d \in recent : d < 0 THEN "reclaim"
        ELSE IF dist[n] < 0 /\ \E d \in recent : d > 0 THEN "loss"
        ELSE IF dist[n-1] = 0 /\ dist[n] > 0 THEN "cross_up"
        ELSE IF dist[n-1] = 0 /\ dist[n] < 0 THEN "cross_down" ELSE "none"
VwapCompute(bars, ts, offset) ==
    LET pit == PointInTimeBars(bars, ts)
        utc == ts - offset
        anchor(a) == IF LastAnchorBefore(utc, a) # None THEN LastAnchorBefore(utc, a)
                     ELSE ResolveLiveAnchor(utc, a, pit, offset)
        sums == [a \in Anchors |->
                    Accumulate(pit, IF anchor(a) = None THEN None ELSE anchor(a) + offset)]
        values == {a \in Anchors : sums[a].v > 0}
        value(a) == sums[a].pv \div sums[a].v
        all == {value(a) : a \in values}
        atr == Atr(pit)
    IN  [levels |-> [a \in Anchors |-> IF a \in values
                        THEN [value |-> value(a), event |-> VwapEvent(sums[a].dist)]
                        ELSE [value |-> None, event |-> "none"]],
         cluster |-> /\ values = Anchors /\ Positive(atr)
                     /\ 2 * (Max(all) - Min(all)) <= 3 * atr]

-----------------------------------------------------------------------------
\* volume_range.py, on the broker's calendar: a bar's volume (in sixtieths) is
\* spread evenly over points between low and high, each counted in the bin whose
\* centre, a multiple of BinSize, is nearest.
Bins(b) ==
    LET range == b.h - b.l
        n == (2 * range + BinSize) \div (2 * BinSize) + 1
    IN  [i \in 1..n |-> (2 * n * b.l + (2 * i - 1) * range + n * BinSize)
                            \div (2 * n * BinSize)]
Histogram(bars) ==
    LET volume(b, p) == ((60 * b.v) \div Len(Bins(b)))
                           * Cardinality({i \in DOMAIN Bins(b) : Bins(b)[i] = p})
    IN  [p \in UNION {ToSet(Bins(b)) : b \in ToSet(bars)} |->
            Total([i \in DOMAIN bars |-> volume(bars[i], p)])]
\* The larger neighbour joins the value area; a tie goes up.
Widen(area, bins) ==
    LET vol(p) == IF p \in DOMAIN bins THEN bins[p] ELSE -1
        up == CHOOSE p \in {q \in DOMAIN bins : q > area.high} \cup {area.high + 1} :
                 \A q \in DOMAIN bins : q > area.high => p <= q
        down == CHOOSE p \in {q \in DOMAIN bins : q < area.low} \cup {area.low - 1} :
                   \A q \in DOMAIN bins : q < area.low => p >= q
    IN  IF vol(up) >= vol(down)
        THEN [area EXCEPT !.high = up, !.cum = @ + vol(up)]
        ELSE [area EXCEPT !.low = down, !.cum = @ + vol(down)]
ValueArea(bins) ==
    LET total == FoldFunction(+, 0, bins)
        vpoc == CHOOSE p \in DOMAIN bins : \A q \in DOMAIN bins : bins[q] <= bins[p]
    IN  FoldLeft(LAMBDA area, i :
                    IF 100 * area.cum < ValuePct * total THEN Widen(area, bins) ELSE area,
                 [vpoc |-> vpoc, low |-> vpoc, high |-> vpoc, cum |-> bins[vpoc]],
                 [i \in 1..Cardinality(DOMAIN bins) |-> i])

PeriodStart(ts) == ts - (ts % Period)
ProfileOf(bars, from, locked) ==
    LET in == SelectSeq(bars, LAMBDA b : from <= b.t /\ b.t < from + Period)
        area == ValueArea(Histogram(in))
        bin == Last(in).c
        inside == Cardinality({i \in DOMAIN in : /\ area.low * BinSize <= in[i].c
                                                 /\ in[i].c <= area.high * BinSize})
    IN  IF in = <<>> \/ Total(Column(in, "v")) = 0 THEN [from |-> from, status |-> None]
        ELSE [from |-> from, locked |-> locked, low |-> area.low, vpoc |-> area.vpoc,
              high |-> area.high,
              status |-> CASE bin > area.high * BinSize -> "above"
                           [] bin < area.low * BinSize -> "below"
                           [] OTHER -> "within",
              accepted |-> inside,
              rotation |-> 10 * inside >= 4 * Len(in) /\ inside < Len(in),
              breakout |-> inside = 0 /\ Len(in) >= 3]
VolumeRangeCompute(bars, ts) ==
    LET pit == PointInTimeBars(bars, ts)
        start == PeriodStart(ts)
    IN  [developing |-> ProfileOf(pit, start, FALSE),
         previous |-> ProfileOf(pit, start - Period, TRUE)]

-----------------------------------------------------------------------------
\* momentum.py: what the aggregator reads of the last bar of a time frame
PerBar(bars, atr) ==
    LET b == Last(bars)
        body == Abs(b.c - b.o)
        bodies == SortSeq([i \in DOMAIN LastN(bars, 20) |->
                              Abs(LastN(bars, 20)[i].c - LastN(bars, 20)[i].o)], <)
        Same(x) == IF b.c > b.o THEN x.c > x.o ELSE x.c < x.o
        run == {k \in 0..Len(bars) : \A i \in (Len(bars) - k + 1)..Len(bars) : Same(bars[i])}
    IN  [closePos |-> IF b.h = b.l THEN 5 ELSE (10 * (b.c - b.l)) \div (b.h - b.l),
         displaced |-> /\ b.h > b.l
                       /\ \/ Positive(atr) /\ body > 2 * atr
                          \/ /\ Len(bars) >= 20
                             /\ bodies[11] > 0 /\ 2 * body > 3 * bodies[11],
         follow |-> IF b.h = b.l \/ b.c = b.o THEN 0 ELSE Max(run)]
MomentumCompute(bars, ts) ==
    LET m1 == PointInTimeBars(bars, ts)
        atr == Atr(m1)
    IN  [m1 |-> PerBar(m1, atr), m5 |-> PerBar(RoundByTime(m1, M5), atr),
         h1 |-> PerBar(RoundByTime(m1, H1), atr)]

\* volume_trend.py: fast, slow and lookback are the engine's parameters
VolumeTrend(bars, ts, fast, slow, lookback) ==
    LET vols == Column(PointInTimeBars(bars, ts), "v")
        now == Mean(LastN(vols, fast))
        before == Mean(LastN(SubSeq(vols, 1, Len(vols) - lookback), fast))
    IN  IF Len(vols) < slow THEN [spike |-> FALSE, trend |-> "flat"]
        ELSE [spike |-> Mean(LastN(vols, slow)) > 0 /\ Last(vols) > 2 * Mean(LastN(vols, slow)),
              trend |-> IF Len(vols) < fast + lookback \/ before <= 0 THEN "flat"
                        ELSE IF 100 * (now - before) > 3 * before THEN "rising"
                        ELSE IF 100 * (now - before) < -3 * before THEN "falling" ELSE "flat"]

\* fib.py: the last leg between opposite H1 swings, and where the close stands
\* in it, in thousandths from the end of the leg the retracement starts at
LastLeg(swings) ==
    LET last == CHOOSE s \in swings : \A r \in swings : r.i <= s.i
        opposite == {s \in swings : s.high # last.high}
    IN  IF Cardinality(swings) < 2 \/ opposite = {} THEN None
        ELSE [to |-> last, from |-> CHOOSE s \in opposite : \A r \in opposite : r.i <= s.i]
Size(leg) == IF leg.to.high THEN leg.to.price - leg.from.price ELSE leg.from.price - leg.to.price
Retraced(leg, close) ==
    (1000 * (IF leg.to.high THEN leg.to.price - close ELSE close - leg.to.price)) \div Size(leg)
FibZone(r) ==
    CASE r < 0 \/ r > 1000 -> "extended"
      [] 0 <= r /\ r < 382 -> "shallow"
      [] 382 <= r /\ r < 500 -> "0.382"
      [] 500 <= r /\ r <= 618 -> "golden_pocket"
      [] OTHER -> "deep"
FibCompute(bars, ts) ==
    LET m1 == PointInTimeBars(bars, ts)
        h1 == RoundByTime(m1, H1)
        leg == LastLeg(FindSwings(h1, 2))
    IN  IF Len(h1) < 6 \/ leg = None \/ Size(leg) <= 0
        THEN [dir |-> None, zone |-> None]
        ELSE [dir |-> IF leg.to.high THEN "up" ELSE "down",
              zone |-> FibZone(Retraced(leg, Last(m1).c))]

-----------------------------------------------------------------------------
\* news.py: events the calendar holds, [ts, high]

\* Mutant: minutes after a release are not covered.
InBlackoutBeforeOnly(events, utc) ==
    \E e \in events : e.high /\ e.ts >= utc /\ e.ts - PreNews <= utc
\* Upcoming events first, then the last past one
InBlackout(events, utc) ==
    LET upcoming == {e \in events : e.high /\ e.ts >= utc}
        past == {e \in events : e.high /\ e.ts < utc}
    IN  \/ \E e \in upcoming : e.ts - PreNews <= utc /\ utc <= e.ts + PostNews
        \/ past # {} /\ Max({e.ts : e \in past}) + PostNews >= utc
NewsCompute(calendar, ts, offset) ==
    LET utc == ts - offset
        events == {e \in calendar : e.ts >= utc - 1440}
        next == {e.ts : e \in {f \in events : f.high /\ f.ts >= utc}}
    IN  [blackout |-> InBlackout(events, utc),
         minutes |-> IF next = {} THEN None ELSE Min(next) - utc]

-----------------------------------------------------------------------------
\* FeaturePipeline.assemble: the close and the ATR come from the whole buffer,
\* the newest bar of which is the one that has just arrived.
Assemble(bars, deep, ts, offset, calendar) ==
    LET structure == StructureCompute(bars, ts, FractalN, 10, M5)
    IN  [ts |-> ts, session |-> SessionCompute(bars, ts, offset),
         vwap |-> VwapCompute(bars, ts, offset), vr |-> VolumeRangeCompute(deep, ts),
         fvg |-> FvgCompute(bars, ts), structure |-> structure,
         structureH1 |-> StructureCompute(bars, ts, 2, 3, H1),
         momentum |-> MomentumCompute(bars, ts),
         volumeTrend |-> VolumeTrend(bars, ts, 9, 20, 10), fib |-> FibCompute(bars, ts),
         liquidity |-> LiquidityCompute(structure.pools, Last(bars).c, bars, ts),
         news |-> NewsCompute(calendar, ts, offset),
         atr |-> Atr(SortedByTime(bars)), price |-> Last(bars).c]

\* compact.py: all live zones, the best few mitigated ones of each time frame
\* and the top three; the newest swings and one of each kind at least
CompactZones(fvg, cap) ==
    LET done(tf) == {z \in fvg.zones : z.tf = tf /\ z.status = "mitigated"}
        kept(tf) == {z \in done(tf) : Cardinality({y \in done(tf) : Rank(y) > Rank(z)}) < cap}
    IN  {z \in fvg.zones : z.status # "mitigated"} \cup UNION {kept(tf) : tf \in {"M1", "M5", "H1"}}
          \cup fvg.top
CompactSwings(swings, cap) ==
    LET newest == {s \in swings : Cardinality({r \in swings : r.i > s.i}) < cap}
        latest(high) == {s \in swings : s.high = high /\ \A r \in swings : r.high = high => r.i <= s.i}
    IN  newest \cup UNION {latest(k) : k \in {b \in BOOLEAN : ~\E s \in newest : s.high = b}}
\* compact_bundle
Compact(bundle) ==
    [bundle EXCEPT !.fvg = CompactZones(@, 5), !.structure.swings = CompactSwings(@, 20),
                   !.structureH1.swings = CompactSwings(@, 20)]

-----------------------------------------------------------------------------
\* What every engine sees at ts is the same whether or not the buffer already
\* holds later bars; close and ATR alone come from the whole buffer
\* (filter_pit, the sort in every compute()).
Engines == {"session", "vwap", "vr", "fvg", "structure", "structureH1", "momentum",
            "volumeTrend", "fib", "news"}
PointInTimeIn(charts, calendar) ==
    \A bars \in charts : \A k \in 1..(Len(bars) - 1) :
        LET Seen(buffer) == Restrict(Assemble(buffer, buffer, bars[k].t, 0, calendar), Engines)
        IN  Seen(bars) = Seen(SubSeq(bars, 1, k))

=============================================================================
