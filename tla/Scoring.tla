------------------------------- MODULE Scoring -------------------------------
(***************************************************************************)
(* From a bar's feature bundle to a qualified decision, as pure functions: *)
(* the seven engine subscores and the conflict log (aggregator.py), their  *)
(* weighted total, band and direction (scoring.py), the rule decision      *)
(* (rule_fallback.py) and the last veto (qualification.py).                *)
(*                                                                         *)
(* A subscore is counted in hundredths (0..10000), the total in            *)
(* ten-thousandths, prices and ATR in tenths of a dollar. None stands for  *)
(* an engine or a value the bundle does not carry. Reasoning texts, raw    *)
(* values and the percentile ranks, which nothing downstream reads, are    *)
(* left out.                                                               *)
(***************************************************************************)
EXTENDS Integers, Sequences, FiniteSets, FiniteSetsExt, Maybe

Clamp(v) == Max({0, Min({10000, v})})
Abs(x) == IF x < 0 THEN -x ELSE x
Sign(x) == Max({-1, Min({1, x})})
Sub(value, dir) == [value |-> Clamp(value), dir |-> dir]
NoData == [value |-> 5000, dir |-> 0]

Weights == [h1_zone |-> 25, m5_zone |-> 20, triple_vwap |-> 15,
            htf_volume_profile |-> 10, session_liquidity |-> 10,
            news |-> 10, momentum |-> 10]
Engines == DOMAIN Weights
\* The sum of v over the engines, each with its weight
Weighted(v(_)) ==
    Weights.h1_zone * v("h1_zone") + Weights.m5_zone * v("m5_zone")
      + Weights.triple_vwap * v("triple_vwap")
      + Weights.htf_volume_profile * v("htf_volume_profile")
      + Weights.session_liquidity * v("session_liquidity")
      + Weights.news * v("news") + Weights.momentum * v("momentum")

-----------------------------------------------------------------------------
\* The scorers

\* Session: name, risk (tenths), sweep, eqHighs, eqLows
SessionScore(s) ==
    IF s = None THEN NoData
    ELSE Sub(800 * s.risk + (IF s.sweep THEN 1000 ELSE 0)
               + (CASE s.eqHighs /\ s.eqLows -> 500
                    [] s.eqHighs # s.eqLows -> 300
                    [] OTHER -> 0),
             IF s.name \in {"london", "ny", "overlap"} THEN 1 ELSE 0)

\* Liquidity: above and below (the centres of the targets), sl (their number)
LiquidityScore(l) ==
    IF l = None THEN NoData
    ELSE LET n == Cardinality(l.above) + Cardinality(l.below)
         IN  Sub((IF n > 0 THEN 3000 ELSE 1000) + 500 * Min({n, 6})
                   - (IF l.sl > 3 THEN 1000 ELSE 0)
                   + (IF l.above # {} /\ l.below # {} THEN 1000 ELSE 0), 0)

\* A zone: tf, bull, low, high (the leg-extended edges), status, disp (tenths
\* of an ATR), top (is it among top_zones?)
IsLive(z) == z.status \in {"open", "partially_mitigated"}
Majority(zones) ==
    Sign(Cardinality({z \in zones : z.bull}) - Cardinality({z \in zones : ~z.bull}))

\* Mutant: the first match wins.
ZoneBiasFirst(zones, price) ==
    IF zones = None \/ price = None THEN 0
    ELSE LET inside == {z \in zones : z.tf = "H1" /\ IsLive(z)
                                        /\ z.low <= price /\ price <= z.high}
         IN  IF \E z \in inside : z.bull THEN 1 ELSE IF inside # {} THEN -1 ELSE 0
\* Where the price sits: in live H1 demand, in live H1 supply, in both or none
ZoneBias(zones, price) ==
    IF zones = None \/ price = None THEN 0
    ELSE LET inside == {z \in zones : z.tf = "H1" /\ IsLive(z)
                                        /\ z.low <= price /\ price <= z.high}
             demand == \E z \in inside : z.bull
             supply == \E z \in inside : ~z.bull
         IN  CASE demand /\ ~supply -> 1
               [] supply /\ ~demand -> -1
               [] OTHER -> 0

H1Score(zones, price) ==
    IF zones = None THEN NoData
    ELSE LET h1 == {z \in zones : z.tf = "H1"}
             live == {z \in h1 : IsLive(z)}
             bias == ZoneBias(zones, price)
             base == IF h1 = {} THEN 4000
                     ELSE 5000 + Min({500 * Cardinality(live), 1500})
                          + (IF \E z \in live : z.disp >= 15 THEN 1000 ELSE 0)
                          + (IF \E z \in h1 : z.top THEN 1000 ELSE 0)
         IN  IF bias # 0 THEN Sub(base + 1000, bias)
             ELSE Sub(base, Majority(live))

M5Score(zones) ==
    IF zones = None THEN NoData
    ELSE LET m5 == {z \in zones : z.tf = "M5"}
             open == {z \in m5 : z.status = "open"}
         IN  Sub(5000 + Min({500 * Cardinality(open), 2000})
                   + (IF \E z \in open : z.disp >= 10 THEN 1000 ELSE 0)
                   - (IF Cardinality({z \in m5 : z.status = "mitigated"}) > 5
                      THEN 500 ELSE 0),
                 Majority(open))

\* VWAP: cluster and levels, each with an event and a distance in ATRs
LevelVote(e) == CASE e \in {"reclaim", "cross_up"} -> 1
                  [] e \in {"loss", "cross_down"} -> -1
                  [] OTHER -> 0
VwapScore(v) ==
    IF v = None \/ v.levels = <<>> THEN NoData
    ELSE LET Voting(d) == Cardinality({i \in DOMAIN v.levels : LevelVote(v.levels[i].event) = d})
             dir == Sign(Voting(1) - Voting(-1))
         IN  Sub((IF v.cluster THEN 7500 ELSE 5000) + 500 * dir
                   - (IF \E i \in DOMAIN v.levels :
                            v.levels[i].dist # None /\ Abs(v.levels[i].dist) > 3
                      THEN 1000 ELSE 0), dir)

\* A profile is developing or locked with a value status; points are the
\* subscore for developing, within, above, below and unknown.
ProfilePoints(p, points) ==
    IF p.developing THEN points[1]
    ELSE CASE p.status = "within" -> points[2]
           [] p.status = "above" -> points[3]
           [] p.status = "below" -> points[4]
           [] OTHER -> points[5]
VolumeScore(vr) ==
    IF vr = None THEN NoData
    ELSE LET acceptance == IF vr.accepted > 100 THEN 30
                           ELSE IF vr.accepted > 20 THEN 50 ELSE 65
         IN  Sub(5 * (8 * ProfilePoints(vr.yearly, <<50, 55, 65, 45, 40>>)
                        + 5 * ProfilePoints(vr.monthly, <<50, 55, 65, 45, 40>>)
                        + 4 * ProfilePoints(vr.weekly, <<45, 60, 65, 45, 35>>)
                        + 3 * acceptance)
                   + (IF vr.rotation THEN 500 ELSE 0)
                   + (IF vr.breakout THEN 500 ELSE 0), 0)

\* Momentum: score, m5 (closePos and body in tenths, or None), displaced
MomentumScore(m) ==
    IF m = None THEN NoData
    ELSE Sub(100 * m.score + (IF m.displaced THEN 500 ELSE 0),
             IF m.m5 = None \/ m.m5.body <= 5 THEN 0
             ELSE CASE m.m5.closePos > 7 -> 1
                    [] m.m5.closePos < 3 -> -1
                    [] OTHER -> 0)

\* News: blackout, minutes to the next high-impact event (or None)
NewsScore(n) ==
    IF n = None THEN NoData
    ELSE Sub(IF n.blackout THEN 0
             ELSE IF n.minutes = None THEN 8000
             ELSE IF n.minutes < 30 THEN 3000
             ELSE IF n.minutes < 120 THEN 5500
             ELSE IF n.minutes < 240 THEN 7000 ELSE 8000, 0)

Blackout(b) == b.news # None /\ b.news.blackout

-----------------------------------------------------------------------------
\* FeatureAggregator.aggregate

\* session_liquidity: half and half, the session's vote first
SessionLiquidity(b) ==
    IF b.session = None /\ b.liquidity = None THEN NoData
    ELSE LET s == SessionScore(b.session)
             l == LiquidityScore(b.liquidity)
         IN  [value |-> (s.value + l.value) \div 2,
              dir |-> IF s.dir # 0 THEN s.dir ELSE l.dir]

\* A close against the live zone the price sits in is the setup, not a vote.
MomentumInZone(b) ==
    LET m == MomentumScore(b.momentum)
        bias == ZoneBias(b.zones, b.price)
    IN  IF bias # 0 /\ m.dir = -bias THEN [m EXCEPT !.dir = 0] ELSE m

Subscores(b) ==
    [h1_zone |-> H1Score(b.zones, b.price), m5_zone |-> M5Score(b.zones),
     triple_vwap |-> VwapScore(b.vwap), htf_volume_profile |-> VolumeScore(b.vr),
     session_liquidity |-> SessionLiquidity(b), news |-> NewsScore(b.news),
     momentum |-> MomentumInZone(b)]

\* last_bos or last_choch, whichever of the two is the newer
LastEvent(b) ==
    IF b.structure = None THEN None
    ELSE IF b.structure.bos # None THEN b.structure.bos ELSE b.structure.choch
\* _detect_conflicts: only the number of entries is read again.
Conflicts(b, subs) ==
    LET blocked == {e \in Engines \ {"news", "session_liquidity"} : subs[e].dir # 0}
        bos == IF b.structure = None THEN None ELSE b.structure.bos
        atOddsWithValue ==
            /\ bos # None /\ b.vr # None
            /\ b.vr.weekly.status = (IF bos.up THEN "below" ELSE "above")
        stretched ==
            /\ b.vwap # None /\ b.vwap.cluster /\ b.zones # None
            /\ Cardinality({z \in b.zones : z.tf = "M5" /\ z.low < z.high}) >= 5
        imminent ==
            b.news # None /\ b.news.minutes # None /\ b.news.minutes < 30
    IN  (IF Blackout(b) THEN Cardinality(blocked) ELSE 0)
          + Cardinality({i \in 1..3 : <<atOddsWithValue, stretched, imminent>>[i]})

HasData(b) ==
    \/ b.session # None \/ b.liquidity # None \/ b.zones # None
    \/ b.vr # None \/ b.news # None \/ b.momentum # None
    \/ b.vwap # None /\ b.vwap.levels # <<>>

\* AggregatedFeatures
Aggregate(b) ==
    LET subs == Subscores(b)
    IN  [subs |-> subs, conflicts |-> Conflicts(b, subs), hasData |-> HasData(b),
         blackout |-> Blackout(b),
         liquid |-> b.session # None \/ b.liquidity # None]

-----------------------------------------------------------------------------
\* ScoringEngine.score

Band(total) == IF total < 550000 THEN "below"
               ELSE IF total < 650000 THEN "observe"
               ELSE IF total < 750000 THEN "prepare"
               ELSE IF total < 850000 THEN "reduced" ELSE "full"

\* The weight of the engines that vote d
Votes(agg, d) ==
    Weighted(LAMBDA e : IF agg.subs[e].dir = d THEN 1 ELSE 0)

Net(agg) == Votes(agg, 1) - Votes(agg, -1)

Direction(agg) ==
    CASE Net(agg) > 5 -> "long" [] Net(agg) < -5 -> "short" [] OTHER -> "neutral"

\* The weighted subscores
WeightedTotal(agg) == Weighted(LAMBDA e : agg.subs[e].value)

\* The published total is rounded to hundredths, the band is not.
Score(agg) ==
    IF ~agg.hasData THEN [total |-> 5000, band |-> "observe", dir |-> "neutral"]
    ELSE LET total == WeightedTotal(agg)
         IN  [total |-> (total + 50) \div 100, band |-> Band(total),
              dir |-> Direction(agg)]

-----------------------------------------------------------------------------
\* RuleBasedFallback.decide: the first blocker wins. The decision engine
\* passes no account; the other callers pass balance, dailyPnl, weeklyPnl and
\* spread, each of the last three None where unknown.

CONSTANTS RiskMaxDaily,  \* risk_max_daily, percent of the balance
          RiskMaxWeekly, \* risk_max_weekly
          SpreadMax      \* spread_max_pips * 10, points

RiskLimitBreached(account) ==
    /\ account.balance > 0
    /\ \/ /\ account.dailyPnl # None
          /\ 100 * account.dailyPnl <= -RiskMaxDaily * account.balance
       \/ /\ account.weeklyPnl # None
          /\ 100 * account.weeklyPnl <= -RiskMaxWeekly * account.balance

Entry(dir) == IF dir = "long" THEN "enter_long" ELSE "enter_short"
NoTrade(reason) == [action |-> "no_trade", type |-> None, reason |-> reason,
                    source |-> "rule"]
EntryType(band) == IF band \in {"full", "reduced"} THEN band ELSE "scout"

RuleDecide(score, agg, account) ==
    IF agg.blackout THEN NoTrade("news_blackout")
    ELSE IF account # None /\ RiskLimitBreached(account) THEN NoTrade("risk_limit_reached")
    ELSE IF account # None /\ account.spread # None /\ account.spread > SpreadMax
         THEN NoTrade("spread_too_wide")
    ELSE IF score.band = "below" THEN NoTrade("band_below_55_no_entry")
    ELSE IF score.band = "observe" THEN NoTrade("band_observe_no_entry")
    ELSE IF Abs(Net(agg)) < 10 THEN NoTrade("no_clear_direction")
    ELSE IF score.dir = "neutral" THEN NoTrade("neutral_direction")
    ELSE [action |-> Entry(score.dir),
          type |-> EntryType(score.band), reason |-> None, source |-> "rule"]

-----------------------------------------------------------------------------
\* TradeQualificationEngine.qualify; prices and ATR in tenths

\* _latest_close: the close of that structure event, not of the last bar
LatestClose(b) == IF LastEvent(b) = None THEN None ELSE LastEvent(b).close

HasClearTarget(b, price, action) ==
    /\ b.liquidity # None
    /\ LET targets == IF action = "enter_short" THEN b.liquidity.below
                      ELSE b.liquidity.above
       IN  \E c \in targets : /\ Max({b.atr, 20}) <= Abs(c - price)
                              /\ Abs(c - price) <= 40 * b.atr

StructureAgainst(b, action) ==
    LET e == LastEvent(b)
    IN  e # None /\ e.up # (action = "enter_long")

\* The reasons a decision to enter is turned down for
Vetoes(decision, agg, b) ==
    LET close == LatestClose(b)
        targets == IF b.atr # None /\ b.atr > 0
                   THEN HasClearTarget(b, close, decision.action) ELSE agg.liquid
    IN  {r \in {"target", "structure", "volatility", "conflict"} :
            \/ r = "target" /\ close # None /\ ~targets
            \/ r = "structure" /\ StructureAgainst(b, decision.action)
            \/ r = "volatility" /\ b.atr # None /\ (2 * b.atr < 1 \/ b.atr > 50)
            \/ r = "conflict" /\ agg.conflicts >= 3}

Qualify(decision, score, agg, b) ==
    IF decision.action = "no_trade" \/ Vetoes(decision, agg, b) # {}
    THEN [qualified |-> FALSE, action |-> "no_trade", type |-> None, dir |-> "neutral"]
    ELSE [qualified |-> TRUE, action |-> decision.action, type |-> decision.type,
          dir |-> score.dir]

-----------------------------------------------------------------------------
\* The same market upside down: prices around price, bull for bear, above for
\* below. Session, news, ATR and the sizes of things stay.
Flip(x, price) == IF x = None THEN None ELSE 2 * price - x
FlipEvent(e) == CASE e = "reclaim" -> "loss" [] e = "loss" -> "reclaim"
                  [] e = "cross_up" -> "cross_down" [] e = "cross_down" -> "cross_up"
                  [] OTHER -> e
FlipStatus(s) == CASE s = "above" -> "below" [] s = "below" -> "above" [] OTHER -> s
FlipZone(z, price) ==
    [z EXCEPT !.bull = ~@, !.low = Flip(z.high, price), !.high = Flip(z.low, price)]
FlipZones(zones, price) == IF zones = None THEN None ELSE {FlipZone(z, price) : z \in zones}
FlipLiquidity(l, price) ==
    IF l = None THEN None
    ELSE [l EXCEPT !.above = {Flip(c, price) : c \in l.below},
                   !.below = {Flip(c, price) : c \in l.above}]
FlipVwap(v) ==
    IF v = None THEN None
    ELSE [v EXCEPT !.levels = [i \in DOMAIN v.levels |->
                                 [v.levels[i] EXCEPT !.event = FlipEvent(v.levels[i].event)]]]
FlipProfile(vr) ==
    IF vr = None THEN None
    ELSE [vr EXCEPT !.yearly.status = FlipStatus(@), !.monthly.status = FlipStatus(@),
                    !.weekly.status = FlipStatus(@)]
FlipMomentum(m) ==
    IF m = None \/ m.m5 = None THEN m ELSE [m EXCEPT !.m5.closePos = 10 - m.m5.closePos]
FlipBreak(e, price) ==
    IF e = None THEN None ELSE [up |-> ~e.up, close |-> Flip(e.close, price), at |-> e.at]
FlipStructure(s, price) ==
    IF s = None THEN None
    ELSE [bos |-> FlipBreak(s.bos, price), choch |-> FlipBreak(s.choch, price)]
Mirror(b) ==
    [b EXCEPT !.zones = FlipZones(b.zones, b.price), !.vwap = FlipVwap(b.vwap),
              !.liquidity = FlipLiquidity(b.liquidity, b.price), !.vr = FlipProfile(b.vr),
              !.momentum = FlipMomentum(b.momentum),
              !.structure = FlipStructure(b.structure, b.price)]
FlipAction(a) == CASE a = "enter_long" -> "enter_short" [] a = "enter_short" -> "enter_long"
                   [] OTHER -> a

\* The stack does lean to the long side, in three places: a session that votes
\* votes long, a VWAP vote is worth five points up or down by its side, and a
\* locked profile is worth twenty more above its value area than below.
SessionVote(b) == SessionScore(b.session).dir
Tilt(profile) == IF profile.developing THEN 0
                 ELSE CASE profile.status = "above" -> 1 [] profile.status = "below" -> -1
                        [] OTHER -> 0
Lead(b) ==
    1000 * Weights.triple_vwap * VwapScore(b.vwap).dir
      + (IF b.vr = None THEN 0
         ELSE 100 * Weights.htf_volume_profile
                * (8 * Tilt(b.vr.yearly) + 5 * Tilt(b.vr.monthly) + 4 * Tilt(b.vr.weekly)))
LeaningScores == {"triple_vwap", "htf_volume_profile"}

\* A decision to enter, as the vetoes read it
ToEnter(action) == [NoTrade(None) EXCEPT !.action = action]
\* What the rules say of the mirror image, when the lead crosses no band
RulesOfMirror(b) ==
    LET agg == Aggregate(b)
        mirrored == Aggregate(Mirror(b))
        rule == RuleDecide(Score(agg), agg, None)
        other == [rule EXCEPT !.action = FlipAction(@)]
    IN  Score(mirrored).band = Score(agg).band
          /\ (rule.action = "enter_short" \/ SessionVote(b) = 0)
        => RuleDecide(Score(mirrored), mirrored, None) = other

\* For a bundle and its mirror image: every other subscore is the same, the
\* totals are the lead apart, the votes cancel but for the session's, which
\* both have; there are as many conflicts, and what a long is turned down for
\* the mirrored short is, and a short the mirrored long (all scorers,
\* _htf_zone_bias, momentum suppression, _detect_conflicts, scoring.py,
\* rule_fallback.py, qualification.py).
LeansAsKnown(b) ==
    LET agg == Aggregate(b)
        mirrored == Aggregate(Mirror(b))
    IN  /\ \A e \in Engines \ LeaningScores :
              mirrored.subs[e].value = agg.subs[e].value
        /\ WeightedTotal(agg) - WeightedTotal(mirrored) = Lead(b)
        /\ Net(agg) + Net(mirrored) = 2 * Weights.session_liquidity * SessionVote(b)
        /\ mirrored.conflicts = agg.conflicts
        /\ \A a \in {"enter_long", "enter_short"} :
              Vetoes(ToEnter(FlipAction(a)), mirrored, Mirror(b))
                = Vetoes(ToEnter(a), agg, b)
        /\ RulesOfMirror(b)

\* The bundles it is said of: the parts the scorers read, each of them there or
\* None.
Parts == {"price", "atr", "session", "liquidity", "zones", "vwap", "vr", "momentum",
          "news", "structure"}
Sessions == [name : STRING, risk : Int, sweep : BOOLEAN, eqHighs : BOOLEAN, eqLows : BOOLEAN]
ZoneRecords == [tf : {"M1", "M5", "H1"}, bull : BOOLEAN, low : Int, high : Int,
                status : {"open", "partially_mitigated", "mitigated"}, disp : Int, top : BOOLEAN]
ValueStatuses == {"within", "above", "below", "unknown"}
Profiles == [developing : BOOLEAN, status : ValueStatuses]
StructureEvents == [up : BOOLEAN, close : Int, at : Int]
LastBars == [closePos : Int, body : Int]
IsBundle(b) ==
    /\ Parts \subseteq DOMAIN b /\ b.price \in Int /\ b.atr \in Int \cup {None}
    /\ b.session \in Sessions \cup {None}
    /\ b.liquidity = None
         \/ /\ b.liquidity \in [above : SUBSET Int, below : SUBSET Int, sl : Nat]
            /\ IsFiniteSet(b.liquidity.above) /\ IsFiniteSet(b.liquidity.below)
    /\ b.zones = None \/ (b.zones \in SUBSET ZoneRecords /\ IsFiniteSet(b.zones))
    /\ b.vwap = None \/ b.vwap \in [cluster : BOOLEAN, levels : Seq([event : STRING, dist : Int \cup {None}])]
    /\ b.vr = None
         \/ b.vr \in [yearly : Profiles, monthly : Profiles, weekly : Profiles,
                      accepted : Int, rotation : BOOLEAN, breakout : BOOLEAN]
    /\ b.momentum = None
         \/ b.momentum \in [score : Int, displaced : BOOLEAN, m5 : LastBars \cup {None}]
    /\ b.structure = None \/ b.structure \in [bos : StructureEvents \cup {None},
                                              choch : StructureEvents \cup {None}]
=============================================================================
