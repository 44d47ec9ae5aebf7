------------------------------ MODULE TradePlan ------------------------------
(***************************************************************************)
(* What a qualified decision turns into before an order is sent: the       *)
(* initial stop, the three targets and the volume. Pure functions, used by *)
(* the live entry and by the backtest.                                     *)
(* Prices are points. Everything is computed on the signed axis of the     *)
(* trade, on which profit is up: a price p is +p for a long, -p for a      *)
(* short. Volumes are lot steps; volume * distance * Contract is money.    *)
(***************************************************************************)
EXTENDS Integers, Sequences, SequencesExt, FiniteSets, FiniteSetsExt, Functions, Maybe

CONSTANTS
    InitialSlAtr,             \* ATRs the stop is put behind its anchor
    NoAtrStop,                \* stop distance without an ATR
    MinSlAtr, MinSlPoints,    \* the stop is at least this far away
    HintMin, HintMax,         \* prices a hint of the AI may name
    HintBand,                 \* percent of the entry price it may be away
    MaxRr,                    \* _MAX_TP_RR, a target of the AI in R
    Contract,                 \* money per lot step and point
    VolumeMin, VolumeMax,
    RiskTolerance             \* percent the risk may be exceeded by

ASSUME PlanAssumption ==
    /\ None \notin Int
    /\ {InitialSlAtr, NoAtrStop, MinSlAtr, MinSlPoints, HintMin, HintMax, HintBand, MaxRr} \subseteq Nat
    /\ {Contract, VolumeMin} \subseteq Nat \ {0} /\ {VolumeMax, RiskTolerance} \subseteq Nat

Sides == {"long", "short"}
Signed(side, price) == IF side = "long" THEN price ELSE -price
Distance(a, b) == IF a < b THEN b - a ELSE a - b

-----------------------------------------------------------------------------
\* stops.py

\* The levels the AI says invalidate its idea: the nearest plausible one on the
\* losing side of the entry
HintFrom(levels, side, entry) ==
    LET plausible == {x \in levels :
            /\ HintMin <= x /\ x <= HintMax
            /\ 100 * Distance(x, entry) <= HintBand * entry
            /\ Signed(side, x) < Signed(side, entry)}
    IN  IF plausible = {} THEN None
        ELSE Signed(side, Max({Signed(side, x) : x \in plausible}))

SlFloor(atr) == Max({MinSlAtr * atr, MinSlPoints})

\* Behind the hint or the last swing, else below the entry; never nearer than
\* the floor, whatever side the swing is on.
InitialStop(side, entry, swings, atr, hint) ==
    LET e == Signed(side, entry)
        hinted == hint # None /\ Signed(side, hint) < e
        anchor == IF hinted THEN hint ELSE swings[side]
        behind == IF anchor # None /\ atr > 0
                  THEN Signed(side, anchor) - InitialSlAtr * atr
                  ELSE e - (IF InitialSlAtr * atr # 0 THEN InitialSlAtr * atr ELSE NoAtrStop)
        sane == IF Signed(side, behind) <= 0 THEN e - 1 ELSE behind
    IN  Signed(side, Min({sane, e - SlFloor(atr)}))

-----------------------------------------------------------------------------
\* take_profit.py

\* The centre of the nearest liquidity zone in the direction of the trade
NearestZone(centers, side, entry) ==
    LET ahead == {Signed(side, c) : c \in {x \in centers : Signed(side, x) > Signed(side, entry)}}
    IN  IF ahead = {} THEN None ELSE Signed(side, Min(ahead))

\* The value areas of week, month and year in turn: the nearer of outer edge and
\* VPOC beyond the second target
HtfLevel(profiles, side, beyond) ==
    LET Ahead(p) == {Signed(side, x) : x \in {y \in {IF side = "long" THEN p.vah ELSE p.val, p.vpoc} :
                                                y # None /\ Signed(side, y) > Signed(side, beyond)}}
        with == {i \in DOMAIN profiles : Ahead(profiles[i]) # {}}
    IN  IF with = {} THEN None ELSE Signed(side, Min(Ahead(profiles[Min(with)])))

Runner(tp2, tp3, dist) == IF tp3 <= tp2 THEN tp2 + dist ELSE tp3

\* The first gap of the list that points the way of the trade, not the nearest
FirstGap(gaps, side, entry) ==
    LET edge(z) == IF z.bull THEN z.top ELSE z.bottom
        usable == {i \in DOMAIN gaps : gaps[i].bull = (side = "long")
                                         /\ Signed(side, edge(gaps[i])) > Signed(side, entry)}
    IN  IF usable = {} THEN None ELSE edge(gaps[Min(usable)])

\* rr: the targets the AI asks for, in R, or None; centers and gaps are None
\* when the bundle lacks them. On the signed axis: [tp1, tp2, tp3]
Targets(side, entry, sl, market, rr) ==
    LET e == Signed(side, entry)
        dist == Distance(entry, sl)
        valid(x) == IF x # None /\ 0 < x /\ x <= MaxRr THEN x ELSE None
        swap == valid(rr[1]) # None /\ valid(rr[2]) # None /\ valid(rr[1]) > valid(rr[2])
        first == IF swap THEN valid(rr[2]) ELSE valid(rr[1])
        second == IF swap THEN valid(rr[1]) ELSE valid(rr[2])
        zone == IF market.centers = None THEN None ELSE NearestZone(market.centers, side, entry)
        gap == IF market.gaps = None THEN None ELSE FirstGap(market.gaps, side, entry)
        tp1 == IF first # None THEN e + first * dist
               ELSE IF zone # None THEN Signed(side, zone) ELSE e + dist
        tp2 == IF second # None THEN e + second * dist
               ELSE IF gap # None THEN Signed(side, gap) ELSE e + 2 * dist
        level == HtfLevel(market.profiles, side, Signed(side, tp2))
    IN  [tp1 |-> tp1, tp2 |-> tp2,
         tp3 |-> Runner(tp2, IF level = None THEN e + 3 * dist ELSE Signed(side, level), dist)]

\* The last structure event is against the trade and the close short of the
\* target; close and tp3 on the signed axis
ShouldCloseRunner(side, tp3, close, event) ==
    event = (IF side = "long" THEN "down" ELSE "up") /\ close < tp3

\* StopManager.trail on the signed axis: never behind the present stop
Trail(sl, entry, peak, swing, atr, floorArmed, cfg) ==
    Max({sl} \cup (IF floorArmed THEN {entry + cfg.bonus} ELSE {})
             \cup (IF swing # None /\ atr > 0 THEN {swing - cfg.buffer * atr} ELSE {})
             \cup (IF atr > 0 /\ cfg.chandelier > 0 THEN {peak - cfg.chandelier * atr} ELSE {}))

-----------------------------------------------------------------------------
\* sizer.py

\* Below the minimum the minimum is taken, above the maximum the maximum.
ApplyConstraints(risk, perStep) ==
    IF risk < VolumeMin * perStep THEN VolumeMin
    ELSE IF risk > VolumeMax * perStep THEN VolumeMax
    ELSE risk \div perStep

\* Mutant: the minimum volume is taken whatever it risks.
SizeUncapped(risk, dist) == ApplyConstraints(risk, dist * Contract)
\* The cap on the risk comes after the constraints: 0 blocks the trade.
Size(risk, dist) ==
    LET perStep == dist * Contract
        volume == ApplyConstraints(risk, perStep)
        capped == (risk * (100 + RiskTolerance)) \div (100 * perStep)
    IN  IF 100 * volume * perStep <= risk * (100 + RiskTolerance) THEN volume
        ELSE IF capped < VolumeMin THEN 0 ELSE capped

-----------------------------------------------------------------------------
\* The whole plan for an entry at the close: on the signed axis
Plan(side, close, market, ai, risk) ==
    LET hint == HintFrom(ai.levels, side, close)
        sl == InitialStop(side, close, market.swings, market.atr, hint)
        targets == Targets(side, close, sl, market, ai.rr)
    IN  [side |-> side, sl |-> Signed(side, sl), tp1 |-> targets.tp1, tp2 |-> targets.tp2,
         tp3 |-> targets.tp3, risk |-> risk, volume |-> Size(risk, Distance(close, sl)),
         \* the target the broker gets: the farthest
         backstop |-> Max({targets.tp1, targets.tp2, targets.tp3})]
=============================================================================
