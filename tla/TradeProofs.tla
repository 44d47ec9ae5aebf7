---------------------------- MODULE TradeProofs ----------------------------
(***************************************************************************)
(* A trade from its plan to its result, for any market, AI answer, fills,  *)
(* limits and number of bridge failures: the plan is sound, the managed    *)
(* position is the one the broker holds, its risk stays within the cap;    *)
(* in the backtest no trade loses more than it was granted, the accounts   *)
(* are booked, the replay of the tape gives what the engine did, and the   *)
(* report adds up; the windows of a walk-forward run are sound.            *)
(***************************************************************************)
EXTENDS OrderEntry, Backtest, WalkForward, FiniteSetTheorems, SequenceTheorems, WellFoundedInduction, TLAPS

-----------------------------------------------------------------------------
\* Numbers

\* A set of integers with a lower bound has a least member, one with an upper
\* bound a greatest.
LEMMA LeastOfBounded ==
    ASSUME NEW S, S \subseteq Int, S # {}, NEW b \in Int, \A x \in S : b <= x
    PROVE  Min(S) \in S /\ \A x \in S : Min(S) <= x
  <1> DEFINE Less == OpToRel(<, Nat)
             Above == {k \in Nat : b + k \in S}
  <1>1. Above # {}
    <2>1. PICK x \in S : TRUE
      OBVIOUS
    <2>2. x - b \in Nat /\ b + (x - b) = x
      BY <2>1
    <2>3. x - b \in Above
      BY <2>1, <2>2
    <2> QED BY <2>3
  <1>2. PICK k \in Above : \A m \in Above : ~ (<<m, k>> \in Less)
    BY <1>1, NatLessThanWellFounded, WFMin
  <1>3. ASSUME NEW x \in S PROVE b + k <= x
    <2>1. x - b \in Nat /\ b + (x - b) = x
      OBVIOUS
    <2>2. x - b \in Above
      BY <2>1
    <2>3. ~ (x - b < k)
      BY <1>2, <2>1, <2>2 DEF OpToRel
    <2> QED BY <2>1, <2>3
  <1>4. \E m \in S : \A x \in S : m <= x
    BY <1>3
  <1> QED BY <1>4 DEF Min

LEMMA GreatestOfBounded ==
    ASSUME NEW S, S \subseteq Int, S # {}, NEW b \in Int, \A x \in S : x <= b
    PROVE  Max(S) \in S /\ \A x \in S : x <= Max(S)
  <1> DEFINE T == {-x : x \in S}
  <1>1. T \subseteq Int /\ -b \in Int /\ \A x \in T : -b <= x
    OBVIOUS
  <1>2. T # {}
    <2>1. PICK x \in S : TRUE
      OBVIOUS
    <2>2. -x \in T
      OBVIOUS
    <2> QED BY <2>2
  <1> HIDE DEF T
  <1>3. Min(T) \in T /\ \A x \in T : Min(T) <= x
    BY <1>1, <1>2, LeastOfBounded
  <1>4. PICK m \in S : Min(T) = -m
    BY <1>3 DEF T
  <1>5. ASSUME NEW x \in S PROVE x <= m
    <2>1. -x \in T
      BY DEF T
    <2>2. -m <= -x
      BY <1>3, <1>4, <2>1
    <2> QED BY <2>2
  <1>6. \E n \in S : \A x \in S : n >= x
    BY <1>5
  <1>7. Max(S) \in S /\ \A x \in S : Max(S) >= x
    BY <1>6 DEF Max
  <1> QED BY <1>7

\* A set of two or three integers has both.
LEMMA GreatestOfThree ==
    ASSUME NEW a \in Int, NEW b \in Int, NEW c \in Int
    PROVE  /\ Max({a, b, c}) \in {a, b, c}
           /\ \A x \in {a, b, c} : x <= Max({a, b, c})
  <1>1. PICK u \in {a, b, c} : \A x \in {a, b, c} : x <= u
    <2>1. CASE a <= b /\ b <= c  BY <2>1
    <2>2. CASE a <= b /\ c <= b  BY <2>2
    <2>3. CASE b <= a /\ a <= c  BY <2>3
    <2>4. CASE b <= a /\ c <= a  BY <2>4
    <2> QED BY <2>1, <2>2, <2>3, <2>4
  <1> QED BY <1>1, GreatestOfBounded

LEMMA LeastOfTwo ==
    ASSUME NEW a \in Int, NEW b \in Int
    PROVE  Min({a, b}) \in {a, b} /\ \A x \in {a, b} : Min({a, b}) <= x
  <1>1. \E m \in {a, b} : \A x \in {a, b} : m <= x
    <2>1. CASE a <= b  BY <2>1
    <2>2. CASE b <= a  BY <2>2
    <2> QED BY <2>1, <2>2
  <1> QED BY <1>1 DEF Min

LEMMA QuotientFits ==
    ASSUME NEW t \in Nat, NEW d \in Nat \ {0}
    PROVE  t \div d \in Nat /\ d * (t \div d) <= t
  OBVIOUS

LEMMA TimesMonotone ==
    ASSUME NEW a \in Int, NEW b \in Int, NEW d \in Nat, a <= b
    PROVE  d * a <= d * b
  OBVIOUS

-----------------------------------------------------------------------------
\* Volumes

\* Of the cap at a distance
LEMMA CapIsNat ==
    ASSUME NEW dist \in Nat \ {0}, NEW risk \in Nat
    PROVE  100 * dist * Contract \in Nat \ {0} /\ risk * (100 + RiskTolerance) \in Nat
  <1>1. Contract \in Nat \ {0} /\ RiskTolerance \in Nat
    BY PlanAssumption DEF PlanAssumption
  <1>2. \A a \in Nat \ {0}, b \in Nat \ {0} : a * b \in Nat \ {0}
    OBVIOUS
  <1>3. \A a \in Nat, b \in Nat : a * b \in Nat
    OBVIOUS
  <1> QED BY <1>1, <1>2, <1>3

LEMMA FittingVolumeIsNat ==
    ASSUME NEW dist \in Nat \ {0}
    PROVE  FittingVolume(dist) \in Nat
  <1> DEFINE d == 100 * dist * Contract
             cap == Risk * (100 + RiskTolerance)
  <1>1. d \in Nat \ {0} /\ cap \in Nat
    BY CapIsNat, EntriesAssumption DEF EntriesAssumption
  <1>2. FittingVolume(dist) = cap \div d
    BY DEF FittingVolume
  <1> HIDE DEF d, cap
  <1> QED BY <1>1, <1>2, QuotientFits

LEMMA FittingVolumeFits ==
    ASSUME NEW dist \in Nat \ {0}, NEW volume \in Int, volume <= FittingVolume(dist)
    PROVE  ~ OverCap(volume, dist)
  <1> DEFINE d == 100 * dist * Contract
             cap == Risk * (100 + RiskTolerance)
             q == cap \div d
  <1>1. d \in Nat \ {0} /\ cap \in Nat /\ Contract \in Nat
    BY CapIsNat, EntriesAssumption, PlanAssumption DEF EntriesAssumption, PlanAssumption
  <1>2. q \in Nat /\ d * q <= cap
    <2> HIDE DEF d, cap
    <2> QED BY <1>1, QuotientFits
  <1>3. volume <= q
    BY DEF FittingVolume
  <1>4. d * volume <= d * q
    <2> HIDE DEF d, q
    <2> QED BY <1>1, <1>2, <1>3, TimesMonotone
  <1>5. 100 * volume * dist * Contract = d * volume
    BY <1>1
  <1>6. d * volume <= cap
    <2>1. d * volume \in Int /\ d * q \in Int
      <3> HIDE DEF d, q
      <3> QED BY <1>1, <1>2
    <2> HIDE DEF d, q, cap
    <2> QED BY <1>1, <1>2, <1>4, <2>1
  <1> QED BY <1>1, <1>5, <1>6 DEF OverCap

LEMMA NoDistanceNoRisk ==
    ASSUME NEW volume \in Int
    PROVE  ~ OverCap(volume, 0)
  <1>1. Contract \in Nat /\ Risk * (100 + RiskTolerance) \in Nat
    BY PlanAssumption, EntriesAssumption, SMTT(30) DEF PlanAssumption, EntriesAssumption
  <1>2. 100 * volume * 0 * Contract = 0
    BY <1>1
  <1> QED BY <1>1, <1>2 DEF OverCap

LEMMA DistanceIsNat ==
    ASSUME NEW a \in Int, NEW b \in Int
    PROVE  Distance(a, b) \in Nat /\ (Distance(a, b) = 0 <=> a = b)
  BY DEF Distance

\* The sizer never risks more than the cap, whatever the broker's least and
\* greatest volume: below the least volume it blocks the trade.
THEOREM SizeWithinCap ==
    ASSUME NEW risk \in Nat, NEW dist \in Nat \ {0}
    PROVE  /\ Size(risk, dist) \in Nat
           /\ 100 * Size(risk, dist) * (dist * Contract) <= risk * (100 + RiskTolerance)
  <1> DEFINE perStep == dist * Contract
             d == 100 * perStep
             cap == risk * (100 + RiskTolerance)
             volume == ApplyConstraints(risk, perStep)
             capped == cap \div d
  <1>1. perStep \in Nat \ {0}
    <2>1. Contract \in Nat \ {0}
      BY PlanAssumption DEF PlanAssumption
    <2>2. \A a \in Nat \ {0}, b \in Nat \ {0} : a * b \in Nat \ {0}
      OBVIOUS
    <2> QED BY <2>1, <2>2
  <1>2. d \in Nat \ {0} /\ cap \in Nat
    <2>1. 100 * dist * Contract = d
      BY PlanAssumption DEF PlanAssumption
    <2> QED BY <2>1, CapIsNat
  <1>3. volume \in Nat
    <2>1. risk \div perStep \in Nat
      <3> HIDE DEF perStep
      <3> QED BY <1>1, QuotientFits
    <2> HIDE DEF perStep
    <2> QED BY <2>1, PlanAssumption DEF ApplyConstraints, PlanAssumption
  <1>4. capped \in Nat /\ d * capped <= cap
    <2> HIDE DEF d, cap
    <2> QED BY <1>2, QuotientFits
  <1>5. Size(risk, dist) = IF 100 * volume * perStep <= cap THEN volume
                           ELSE IF capped < VolumeMin THEN 0 ELSE capped
    BY DEF Size
  <1> HIDE DEF volume, capped, cap
  <1>6. 100 * capped * perStep = d * capped /\ 100 * 0 * perStep = 0
    <2> HIDE DEF perStep
    <2> QED BY <1>1, <1>4
  <1> SUFFICES Size(risk, dist) \in Nat /\ 100 * Size(risk, dist) * perStep <= cap
    BY DEF cap
  <1> HIDE DEF perStep, d
  <1>7. CASE 100 * volume * perStep <= cap
    BY <1>3, <1>5, <1>7
  <1>8. CASE ~ (100 * volume * perStep <= cap) /\ capped < VolumeMin
    BY <1>2, <1>5, <1>6, <1>8
  <1>9. CASE ~ (100 * volume * perStep <= cap) /\ ~ (capped < VolumeMin)
    BY <1>4, <1>5, <1>6, <1>9
  <1> QED BY <1>7, <1>8, <1>9

-----------------------------------------------------------------------------
\* The plan

Level == Int \cup {None}

\* What a plan is made of: any part of the market may be missing, and the AI may
\* name levels and targets of any size.
PlanInputs(side, close, market, ai) ==
    /\ side \in Sides /\ close \in Int
    /\ ai.levels \subseteq Int /\ ai.rr[1] \in Level /\ ai.rr[2] \in Level
    /\ market.atr \in Int /\ market.swings[side] \in Level
    /\ market.centers # None => market.centers \subseteq Int
    /\ market.gaps # None => market.gaps \in Seq([bull : BOOLEAN, top : Int, bottom : Int])
    /\ market.profiles \in Seq([vah : Level, val : Level, vpoc : Level])

LEMMA EntryTyped ==
    ASSUME NEW e \in Entries
    PROVE  PlanInputs(e.side, e.price, e.market, e.ai) /\ Risk \in Nat
  <1>1. /\ e.side \in Sides /\ e.price \in Int /\ e.market.atr \in Int
        /\ e.ai.levels \subseteq Int /\ Risk \in Nat
    BY EntriesAssumption DEF EntriesAssumption
  <1>2. e.ai.rr \in [1..2 -> Level] /\ e.market.swings \in [Sides -> Level]
    BY EntriesAssumption DEF EntriesAssumption, Level
  <1>3. /\ e.market.centers # None => e.market.centers \subseteq Int
        /\ e.market.gaps # None => e.market.gaps \in Seq([bull : BOOLEAN, top : Int, bottom : Int])
    BY EntriesAssumption DEF EntriesAssumption
  <1>4. e.market.profiles \in Seq([vah : Level, val : Level, vpoc : Level])
    BY EntriesAssumption DEF EntriesAssumption, Level
  <1>5. e.ai.rr[1] \in Level /\ e.ai.rr[2] \in Level /\ e.market.swings[e.side] \in Level
    BY <1>1, <1>2
  <1> QED BY <1>1, <1>3, <1>4, <1>5 DEF PlanInputs

LEMMA SignedInt ==
    ASSUME NEW side, NEW x \in Int
    PROVE  Signed(side, x) \in Int /\ Signed(side, Signed(side, x)) = x
  BY DEF Signed

\* Distances are the same on the signed axis.
LEMMA SignedDistance ==
    ASSUME NEW side, NEW x \in Int, NEW y \in Int, Signed(side, y) <= Signed(side, x)
    PROVE  Distance(x, y) = Signed(side, x) - Signed(side, y)
  BY DEF Signed, Distance

LEMMA HintTyped ==
    ASSUME NEW levels \in SUBSET Int, NEW side, NEW entry \in Int
    PROVE  HintFrom(levels, side, entry) \in Level
  <1> DEFINE plausible == {x \in levels :
                /\ HintMin <= x /\ x <= HintMax
                /\ 100 * Distance(x, entry) <= HintBand * entry
                /\ Signed(side, x) < Signed(side, entry)}
             S == {Signed(side, x) : x \in plausible}
  <1>1. \A x \in S : x \in Int /\ x <= Signed(side, entry)
    BY SignedInt
  <1>2. CASE plausible = {}
    BY <1>2 DEF HintFrom, Level
  <1>3. CASE plausible # {}
    <2>1. S # {} /\ S \subseteq Int
      BY <1>1, <1>3
    <2>2. Signed(side, entry) \in Int
      BY SignedInt
    <2> HIDE DEF S
    <2>3. Max(S) \in Int
      BY <1>1, <2>1, <2>2, GreatestOfBounded
    <2>4. HintFrom(levels, side, entry) = Signed(side, Max(S))
      BY <1>3 DEF HintFrom, S
    <2> QED BY <2>3, <2>4, SignedInt DEF Level
  <1> QED BY <1>2, <1>3

\* The stop lies at least the floor behind the entry.
LEMMA StopBehind ==
    ASSUME NEW side, NEW entry \in Int, NEW swings, swings[side] \in Level, NEW atr \in Int, NEW hint \in Level
    PROVE  LET sl == InitialStop(side, entry, swings, atr, hint)
           IN  /\ sl \in Int /\ SlFloor(atr) \in Nat
               /\ Signed(side, sl) <= Signed(side, entry) - SlFloor(atr)
  <1> DEFINE e == Signed(side, entry)
             hinted == hint # None /\ Signed(side, hint) < e
             anchor == IF hinted THEN hint ELSE swings[side]
             back == InitialSlAtr * atr
             behind == IF anchor # None /\ atr > 0
                       THEN Signed(side, anchor) - back
                       ELSE e - (IF back # 0 THEN back ELSE NoAtrStop)
             sane == IF Signed(side, behind) <= 0 THEN e - 1 ELSE behind
  <1>1. /\ InitialSlAtr \in Nat /\ NoAtrStop \in Nat /\ MinSlAtr \in Nat /\ MinSlPoints \in Nat
        /\ None \notin Int
    BY PlanAssumption DEF PlanAssumption
  <1>2. e \in Int /\ back \in Int /\ MinSlAtr * atr \in Int
    BY <1>1, SignedInt
  <1>3. anchor \in Level /\ (anchor # None => Signed(side, anchor) \in Int)
    BY SignedInt DEF Level
  <1> HIDE DEF e, back, anchor
  <1>4. behind \in Int
    BY <1>1, <1>2, <1>3
  <1> HIDE DEF behind
  <1>5. sane \in Int
    BY <1>2, <1>4
  <1>6. SlFloor(atr) \in Nat
    <2> DEFINE a == MinSlAtr * atr
    <2>1. SlFloor(atr) = Max({a, MinSlPoints})
      BY DEF SlFloor
    <2>2. a \in Int /\ MinSlPoints \in Int
      BY <1>1, <1>2
    <2> HIDE DEF a
    <2>3. /\ Max({a, MinSlPoints, MinSlPoints}) \in {a, MinSlPoints, MinSlPoints}
          /\ MinSlPoints <= Max({a, MinSlPoints, MinSlPoints})
      BY <2>2, GreatestOfThree
    <2>4. {a, MinSlPoints, MinSlPoints} = {a, MinSlPoints}
      OBVIOUS
    <2> QED BY <1>1, <2>1, <2>2, <2>3, <2>4
  <1> HIDE DEF sane
  <1> DEFINE floor == e - SlFloor(atr)
             least == Min({sane, floor})
  <1>7. least \in Int /\ least <= e - SlFloor(atr)
    <2>1. floor \in Int
      BY <1>2, <1>6
    <2> HIDE DEF floor
    <2>2. least \in {sane, floor} /\ least <= floor
      BY <1>5, <2>1, LeastOfTwo
    <2> QED BY <1>5, <2>1, <2>2 DEF floor
  <1>8. InitialStop(side, entry, swings, atr, hint) = Signed(side, least)
    BY DEF InitialStop, sane, behind, anchor, back, e
  <1> HIDE DEF least
  <1>9. Signed(side, least) \in Int /\ Signed(side, Signed(side, least)) = least
    BY <1>7, SignedInt
  <1> QED BY <1>6, <1>7, <1>8, <1>9 DEF e

\* A level of the market that is taken for a target lies ahead of the price it is
\* sought from.
Ahead(side, from, x) == x \in Level /\ (x # None => Signed(side, from) < Signed(side, x))

LEMMA ZoneAhead ==
    ASSUME NEW centers \in SUBSET Int, NEW side, NEW entry \in Int
    PROVE  Ahead(side, entry, NearestZone(centers, side, entry))
  <1> DEFINE ahead == {Signed(side, c) : c \in {x \in centers : Signed(side, x) > Signed(side, entry)}}
  <1>1. \A x \in ahead : x \in Int /\ Signed(side, entry) < x
    BY SignedInt
  <1>2. Signed(side, entry) \in Int
    BY SignedInt
  <1>3. NearestZone(centers, side, entry) = IF ahead = {} THEN None ELSE Signed(side, Min(ahead))
    BY DEF NearestZone
  <1> HIDE DEF ahead
  <1>4. ahead # {} => Min(ahead) \in ahead
    BY <1>1, <1>2, LeastOfBounded
  <1>5. ahead # {} => Min(ahead) \in Int /\ Signed(side, entry) < Min(ahead)
    BY <1>1, <1>4
  <1> QED BY <1>3, <1>5, SignedInt DEF Ahead, Level

LEMMA ElementTyped == ASSUME NEW T, NEW s \in Seq(T), NEW i \in DOMAIN s PROVE s[i] \in T
  OBVIOUS

\* The first place of a list with a property is a place of it with the property.
LEMMA FirstPlace ==
    ASSUME NEW T, NEW s \in Seq(T), NEW S \in SUBSET DOMAIN s, S # {}
    PROVE  Min(S) \in S
  <1>1. S \subseteq Int /\ \A i \in S : 1 <= i
    OBVIOUS
  <1> QED BY <1>1, LeastOfBounded

LEMMA GapAhead ==
    ASSUME NEW gaps \in Seq([bull : BOOLEAN, top : Int, bottom : Int]), NEW side, NEW entry \in Int
    PROVE  Ahead(side, entry, FirstGap(gaps, side, entry))
  <1> DEFINE edge(z) == IF z.bull THEN z.top ELSE z.bottom
             usable == {i \in DOMAIN gaps : gaps[i].bull = (side = "long")
                                             /\ Signed(side, edge(gaps[i])) > Signed(side, entry)}
  <1>1. usable # {} => Min(usable) \in usable
    <2>1. usable \in SUBSET DOMAIN gaps
      OBVIOUS
    <2> HIDE DEF usable
    <2> QED BY <2>1, FirstPlace
  <1>2. FirstGap(gaps, side, entry) = IF usable = {} THEN None ELSE edge(gaps[Min(usable)])
    BY DEF FirstGap
  <1>3. \A i \in DOMAIN gaps : edge(gaps[i]) \in Int
    <2>1. \A i \in DOMAIN gaps : gaps[i] \in [bull : BOOLEAN, top : Int, bottom : Int]
      BY ElementTyped
    <2>2. \A z \in [bull : BOOLEAN, top : Int, bottom : Int] : edge(z) \in Int
      OBVIOUS
    <2> HIDE DEF edge
    <2> QED BY <2>1, <2>2
  <1>4. \A i \in usable : i \in DOMAIN gaps /\ Signed(side, entry) < Signed(side, edge(gaps[i]))
    <2>1. \A i \in DOMAIN gaps : Signed(side, edge(gaps[i])) \in Int /\ Signed(side, entry) \in Int
      <3> HIDE DEF edge
      <3> QED BY <1>3, SignedInt
    <2> QED BY <2>1
  <1> HIDE DEF usable, edge
  <1> QED BY <1>1, <1>2, <1>3, <1>4 DEF Ahead, Level

LEMMA LevelAhead ==
    ASSUME NEW profiles \in Seq([vah : Level, val : Level, vpoc : Level]), NEW side, NEW beyond \in Int
    PROVE  Ahead(side, beyond, HtfLevel(profiles, side, beyond))
  <1> DEFINE On(p) == {Signed(side, x) : x \in {y \in {IF side = "long" THEN p.vah ELSE p.val, p.vpoc} :
                                y # None /\ Signed(side, y) > Signed(side, beyond)}}
             with == {i \in DOMAIN profiles : On(profiles[i]) # {}}
             first == On(profiles[Min(with)])
  <1>1. ASSUME NEW i \in DOMAIN profiles
        PROVE  \A x \in On(profiles[i]) : x \in Int /\ Signed(side, beyond) < x
    <2>1. profiles[i] \in [vah : Level, val : Level, vpoc : Level]
      BY ElementTyped
    <2>2. \A y \in Level : y # None => Signed(side, y) \in Int
      BY SignedInt DEF Level
    <2>3. Signed(side, beyond) \in Int
      BY SignedInt
    <2> QED BY <2>1, <2>2, <2>3
  <1>2. HtfLevel(profiles, side, beyond) = IF with = {} THEN None ELSE Signed(side, Min(first))
    BY DEF HtfLevel
  <1>3. ASSUME with # {} PROVE Min(first) \in Int /\ Signed(side, beyond) < Min(first)
    <2>1. Min(with) \in with
      <3>1. with \in SUBSET DOMAIN profiles
        OBVIOUS
      <3> HIDE DEF with
      <3> QED BY <1>3, <3>1, FirstPlace
    <2>2. first # {} /\ \A x \in first : x \in Int /\ Signed(side, beyond) < x
      BY <1>1, <2>1
    <2>3. Signed(side, beyond) \in Int
      BY SignedInt
    <2> HIDE DEF first
    <2>4. Min(first) \in first
      BY <2>2, <2>3, LeastOfBounded
    <2> QED BY <2>2, <2>4
  <1> HIDE DEF with, first
  <1> QED BY <1>2, <1>3, SignedInt DEF Ahead, Level

\* All targets lie ahead of the entry, the runner beyond the second, whatever the
\* AI asks for and whatever the bundle lacks.
LEMMA TargetsAhead ==
    ASSUME NEW side, NEW close, NEW market, NEW ai, PlanInputs(side, close, market, ai),
           NEW sl \in Int, sl # close
    PROVE  LET t == Targets(side, close, sl, market, ai.rr)
           IN  /\ t.tp1 \in Int /\ t.tp2 \in Int /\ t.tp3 \in Int
               /\ Signed(side, close) < t.tp1 /\ Signed(side, close) < t.tp2 /\ t.tp2 < t.tp3
  <1> DEFINE rr == ai.rr
             at == Signed(side, close)
             dist == Distance(close, sl)
             valid(x) == IF x # None /\ 0 < x /\ x <= MaxRr THEN x ELSE None
             swap == valid(rr[1]) # None /\ valid(rr[2]) # None /\ valid(rr[1]) > valid(rr[2])
             first == IF swap THEN valid(rr[2]) ELSE valid(rr[1])
             second == IF swap THEN valid(rr[1]) ELSE valid(rr[2])
             zone == IF market.centers = None THEN None ELSE NearestZone(market.centers, side, close)
             gap == IF market.gaps = None THEN None ELSE FirstGap(market.gaps, side, close)
             tp1 == IF first # None THEN at + first * dist
                    ELSE IF zone # None THEN Signed(side, zone) ELSE at + dist
             tp2 == IF second # None THEN at + second * dist
                    ELSE IF gap # None THEN Signed(side, gap) ELSE at + 2 * dist
             level == HtfLevel(market.profiles, side, Signed(side, tp2))
             tp3 == Runner(tp2, IF level = None THEN at + 3 * dist ELSE Signed(side, level), dist)
  <1>0. PlanInputs(side, close, market, ai) /\ close \in Int
    BY DEF PlanInputs
  <1>1. at \in Int /\ dist \in Nat \ {0}
    BY <1>0, SignedInt, DistanceIsNat
  <1>2. /\ first \in Level /\ (first # None => 0 < first)
        /\ second \in Level /\ (second # None => 0 < second)
    BY <1>0 DEF PlanInputs, Level
  <1>3. Ahead(side, close, zone)
    BY <1>0, ZoneAhead DEF PlanInputs, Ahead, Level
  <1>4. Ahead(side, close, gap)
    BY <1>0, GapAhead DEF PlanInputs, Ahead, Level
  <1>5. Targets(side, close, sl, market, ai.rr) = [tp1 |-> tp1, tp2 |-> tp2, tp3 |-> tp3]
    BY DEF Targets
  <1>6. (zone # None => Signed(side, zone) \in Int /\ at < Signed(side, zone))
        /\ (gap # None => Signed(side, gap) \in Int /\ at < Signed(side, gap))
    BY <1>3, <1>4, SignedInt DEF Ahead, Level
  <1> HIDE DEF at, dist, first, second, zone, gap
  <1>7. \A a \in Int, b \in Nat \ {0} : 0 < a => a * b \in Int /\ 0 < a * b
    OBVIOUS
  <1>8. (first # None => first * dist \in Int /\ 0 < first * dist)
        /\ (second # None => second * dist \in Int /\ 0 < second * dist)
    BY <1>1, <1>2, <1>7 DEF Level
  <1>9. tp1 \in Int /\ at < tp1
    BY <1>1, <1>6, <1>8
  <1>10. tp2 \in Int /\ at < tp2
    BY <1>1, <1>6, <1>8
  <1> HIDE DEF tp1, tp2
  <1>11. level \in Level
    BY <1>0, <1>10, SignedInt, LevelAhead DEF PlanInputs, Ahead
  <1>12. level # None => Signed(side, level) \in Int
    BY <1>11, SignedInt DEF Level
  <1> HIDE DEF level
  <1>13. tp3 \in Int /\ tp2 < tp3
    BY <1>1, <1>10, <1>12 DEF Runner
  <1> HIDE DEF tp3
  <1> QED BY <1>5, <1>9, <1>10, <1>13 DEF at

\* A plan that is acted on faces the trade: its stop is at least the floor behind
\* the price, its targets lie ahead and the runner beyond the second, the broker
\* is given none that is nearer, and the volume risks no more than the cap.
THEOREM PlanIsSound ==
    ASSUME NEW side, NEW close, NEW market, NEW ai, PlanInputs(side, close, market, ai),
           NEW risk \in Nat, NEW p, p = Plan(side, close, market, ai, risk), Signed(side, close) # p.sl
    PROVE  /\ {p.sl, p.tp1, p.tp2, p.tp3} \subseteq Int /\ p.volume \in Nat /\ p.side = side
           /\ p.sl < Signed(side, close) /\ p.sl <= Signed(side, close) - SlFloor(market.atr)
           /\ Signed(side, close) < p.tp1 /\ Signed(side, close) < p.tp2 /\ p.tp2 < p.tp3
           /\ \A tp \in {p.tp1, p.tp2, p.tp3} : tp <= p.backstop
           /\ 100 * p.volume * ((Signed(side, close) - p.sl) * Contract) <= risk * (100 + RiskTolerance)
  <1> DEFINE at == Signed(side, close)
             hint == HintFrom(ai.levels, side, close)
             sl == InitialStop(side, close, market.swings, market.atr, hint)
             t == Targets(side, close, sl, market, ai.rr)
             dist == Distance(close, sl)
  <1>0. close \in Int /\ ai.levels \subseteq Int /\ market.atr \in Int /\ market.swings[side] \in Level
    BY DEF PlanInputs
  <1>1. hint \in Level
    BY <1>0, HintTyped
  <1> HIDE DEF hint
  <1>2. sl \in Int /\ SlFloor(market.atr) \in Nat /\ Signed(side, sl) <= at - SlFloor(market.atr)
    BY <1>0, <1>1, StopBehind
  <1>3. /\ p.sl = Signed(side, sl) /\ p.volume = Size(risk, dist) /\ p.side = side
        /\ p.tp1 = t.tp1 /\ p.tp2 = t.tp2 /\ p.tp3 = t.tp3
        /\ p.backstop = Max({t.tp1, t.tp2, t.tp3})
    BY DEF Plan, hint
  <1> HIDE DEF sl
  <1>4. sl # close
    BY <1>3
  <1>5. /\ t.tp1 \in Int /\ t.tp2 \in Int /\ t.tp3 \in Int
        /\ at < t.tp1 /\ at < t.tp2 /\ t.tp2 < t.tp3
    BY <1>2, <1>4, TargetsAhead
  <1> HIDE DEF t
  <1>6. \A tp \in {p.tp1, p.tp2, p.tp3} : tp <= p.backstop
    <2>1. \A tp \in {t.tp1, t.tp2, t.tp3} : tp <= Max({t.tp1, t.tp2, t.tp3})
      BY <1>5, GreatestOfThree
    <2> QED BY <1>3, <2>1
  <1>7. at \in Int /\ p.sl \in Int
    BY <1>0, <1>2, <1>3, SignedInt
  <1>8. p.sl <= at - SlFloor(market.atr) /\ p.sl < at
    BY <1>2, <1>3, <1>7
  <1>9. dist \in Nat \ {0} /\ dist = at - p.sl
    BY <1>0, <1>2, <1>3, <1>4, <1>7, <1>8, DistanceIsNat, SignedDistance
  <1>10. /\ p.volume \in Nat
         /\ 100 * p.volume * (dist * Contract) <= risk * (100 + RiskTolerance)
    BY <1>3, <1>9, SizeWithinCap
  <1> QED BY <1>3, <1>5, <1>6, <1>7, <1>8, <1>9, <1>10

-----------------------------------------------------------------------------
\* The invariant

Working == pc # "idle"
AtBroker == pc \in {"filled", "trimmed"}

TypeOK ==
    /\ bridge \in {"mt5linux", "rpyc"} /\ decided \in Nat /\ counted \in Nat
    /\ pc \in {"idle", "check", "send", "filled", "trimmed"}
    /\ mishaps = [refused |-> mishaps.refused, unnoticed |-> mishaps.unnoticed, dropped |-> mishaps.dropped]
    /\ \A t \in DOMAIN book :
        /\ {"side", "volume", "sl", "tp", "entry"} = DOMAIN book[t]
        /\ {book[t].volume, book[t].sl, book[t].entry} \subseteq Int

\* A ticket is the number of the decision that led to it: the one in work is
\* the last, and nothing of it is kept before it is registered.
Tickets ==
    /\ DOMAIN book \subseteq 1..decided /\ DOMAIN managed \subseteq 1..decided /\ trades \subseteq 1..decided
    /\ Working => decided >= 1 /\ decided \notin DOMAIN managed \cup trades
    /\ Working /\ ~AtBroker => decided \notin DOMAIN book

\* What process() has in its local variables is what the broker has of it.
InWork ==
    LET p == order.plan
    IN  /\ Working =>
            /\ order = [plan |-> p, price |-> order.price, ticket |-> decided,
                        fill |-> order.fill, volume |-> order.volume]
            /\ {order.price, order.volume, p.sl} \subseteq Int
            /\ \A tp \in {p.tp1, p.tp2, p.tp3} : tp <= p.backstop
        /\ Working /\ ~AtBroker => order.volume = p.volume
        /\ AtBroker => order.fill \in Int
        /\ AtBroker /\ decided \in DOMAIN book =>
            /\ book[decided].sl = p.sl /\ book[decided].entry = order.fill /\ book[decided].tp = p.backstop
            /\ book[decided].volume = order.volume \/ decided \in mishaps.refused

Covered ==
    DOMAIN book \subseteq DOMAIN managed \cup mishaps.unnoticed \cup mishaps.dropped
                            \cup (IF AtBroker THEN {decided} ELSE {})

EntryInv == TypeOK /\ Tickets /\ InWork /\ Covered /\ ManagedAsHeld /\ RiskWithinCap

\* The invariant leaves out where the client is and what the safety check keeps.
LEMMA EntryInvKept ==
    ASSUME EntryInv, UNCHANGED <<bridge, pc, order, decided, book, kept, mishaps>>
    PROVE  EntryInv'
  BY DEF EntryInv, TypeOK, Tickets, InWork, Working, AtBroker, Covered, ManagedAsHeld, RiskWithinCap, kept

LEMMA TradesFinite == ASSUME EntryInv PROVE IsFiniteSet(trades) /\ Cardinality(trades) \in Nat
  <1>1. IsFiniteSet(1..decided)
    BY FS_Interval DEF EntryInv, TypeOK
  <1> QED BY <1>1, FS_Subset, FS_CardinalityType DEF EntryInv, Tickets

LEMMA InitEntry == Init => EntryInv
  <1> SUFFICES ASSUME Init PROVE EntryInv
    OBVIOUS
  <1>1. DOMAIN book = {} /\ DOMAIN managed = {} /\ trades = {} /\ zones = {}
    BY DEF Init
  <1>2. TypeOK
    BY <1>1, EntriesAssumption DEF Init, TypeOK, EntriesAssumption
  <1>3. Tickets /\ InWork /\ Covered
    BY <1>1 DEF Init, Tickets, InWork, Covered, Working, AtBroker
  <1>4. ManagedAsHeld /\ RiskWithinCap
    BY <1>1, FS_EmptySet DEF Init, ManagedAsHeld, RiskWithinCap
  <1> QED BY <1>2, <1>3, <1>4 DEF EntryInv

LEMMA BrokerClosesEntry ==
    ASSUME EntryInv, NEW t \in DOMAIN book, BrokerCloses(t)
    PROVE  EntryInv'
  <1>1. /\ DOMAIN book' = DOMAIN book \ {t} /\ \A u \in DOMAIN book' : book'[u] = book[u]
        /\ UNCHANGED <<bridge, pc, order, decided, managed, zones, trades, counted, mishaps>>
    BY DEF BrokerCloses, Restrict, kept, broker
  <1>2. TypeOK' /\ Tickets' /\ InWork' /\ Covered'
    BY <1>1 DEF EntryInv, TypeOK, Tickets, InWork, Covered, Working, AtBroker
  <1>3. ManagedAsHeld' /\ RiskWithinCap'
    BY <1>1 DEF EntryInv, ManagedAsHeld, RiskWithinCap
  <1> QED BY <1>2, <1>3 DEF EntryInv

LEMMA ManageEntry ==
    ASSUME EntryInv, NEW blind \in BOOLEAN, Manage(blind)
    PROVE  EntryInv'
  <1> DEFINE there == IF blind THEN {} ELSE DOMAIN book
             gone == DOMAIN managed \ there
  <1>1. UNCHANGED <<bridge, pc, order, decided, book, trades, counted>> /\ pc = "idle"
    BY DEF Manage
  <1>2. CASE UNCHANGED <<managed, zones, mishaps>>
    BY <1>1, <1>2, EntryInvKept DEF kept
  <1>3. CASE ~ UNCHANGED <<managed, zones, mishaps>>
    <2>1. /\ DOMAIN managed' = DOMAIN managed \ gone /\ \A t \in DOMAIN managed' : managed'[t] = managed[t]
          /\ zones' = zones \ gone
          /\ mishaps' = [mishaps EXCEPT !.dropped = @ \cup (gone \cap DOMAIN book)]
      BY <1>3 DEF Manage, Restrict, Released
    <2>2. /\ mishaps' = [refused |-> mishaps'.refused, unnoticed |-> mishaps'.unnoticed,
                         dropped |-> mishaps'.dropped]
          /\ mishaps'.refused = mishaps.refused /\ mishaps'.unnoticed = mishaps.unnoticed
          /\ mishaps'.dropped = mishaps.dropped \cup (gone \cap DOMAIN book)
      BY <2>1 DEF EntryInv, TypeOK
    <2> HIDE DEF gone
    <2>3. TypeOK' /\ Tickets' /\ InWork' /\ Covered'
      BY <1>1, <2>1, <2>2 DEF EntryInv, TypeOK, Tickets, InWork, Covered, Working, AtBroker
    <2>4. ManagedAsHeld'
      BY <1>1, <2>1, <2>2 DEF EntryInv, ManagedAsHeld
    <2>5. RiskWithinCap'
      BY <1>1, <2>1, <2>2 DEF EntryInv, RiskWithinCap
    <2> QED BY <2>3, <2>4, <2>5 DEF EntryInv
  <1> QED BY <1>2, <1>3

LEMMA DecideEntry ==
    ASSUME EntryInv, NEW e \in Entries, Decide(e)
    PROVE  EntryInv'
  <1> DEFINE plan == Plan(e.side, e.price, e.market, e.ai, Risk)
             taken == [plan |-> plan, price |-> Signed(e.side, e.price),
                       ticket |-> decided + 1, fill |-> None, volume |-> plan.volume]
  <1>1. /\ UNCHANGED <<bridge, book, managed, zones, trades, counted, mishaps>>
        /\ pc = "idle" /\ decided' = decided + 1
    BY DEF Decide, kept, broker
  <1>2. decided \in Nat /\ 1..decided \subseteq 1..decided' /\ decided' \notin 1..decided
    BY <1>1 DEF EntryInv, TypeOK
  <1>3. /\ DOMAIN book \subseteq 1..decided' /\ DOMAIN managed \subseteq 1..decided' /\ trades \subseteq 1..decided'
        /\ decided' \notin DOMAIN book \cup DOMAIN managed \cup trades
    BY <1>2 DEF EntryInv, Tickets
  <1>4. CASE UNCHANGED <<pc, order>>
    BY <1>1, <1>2, <1>3, <1>4 DEF EntryInv, TypeOK, Tickets, InWork, Covered, Working, AtBroker,
                                  ManagedAsHeld, RiskWithinCap
  <1>5. CASE ~ UNCHANGED <<pc, order>>
    <2>1. pc' = "check" /\ order' = taken /\ Signed(e.side, e.price) # plan.sl
      BY <1>5 DEF Decide
    <2>2. Signed(e.side, e.price) \in Int
      BY EntryTyped, SignedInt DEF PlanInputs
    <2>3. plan.sl \in Int /\ plan.volume \in Nat /\ \A tp \in {plan.tp1, plan.tp2, plan.tp3} : tp <= plan.backstop
      BY <2>1, EntryTyped, PlanIsSound
    <2> HIDE DEF plan
    <2>4. TypeOK' /\ Tickets' /\ Covered'
      BY <1>1, <1>2, <1>3, <2>1 DEF EntryInv, TypeOK, Tickets, Covered, Working, AtBroker
    <2>5. InWork'
      BY <1>1, <2>1, <2>2, <2>3 DEF InWork, Working, AtBroker
    <2>6. ManagedAsHeld' /\ RiskWithinCap'
      BY <1>1, <2>1 DEF EntryInv, ManagedAsHeld, RiskWithinCap
    <2> QED BY <2>4, <2>5, <2>6 DEF EntryInv
  <1> QED BY <1>4, <1>5

LEMMA CheckEntry ==
    ASSUME EntryInv, NEW equity \in Equities, NEW clear \in BOOLEAN, Check(equity, clear)
    PROVE  EntryInv'
  <1>1. /\ UNCHANGED <<bridge, decided, book, managed, zones, trades, counted, mishaps>> /\ pc = "check"
        /\ \/ pc' = "send" /\ UNCHANGED order
           \/ pc' = "idle" /\ order' = NoOrder
    BY DEF Check, kept, broker
  <1>2. TypeOK' /\ Tickets' /\ InWork' /\ Covered'
    BY <1>1 DEF EntryInv, TypeOK, Tickets, InWork, Covered, Working, AtBroker
  <1>3. ManagedAsHeld' /\ RiskWithinCap'
    BY <1>1 DEF EntryInv, Covered, Working, AtBroker, ManagedAsHeld, RiskWithinCap
  <1> QED BY <1>2, <1>3 DEF EntryInv

LEMMA SendEntry ==
    ASSUME EntryInv, NEW slip \in Slips, NEW fill \in 0..VolumeMax,
           NEW reply \in {"done", "partial", "rejected", "lost"}, Send(slip, fill, reply)
    PROVE  EntryInv'
  <1> DEFINE t == order.ticket
             held == Filled(Request(order.plan), fill, order.price + slip)
             at == order.price + slip
  <1>1. /\ UNCHANGED <<bridge, decided, managed, zones, trades>> /\ pc = "send"
        /\ reply = "done" => fill = order.plan.volume
        /\ book' = IF fill = 0 THEN book ELSE Put(book, t, held)
        /\ mishaps' = IF fill > 0 /\ reply # "done"
                      THEN [mishaps EXCEPT !.unnoticed = @ \cup {t}] ELSE mishaps
        /\ IF reply = "done"
           THEN pc' = "filled" /\ order' = [order EXCEPT !.fill = at] /\ counted' = counted + 1
           ELSE pc' = "idle" /\ order' = NoOrder /\ UNCHANGED counted
    BY DEF Send, Accepted
  <1>2. /\ t = decided /\ decided >= 1 /\ decided \notin DOMAIN book \cup DOMAIN managed \cup trades
        /\ {order.price, order.volume, order.plan.sl} \subseteq Int /\ order.volume = order.plan.volume
        /\ \A tp \in {order.plan.tp1, order.plan.tp2, order.plan.tp3} : tp <= order.plan.backstop
        /\ order = [plan |-> order.plan, price |-> order.price, ticket |-> decided,
                    fill |-> order.fill, volume |-> order.volume]
    BY <1>1 DEF EntryInv, Tickets, InWork, Working, AtBroker
  <1>3. at \in Int /\ fill \in Int
    BY <1>2, EntriesAssumption, PlanAssumption, SMTT(30) DEF EntriesAssumption, PlanAssumption
  <1>4. /\ held.volume = fill /\ held.sl = order.plan.sl /\ held.entry = at /\ held.tp = order.plan.backstop
    BY DEF Filled, Request
  <1> HIDE DEF held, at, t
  <1>5. /\ DOMAIN book' = IF fill = 0 THEN DOMAIN book ELSE DOMAIN book \cup {decided}
        /\ \A u \in DOMAIN book : book'[u] = book[u]
        /\ decided \in DOMAIN book' => book'[decided] = held
    BY <1>1, <1>2 DEF Put
  <1>6. /\ mishaps' = [refused |-> mishaps'.refused, unnoticed |-> mishaps'.unnoticed,
                       dropped |-> mishaps'.dropped]
        /\ mishaps'.refused = mishaps.refused /\ mishaps'.dropped = mishaps.dropped
        /\ mishaps'.unnoticed = IF fill > 0 /\ reply # "done"
                                THEN mishaps.unnoticed \cup {decided} ELSE mishaps.unnoticed
    BY <1>1, <1>2 DEF EntryInv, TypeOK
  <1>7. decided \in Nat /\ counted \in Nat /\ bridge \in {"mt5linux", "rpyc"}
    BY DEF EntryInv, TypeOK
  <1>8. TypeOK'
    <2>1. ASSUME NEW u \in DOMAIN book'
          PROVE  /\ {"side", "volume", "sl", "tp", "entry"} = DOMAIN book'[u]
                 /\ {book'[u].volume, book'[u].sl, book'[u].entry} \subseteq Int
      <3>1. DOMAIN held = {"side", "volume", "sl", "tp", "entry"}
        BY DEF held, Filled
      <3> QED BY <1>2, <1>3, <1>4, <1>5, <3>1 DEF EntryInv, TypeOK
    <2>2. pc' \in {"idle", "filled"} /\ counted' \in Nat
      BY <1>1, <1>7
    <2> QED BY <1>1, <1>6, <1>7, <2>1, <2>2 DEF TypeOK
  <1>9. DOMAIN book' \subseteq 1..decided /\ DOMAIN managed \subseteq 1..decided /\ trades \subseteq 1..decided
    <2>1. decided \in 1..decided
      <3>1. decided >= 1
        BY <1>1 DEF EntryInv, Tickets, Working
      <3> QED BY <1>7, <3>1
    <2> QED BY <1>5, <2>1 DEF EntryInv, Tickets
  <1>10. Tickets'
    BY <1>1, <1>2, <1>9 DEF Tickets, Working, AtBroker
  <1>11. CASE reply = "done"
    <2>1. /\ order' = [plan |-> order.plan, price |-> order.price, ticket |-> decided,
                       fill |-> at, volume |-> order.volume]
          /\ pc' = "filled" /\ counted' = counted + 1
      BY <1>1, <1>2, <1>11
    <2>2. InWork'
      BY <1>1, <1>2, <1>3, <1>4, <1>5, <1>11, <2>1 DEF InWork, Working, AtBroker
    <2>3. Covered'
      BY <1>1, <1>5, <1>6, <2>1 DEF EntryInv, Covered, AtBroker
    <2>4. ManagedAsHeld'
      <3>1. \A u \in DOMAIN managed \cap DOMAIN book' : u \in DOMAIN book /\ book'[u] = book[u]
        BY <1>2, <1>5
      <3>2. counted = Cardinality(trades)
        BY <1>1, TradesFinite DEF EntryInv, ManagedAsHeld
      <3> QED BY <1>1, <1>6, <2>1, <3>1, <3>2 DEF EntryInv, ManagedAsHeld
    <2>5. RiskWithinCap'
      <3> SUFFICES ASSUME NEW u \in DOMAIN book',
                          OverCap(book'[u].volume, Distance(book'[u].entry, book'[u].sl))
                   PROVE  \/ u \in mishaps'.refused \cup mishaps'.unnoticed
                          \/ pc' = "filled" /\ u = order'.ticket
                          \/ bridge' = "rpyc" \/ FittingVolume(Distance(book'[u].entry, book'[u].sl)) < VolumeMin
        BY DEF RiskWithinCap
      <3>1. CASE u = decided
        BY <2>1, <3>1
      <3>2. CASE u # decided
        <4>1. u \in DOMAIN book /\ book'[u] = book[u]
          BY <1>5, <3>2
        <4> QED BY <1>1, <1>6, <4>1 DEF EntryInv, RiskWithinCap
      <3> QED BY <3>1, <3>2
    <2> QED BY <1>8, <1>10, <2>2, <2>3, <2>4, <2>5 DEF EntryInv
  <1>12. CASE reply # "done"
    <2>1. pc' = "idle" /\ UNCHANGED counted
      BY <1>1, <1>12
    <2>2. fill = 0 \/ fill > 0
      OBVIOUS
    <2>3. InWork' /\ Covered'
      BY <1>1, <1>5, <1>6, <1>12, <2>1, <2>2 DEF EntryInv, InWork, Covered, Working, AtBroker
    <2>4. ManagedAsHeld'
      <3>1. \A u \in DOMAIN managed \cap DOMAIN book' : u \in DOMAIN book /\ book'[u] = book[u]
        BY <1>2, <1>5
      <3>2. DOMAIN book' \subseteq DOMAIN managed \cup mishaps'.unnoticed \cup mishaps'.dropped
        BY <1>1, <2>1, <2>3 DEF Covered, AtBroker
      <3> QED BY <1>1, <1>6, <2>1, <3>1, <3>2 DEF EntryInv, ManagedAsHeld
    <2>5. RiskWithinCap'
      <3> SUFFICES ASSUME NEW u \in DOMAIN book',
                          OverCap(book'[u].volume, Distance(book'[u].entry, book'[u].sl))
                   PROVE  \/ u \in mishaps'.refused \cup mishaps'.unnoticed
                          \/ bridge' = "rpyc" \/ FittingVolume(Distance(book'[u].entry, book'[u].sl)) < VolumeMin
        BY DEF RiskWithinCap
      <3>1. CASE u = decided
        <4>1. fill # 0
          BY <1>2, <1>5, <3>1
        <4> QED BY <1>6, <1>12, <2>2, <3>1, <4>1
      <3>2. CASE u # decided
        <4>1. u \in DOMAIN book /\ book'[u] = book[u]
          BY <1>5, <3>2
        <4> QED BY <1>1, <1>6, <4>1 DEF EntryInv, RiskWithinCap
      <3> QED BY <3>1, <3>2
    <2> QED BY <1>8, <1>10, <2>3, <2>4, <2>5 DEF EntryInv
  <1> QED BY <1>11, <1>12

\* The target of the trim risks no more than the cap at the distance from the
\* fill.
LEMMA TrimFits ==
    ASSUME EntryInv, pc = "filled", MustTrim(order)
    PROVE  /\ TrimTarget(order) \in Int
           /\ ~ OverCap(TrimTarget(order), Distance(order.fill, order.plan.sl))
  <1> DEFINE dist == Distance(order.fill, order.plan.sl)
  <1>1. order.fill \in Int /\ order.plan.sl \in Int
    BY DEF EntryInv, InWork, Working, AtBroker
  <1>2. dist \in Nat \ {0}
    BY <1>1, DistanceIsNat DEF MustTrim
  <1> HIDE DEF dist
  <1>3. FittingVolume(dist) \in Int
    BY <1>2, FittingVolumeIsNat
  <1>4. TrimTarget(order) = FittingVolume(dist)
    BY DEF TrimTarget, dist
  <1> QED BY <1>2, <1>3, <1>4, FittingVolumeFits DEF dist

LEMMA TrimEntry ==
    ASSUME EntryInv, NEW closed \in 0..VolumeMax, Trim(closed)
    PROVE  EntryInv'
  <1> DEFINE t == order.ticket
             target == TrimTarget(order)
             excess == order.volume - target
             p == order.plan
  <1>1. /\ UNCHANGED <<bridge, decided, managed, zones, trades, counted>>
        /\ pc = "filled" /\ pc' = "trimmed" /\ MustTrim(order)
        /\ closed <= excess
        /\ decided \notin DOMAIN book => closed = 0
        /\ book' = IF closed > 0 THEN [book EXCEPT ![t].volume = @ - closed] ELSE book
        /\ mishaps' = IF closed < excess THEN [mishaps EXCEPT !.refused = @ \cup {t}] ELSE mishaps
        /\ order' = [order EXCEPT !.volume = target]
    <2>1. pc = "filled" /\ t = decided
      BY DEF Trim, EntryInv, InWork, Working
    <2> QED BY <2>1 DEF Trim, AfterTrim, kept, broker
  <1>2. /\ t = decided /\ decided \in Nat
        /\ {order.price, order.volume, p.sl, order.fill} \subseteq Int
        /\ \A tp \in {p.tp1, p.tp2, p.tp3} : tp <= p.backstop
        /\ order = [plan |-> p, price |-> order.price, ticket |-> decided,
                    fill |-> order.fill, volume |-> order.volume]
        /\ decided \in DOMAIN book =>
              /\ book[decided].sl = p.sl /\ book[decided].entry = order.fill /\ book[decided].tp = p.backstop
              /\ book[decided].volume = order.volume \/ decided \in mishaps.refused
    BY <1>1 DEF EntryInv, TypeOK, InWork, Working, AtBroker
  <1>3. target \in Int /\ ~ OverCap(target, Distance(order.fill, p.sl))
    BY <1>1, TrimFits
  <1>4. closed \in Int
    BY PlanAssumption DEF PlanAssumption
  <1> HIDE DEF target, t
  <1>5. /\ DOMAIN book' = DOMAIN book
        /\ \A u \in DOMAIN book : DOMAIN book'[u] = DOMAIN book[u]
        /\ \A u \in DOMAIN book : u # decided => book'[u] = book[u]
        /\ decided \in DOMAIN book =>
              /\ book'[decided].sl = p.sl /\ book'[decided].entry = order.fill /\ book'[decided].tp = p.backstop
              /\ book'[decided].volume = IF closed > 0 THEN book[decided].volume - closed
                                         ELSE book[decided].volume
    <2>1. CASE closed > 0
      <3>1. book' = [book EXCEPT ![decided] = [book[decided] EXCEPT !.volume = book[decided].volume - closed]]
        BY <1>1, <1>2, <2>1
      <3>2. decided \in DOMAIN book
        BY <1>1, <2>1
      <3>3. book'[decided] = [book[decided] EXCEPT !.volume = book[decided].volume - closed]
        BY <3>1, <3>2
      <3>4. {"side", "volume", "sl", "tp", "entry"} = DOMAIN book[decided]
        BY <3>2 DEF EntryInv, TypeOK
      <3>5. DOMAIN book' = DOMAIN book /\ \A u \in DOMAIN book : u # decided => book'[u] = book[u]
        BY <3>1
      <3> QED BY <1>2, <2>1, <3>2, <3>3, <3>4, <3>5
    <2>2. CASE ~ (closed > 0)
      BY <1>1, <1>2, <2>2
    <2> QED BY <2>1, <2>2
  <1>6. /\ mishaps' = [refused |-> mishaps'.refused, unnoticed |-> mishaps'.unnoticed,
                       dropped |-> mishaps'.dropped]
        /\ mishaps'.unnoticed = mishaps.unnoticed /\ mishaps'.dropped = mishaps.dropped
        /\ mishaps'.refused = IF closed < excess THEN mishaps.refused \cup {decided} ELSE mishaps.refused
    BY <1>1, <1>2 DEF EntryInv, TypeOK
  <1>7. order' = [plan |-> p, price |-> order.price, ticket |-> decided,
                  fill |-> order.fill, volume |-> target]
    BY <1>1, <1>2
  \* What the terminal closed leaves the target, or is on record.
  <1>8. decided \in DOMAIN book' => book'[decided].volume = target \/ decided \in mishaps'.refused
    <2>1. CASE closed < excess
      BY <1>6, <2>1
    <2>2. CASE closed = excess
      BY <1>2, <1>3, <1>4, <1>5, <1>6, <2>2
    <2> QED BY <1>1, <1>2, <1>3, <1>4, <2>1, <2>2
  <1>9. TypeOK'
    <2>1. ASSUME NEW u \in DOMAIN book'
          PROVE  /\ {"side", "volume", "sl", "tp", "entry"} = DOMAIN book'[u]
                 /\ {book'[u].volume, book'[u].sl, book'[u].entry} \subseteq Int
      BY <1>2, <1>4, <1>5 DEF EntryInv, TypeOK
    <2> QED BY <1>1, <1>6, <2>1 DEF EntryInv, TypeOK
  <1>10. Tickets' /\ Covered'
    BY <1>1, <1>5, <1>6 DEF EntryInv, Tickets, Covered, Working, AtBroker
  <1>11. InWork'
    BY <1>1, <1>2, <1>3, <1>5, <1>7, <1>8 DEF InWork, Working, AtBroker
  <1>12. ManagedAsHeld'
    <2>1. \A u \in DOMAIN managed \cap DOMAIN book' : u \in DOMAIN book /\ book'[u] = book[u]
      BY <1>1, <1>5 DEF EntryInv, Tickets, Working
    <2>2. mishaps.refused \subseteq mishaps'.refused
      BY <1>6
    <2>3. counted' = Cardinality(trades') + 1
      BY <1>1 DEF EntryInv, ManagedAsHeld
    <2>4. ASSUME NEW u \in DOMAIN managed \cap DOMAIN book'
          PROVE  /\ managed[u].volume = book'[u].volume \/ u \in mishaps'.refused
                 /\ managed[u].sl = book'[u].sl /\ managed[u].entry = book'[u].entry
                 /\ \A tp \in managed[u].tps : tp <= book'[u].tp
      <3>1. u \in DOMAIN managed \cap DOMAIN book /\ book'[u] = book[u]
        BY <2>1
      <3> QED BY <2>2, <3>1 DEF EntryInv, ManagedAsHeld
    <2>5. zones' = DOMAIN managed' /\ managed' = managed /\ pc' = "trimmed"
      BY <1>1 DEF EntryInv, ManagedAsHeld
    <2> QED BY <2>3, <2>4, <2>5 DEF ManagedAsHeld
  <1>13. RiskWithinCap'
    <2> SUFFICES ASSUME NEW u \in DOMAIN book',
                        OverCap(book'[u].volume, Distance(book'[u].entry, book'[u].sl))
                 PROVE  \/ u \in mishaps'.refused \cup mishaps'.unnoticed
                        \/ bridge' = "rpyc" \/ FittingVolume(Distance(book'[u].entry, book'[u].sl)) < VolumeMin
      BY DEF RiskWithinCap
    <2>1. CASE u = decided
      BY <1>3, <1>5, <1>8, <2>1
    <2>2. CASE u # decided
      <3>1. u \in DOMAIN book /\ book'[u] = book[u]
        BY <1>5, <2>2
      <3> QED BY <1>1, <1>2, <1>6, <2>2, <3>1 DEF EntryInv, RiskWithinCap, t
    <2> QED BY <2>1, <2>2
  <1> QED BY <1>9, <1>10, <1>11, <1>12, <1>13 DEF EntryInv

\* A fill that is not trimmed fits, or nothing can be done about it.
LEMMA UntrimmedFits ==
    ASSUME EntryInv, pc = "filled", ~ MustTrim(order), decided \in DOMAIN book,
           OverCap(book[decided].volume, Distance(book[decided].entry, book[decided].sl))
    PROVE  \/ decided \in mishaps.refused
           \/ bridge = "rpyc" \/ FittingVolume(Distance(book[decided].entry, book[decided].sl)) < VolumeMin
  <1> DEFINE dist == Distance(order.fill, order.plan.sl)
  <1>1. /\ order.fill \in Int /\ order.plan.sl \in Int /\ order.volume \in Int
        /\ book[decided].sl = order.plan.sl /\ book[decided].entry = order.fill
        /\ book[decided].volume = order.volume \/ decided \in mishaps.refused
    BY DEF EntryInv, InWork, Working, AtBroker
  <1> SUFFICES ASSUME decided \notin mishaps.refused, bridge # "rpyc", ~ (FittingVolume(dist) < VolumeMin)
               PROVE  FALSE
    BY <1>1
  <1>2. bridge = "mt5linux"
    BY DEF EntryInv, TypeOK
  <1>3. dist \in Nat \ {0}
    <2>1. dist \in Nat /\ OverCap(order.volume, dist)
      BY <1>1, DistanceIsNat
    <2> HIDE DEF dist
    <2> QED BY <1>1, <2>1, NoDistanceNoRisk
  <1>4. order.fill # order.plan.sl /\ OverCap(order.volume, dist)
    BY <1>1, <1>3, DistanceIsNat
  <1>5. TrimTarget(order) = FittingVolume(dist)
    BY DEF TrimTarget
  <1>6. FittingVolume(dist) \in Int
    <2> HIDE DEF dist
    <2> QED BY <1>3, FittingVolumeIsNat
  <1>7. FittingVolume(dist) >= VolumeMin
    BY <1>6, PlanAssumption DEF PlanAssumption
  <1>8. ~ (order.volume > FittingVolume(dist))
    BY <1>2, <1>4, <1>5, <1>7 DEF MustTrim
  <1> HIDE DEF dist
  <1> QED BY <1>1, <1>3, <1>4, <1>6, <1>8, FittingVolumeFits

LEMMA RegisterEntry ==
    ASSUME EntryInv, Register
    PROVE  EntryInv'
  <1> DEFINE p == order.plan
             new == [side |-> p.side, volume |-> order.volume, entry |-> order.fill,
                     sl |-> p.sl, tps |-> {p.tp1, p.tp2, p.tp3}]
  <1>1. /\ UNCHANGED <<bridge, decided, book, counted, mishaps>> /\ AtBroker
        /\ pc = "trimmed" \/ (pc = "filled" /\ ~MustTrim(order))
        /\ pc' = "idle" /\ order' = NoOrder
    BY DEF Register, AtBroker, broker
  <1>2. /\ order.ticket = decided /\ decided \in Nat /\ decided >= 1
        /\ decided \notin DOMAIN managed \cup trades
        /\ \A tp \in {p.tp1, p.tp2, p.tp3} : tp <= p.backstop
        /\ decided \in DOMAIN book =>
              /\ book[decided].sl = p.sl /\ book[decided].entry = order.fill /\ book[decided].tp = p.backstop
              /\ book[decided].volume = order.volume \/ decided \in mishaps.refused
    BY <1>1 DEF EntryInv, TypeOK, Tickets, InWork, Working, AtBroker
  <1>3. /\ zones' = zones \cup {decided} /\ trades' = trades \cup {decided}
        /\ managed' = Put(managed, decided, new)
    BY <1>2 DEF Register
  <1>4. /\ new.volume = order.volume /\ new.entry = order.fill /\ new.sl = p.sl
        /\ new.tps = {p.tp1, p.tp2, p.tp3}
    OBVIOUS
  <1> HIDE DEF new
  <1>5. /\ DOMAIN managed' = DOMAIN managed \cup {decided} /\ managed'[decided] = new
        /\ \A u \in DOMAIN managed : managed'[u] = managed[u]
    BY <1>2, <1>3 DEF Put
  <1>6. TypeOK' /\ Tickets' /\ InWork' /\ Covered'
    BY <1>1, <1>2, <1>3, <1>5 DEF EntryInv, TypeOK, Tickets, InWork, Covered, Working, AtBroker
  <1>7. Cardinality(trades') = Cardinality(trades) + 1 /\ Cardinality(trades) \in Nat
    BY <1>2, <1>3, TradesFinite, FS_AddElement
  <1>8. ManagedAsHeld'
    <2>1. ASSUME NEW u \in DOMAIN managed' \cap DOMAIN book'
          PROVE  /\ managed'[u].volume = book'[u].volume \/ u \in mishaps'.refused
                 /\ managed'[u].sl = book'[u].sl /\ managed'[u].entry = book'[u].entry
                 /\ \A tp \in managed'[u].tps : tp <= book'[u].tp
      <3>1. CASE u = decided
        BY <1>1, <1>2, <1>4, <1>5, <3>1
      <3>2. CASE u # decided
        BY <1>1, <1>5, <3>2 DEF EntryInv, ManagedAsHeld
      <3> QED BY <3>1, <3>2
    <2>2. DOMAIN book' \subseteq DOMAIN managed' \cup mishaps'.unnoticed \cup mishaps'.dropped
      BY <1>1, <1>5 DEF EntryInv, Covered
    <2>3. zones' = DOMAIN managed'
      BY <1>3, <1>5 DEF EntryInv, ManagedAsHeld
    <2>4. counted' = Cardinality(trades')
      BY <1>1, <1>7 DEF EntryInv, ManagedAsHeld, AtBroker
    <2> QED BY <1>1, <1>7, <2>1, <2>2, <2>3, <2>4 DEF ManagedAsHeld
  <1>9. RiskWithinCap'
    <2> SUFFICES ASSUME NEW u \in DOMAIN book, OverCap(book[u].volume, Distance(book[u].entry, book[u].sl))
                 PROVE  \/ u \in mishaps.refused \cup mishaps.unnoticed
                        \/ bridge = "rpyc" \/ FittingVolume(Distance(book[u].entry, book[u].sl)) < VolumeMin
      BY <1>1 DEF RiskWithinCap
    <2>1. CASE pc = "filled" /\ u = decided
      BY <1>1, <2>1, UntrimmedFits
    <2>2. CASE ~ (pc = "filled" /\ u = decided)
      BY <1>2, <2>2 DEF EntryInv, RiskWithinCap
    <2> QED BY <2>1, <2>2
  <1> QED BY <1>6, <1>8, <1>9 DEF EntryInv

LEMMA EntryInvHolds == Spec => []EntryInv
  <1>1. EntryInv /\ [Next]_vars => EntryInv'
    <2> SUFFICES ASSUME EntryInv, [Next]_vars PROVE EntryInv'
      OBVIOUS
    <2>1. CASE UNCHANGED vars
      BY <2>1, EntryInvKept DEF vars, broker, kept
    <2>2. CASE BridgeDies \/ BridgeStarts \/ PublishState
      BY <2>2, EntryInvKept DEF BridgeDies, BridgeStarts, PublishState, broker, kept
    <2>3. CASE \E t \in DOMAIN book : BrokerCloses(t)
      BY <2>3, BrokerClosesEntry
    <2>4. CASE \E blind \in BOOLEAN : Manage(blind)
      BY <2>4, ManageEntry
    <2>5. CASE \E entry \in Entries : Decide(entry)
      BY <2>5, DecideEntry
    <2>6. CASE \E equity \in Equities, clear \in BOOLEAN : Check(equity, clear)
      BY <2>6, CheckEntry
    <2>7. CASE \E slip \in Slips, fill \in 0..VolumeMax, reply \in {"done", "partial", "rejected", "lost"} :
                    Send(slip, fill, reply)
      BY <2>7, SendEntry
    <2>8. CASE \E closed \in 0..VolumeMax : Trim(closed)
      BY <2>8, TrimEntry
    <2>9. CASE Register
      BY <2>9, RegisterEntry
    <2> QED BY <2>1, <2>2, <2>3, <2>4, <2>5, <2>6, <2>7, <2>8, <2>9 DEF Next, Handler
  <1> QED BY InitEntry, <1>1, PTL DEF Spec

\* What the service manages is what the broker holds, at any moment between a
\* decision and the next, while the bridge dies and comes back.
THEOREM EntryManagedAsHeld == Spec => []ManagedAsHeld
  <1>1. EntryInv => ManagedAsHeld
    BY DEF EntryInv
  <1> QED BY <1>1, EntryInvHolds, PTL

\* At the price it was really filled an open position risks no more than was
\* granted, within the tolerance, but where the trim cannot help.
THEOREM EntryRiskWithinCap == Spec => []RiskWithinCap
  <1>1. EntryInv => RiskWithinCap
    BY DEF EntryInv
  <1> QED BY <1>1, EntryInvHolds, PTL
-----------------------------------------------------------------------------
\* The backtest: one trade

Positions ==
    [side : Sides, entry : Int, sl : Int, tp1 : Int, tp2 : Int, tp3 : Int, volume : Nat, initial : Nat,
     dist : Int, peak : Int, tp1Taken : BOOLEAN, tp2Taken : BOOLEAN, armed : BOOLEAN, realized : Int]

\* Whatever has been closed of a position brought no less than its first stop
\* would have, and nothing that is left is closed below that stop.
AboveStop(p, stop) ==
    /\ p \in Positions /\ p.volume <= p.initial
    /\ \A x \in {p.sl, p.tp1, p.tp2, p.tp3} : stop <= x
    /\ (stop - p.entry) * Contract * (p.initial - p.volume) <= p.realized

\* What a step of the walk leaves as it is
SameTrade(p, q) ==
    /\ q.side = p.side /\ q.entry = p.entry /\ q.initial = p.initial
    /\ q.tp1 = p.tp1 /\ q.tp2 = p.tp2 /\ q.tp3 = p.tp3 /\ q.dist = p.dist

LEMMA TimesRegrouped ==
    ASSUME NEW a \in Int, NEW b \in Int, NEW c \in Int
    PROVE  a * b * c = a * (b * c) /\ a * b * c = a * (c * b)
  OBVIOUS

LEMMA TimesSplit ==
    ASSUME NEW a \in Int, NEW b \in Int, NEW c \in Int
    PROVE  /\ a * (b + c) = a * b + a * c /\ (-a - b) * c = -(a * c) - b * c
           /\ a * b \in Int /\ a * c \in Int /\ b * c \in Int
  OBVIOUS

\* Money of a leg at the stop and above it
LEMMA LegFits ==
    ASSUME NEW entry \in Int, NEW stop \in Int, NEW price \in Int, stop <= price, NEW volume \in Nat
    PROVE  /\ (price - entry) * volume * Contract \in Int /\ (stop - entry) * Contract \in Int
           /\ (stop - entry) * Contract * volume <= (price - entry) * volume * Contract
  <1>1. Contract \in Nat
    BY PlanAssumption DEF PlanAssumption
  <1> DEFINE units == volume * Contract
             low == stop - entry
             high == price - entry
  <1>2. units \in Nat /\ low \in Int /\ high \in Int /\ low <= high
    <2>1. \A a \in Nat, b \in Nat : a * b \in Nat
      OBVIOUS
    <2> QED BY <1>1, <2>1
  <1>3. (price - entry) * volume * Contract = units * high /\ (stop - entry) * Contract * volume = units * low
    BY <1>1
  <1>4. units * low <= units * high
    <2> HIDE DEF units, low, high
    <2> QED BY <1>2, TimesMonotone
  <1>5. units * high \in Int
    <2> HIDE DEF units, high
    <2> QED BY <1>2
  <1>6. (stop - entry) * Contract \in Int
    BY <1>1
  <1> QED BY <1>3, <1>4, <1>5, <1>6

\* A part closed at a price above the stop keeps the position above it.
LEMMA PartialCloseAbove ==
    ASSUME NEW p, NEW stop \in Int, AboveStop(p, stop), NEW percent \in Nat, NEW price \in Int, stop <= price
    PROVE  LET q == PartialClose(p, percent, price)
           IN  /\ AboveStop(q, stop) /\ SameTrade(p, q)
               /\ q.sl = p.sl /\ q.peak = p.peak
               /\ q.tp1Taken = p.tp1Taken /\ q.tp2Taken = p.tp2Taken /\ q.armed = p.armed
  <1> DEFINE part == (p.initial * percent) \div 100
             k == (stop - p.entry) * Contract
             leg == (price - p.entry) * part * Contract
             paid == [p EXCEPT !.realized = p.realized + leg]
             q == [paid EXCEPT !.volume = p.volume - part]
  <1>1. p \in Positions /\ p.volume <= p.initial /\ k * (p.initial - p.volume) <= p.realized
    BY DEF AboveStop
  <1>2. p.volume \in Nat /\ p.initial \in Nat /\ p.entry \in Int /\ p.realized \in Int
    BY <1>1 DEF Positions
  <1>3. part \in Nat
    <2> DEFINE share == p.initial * percent
    <2>1. share \in Nat
      BY <1>2
    <2> HIDE DEF share
    <2>2. share \div 100 \in Nat
      BY <2>1, QuotientFits
    <2> QED BY <2>2 DEF share
  <1>4. CASE part < VolumeMin \/ part >= p.volume
    <2>1. PartialClose(p, percent, price) = p
      BY <1>4 DEF PartialClose
    <2> QED BY <2>1 DEF SameTrade
  <1>5. CASE ~ (part < VolumeMin \/ part >= p.volume)
    <2>1. PartialClose(p, percent, price) = q
      BY <1>5 DEF PartialClose
    <2> HIDE DEF part
    <2>2. part < p.volume
      BY <1>2, <1>3, <1>5
    <2>3. leg \in Int /\ k \in Int /\ k * part <= leg
      BY <1>2, <1>3, LegFits
    <2> HIDE DEF leg, k
    <2>4. paid \in Positions /\ paid = [p EXCEPT !.realized = p.realized + leg]
      BY <1>1, <1>2, <2>3 DEF Positions
    <2>5. /\ paid.realized = p.realized + leg /\ paid.volume = p.volume /\ SameTrade(p, paid)
          /\ paid.sl = p.sl /\ paid.peak = p.peak
          /\ paid.tp1Taken = p.tp1Taken /\ paid.tp2Taken = p.tp2Taken /\ paid.armed = p.armed
      BY <1>1 DEF Positions, SameTrade
    <2> HIDE DEF paid
    <2>6. p.volume - part \in Nat
      BY <1>2, <1>3, <2>2
    <2>7. q \in Positions
      BY <2>4, <2>6 DEF Positions
    <2>8. /\ q.realized = p.realized + leg /\ q.volume = p.volume - part /\ SameTrade(p, q)
          /\ q.sl = p.sl /\ q.peak = p.peak
          /\ q.tp1Taken = p.tp1Taken /\ q.tp2Taken = p.tp2Taken /\ q.armed = p.armed
      BY <2>4, <2>5 DEF Positions, SameTrade
    <2> HIDE DEF q
    <2>9. k * (q.initial - q.volume) <= q.realized
      <3> DEFINE gone == p.initial - p.volume
      <3>1. gone \in Int /\ q.initial - q.volume = gone + part
        BY <1>2, <1>3, <2>8 DEF SameTrade
      <3> HIDE DEF gone
      <3>2. k * (gone + part) = k * gone + k * part /\ k * gone \in Int /\ k * part \in Int
        BY <1>3, <2>3, <3>1
      <3>3. k * gone <= p.realized
        BY <1>1 DEF gone
      <3> QED BY <1>2, <2>3, <2>8, <3>1, <3>2, <3>3
    <2>10. AboveStop(q, stop)
      BY <1>2, <1>3, <2>6, <2>7, <2>8, <2>9 DEF AboveStop, SameTrade, k
    <2> QED BY <2>1, <2>8, <2>10
  <1> QED BY <1>4, <1>5

LEMMA BarTyped ==
    ASSUME NEW bar \in Shapes
    PROVE  /\ bar.low \in Int /\ bar.high \in Int /\ bar.close \in Int /\ bar.atr \in Int
           /\ bar.low <= bar.close /\ bar.close <= bar.high
           /\ \A side \in Sides : bar.swings[side] \in Level
  <1>1. /\ {bar.low, bar.high, bar.close, bar.atr} \subseteq Int
        /\ bar.low <= bar.close /\ bar.close <= bar.high
        /\ bar.swings \in [Sides -> Int \cup {None}]
    BY BacktestAssumption DEF BacktestAssumption
  <1> QED BY <1>1 DEF Level

\* On the axis of the trade the close lies between the worst and the best.
LEMMA WorstToBest ==
    ASSUME NEW bar \in Shapes, NEW side
    PROVE  /\ Worst(side, bar) \in Int /\ Best(side, bar) \in Int /\ Signed(side, bar.close) \in Int
           /\ Worst(side, bar) <= Signed(side, bar.close) /\ Signed(side, bar.close) <= Best(side, bar)
  BY BarTyped DEF Worst, Best, Signed

LEMMA TakeFirstAbove ==
    ASSUME NEW p, NEW stop \in Int, AboveStop(p, stop), NEW bar
    PROVE  LET q == TakeFirst(p, bar)
           IN  AboveStop(q, stop) /\ SameTrade(p, q) /\ q.sl = p.sl /\ q.peak = p.peak
  <1> DEFINE part == PartialClose(p, Exit.tp1, p.tp1)
             taken == [part EXCEPT !.tp1Taken = TRUE]
             q == [taken EXCEPT !.armed = TRUE]
  <1>1. p.tp1 \in Int /\ stop <= p.tp1 /\ Exit.tp1 \in Nat
    BY BacktestAssumption DEF AboveStop, Positions, BacktestAssumption
  <1>2. AboveStop(part, stop) /\ SameTrade(p, part) /\ part.sl = p.sl /\ part.peak = p.peak
    BY <1>1, PartialCloseAbove
  <1>3. TakeFirst(p, bar) = IF ~p.tp1Taken /\ Best(p.side, bar) >= p.tp1 THEN q ELSE p
    BY DEF TakeFirst
  <1> HIDE DEF part
  <1>4. taken \in Positions /\ q \in Positions
    BY <1>2 DEF AboveStop, Positions
  <1>5. \A f \in {"side", "entry", "sl", "tp1", "tp2", "tp3", "volume", "initial", "realized", "dist", "peak"} : q[f] = part[f]
    BY <1>2 DEF AboveStop, Positions
  <1> HIDE DEF q
  <1>6. /\ q.side = part.side /\ q.entry = part.entry /\ q.sl = part.sl /\ q.tp1 = part.tp1 /\ q.tp2 = part.tp2
        /\ q.tp3 = part.tp3 /\ q.volume = part.volume /\ q.initial = part.initial /\ q.realized = part.realized
        /\ q.dist = part.dist /\ q.peak = part.peak
    BY <1>5
  <1>7. AboveStop(q, stop) /\ SameTrade(p, q)
    BY <1>2, <1>4, <1>6 DEF AboveStop, SameTrade
  <1> QED BY <1>2, <1>3, <1>6, <1>7 DEF SameTrade

LEMMA TakeSecondAbove ==
    ASSUME NEW p, NEW stop \in Int, AboveStop(p, stop), NEW bar
    PROVE  LET q == TakeSecond(p, bar)
           IN  AboveStop(q, stop) /\ SameTrade(p, q) /\ q.sl = p.sl /\ q.peak = p.peak
  <1> DEFINE part == PartialClose(p, Exit.tp2, p.tp2)
             q == [part EXCEPT !.tp2Taken = TRUE]
  <1>1. p.tp2 \in Int /\ stop <= p.tp2 /\ Exit.tp2 \in Nat
    BY BacktestAssumption DEF AboveStop, Positions, BacktestAssumption
  <1>2. AboveStop(part, stop) /\ SameTrade(p, part) /\ part.sl = p.sl /\ part.peak = p.peak
    BY <1>1, PartialCloseAbove
  <1>3. TakeSecond(p, bar) = IF ~p.tp2Taken /\ Best(p.side, bar) >= p.tp2 THEN q ELSE p
    BY DEF TakeSecond
  <1> HIDE DEF part
  <1>4. q \in Positions
    BY <1>2 DEF AboveStop, Positions
  <1>5. /\ q.side = part.side /\ q.entry = part.entry /\ q.sl = part.sl /\ q.tp1 = part.tp1 /\ q.tp2 = part.tp2
        /\ q.tp3 = part.tp3 /\ q.volume = part.volume /\ q.initial = part.initial /\ q.realized = part.realized
        /\ q.dist = part.dist /\ q.peak = part.peak
    BY <1>2 DEF AboveStop, Positions
  <1> HIDE DEF q
  <1>6. AboveStop(q, stop) /\ SameTrade(p, q)
    BY <1>2, <1>4, <1>5 DEF AboveStop, SameTrade
  <1> QED BY <1>2, <1>3, <1>5, <1>6 DEF SameTrade

\* The trail only ever moves forward.
LEMMA TrailForward ==
    ASSUME NEW sl \in Int, NEW entry \in Int, NEW peak \in Int, NEW swing \in Level, NEW atr \in Int,
           NEW floorArmed, NEW cfg, cfg.bonus \in Int, cfg.buffer \in Int, cfg.chandelier \in Int
    PROVE  LET new == Trail(sl, entry, peak, swing, atr, floorArmed, cfg)
           IN  new \in Int /\ sl <= new
  <1> DEFINE S == {sl} \cup (IF floorArmed THEN {entry + cfg.bonus} ELSE {})
                       \cup (IF swing # None /\ atr > 0 THEN {swing - cfg.buffer * atr} ELSE {})
                       \cup (IF atr > 0 /\ cfg.chandelier > 0 THEN {peak - cfg.chandelier * atr} ELSE {})
             a == entry + cfg.bonus
             b == IF swing # None THEN swing - cfg.buffer * atr ELSE sl
             c == peak - cfg.chandelier * atr
             top == Max({a, b, c})
  <1>1. a \in Int /\ b \in Int /\ c \in Int
    BY DEF Level
  <1>2. sl \in S /\ S \subseteq {sl, a, b, c}
    OBVIOUS
  <1>3. Trail(sl, entry, peak, swing, atr, floorArmed, cfg) = Max(S)
    BY DEF Trail
  <1> HIDE DEF S, a, b, c
  <1>4. top \in Int /\ a <= top /\ b <= top /\ c <= top
    BY <1>1, GreatestOfThree
  <1> HIDE DEF top
  <1>5. PICK u \in Int : \A x \in S : x <= u
    <2>1. CASE sl <= top
      BY <1>1, <1>2, <1>4, <2>1
    <2>2. CASE ~ (sl <= top)
      BY <1>1, <1>2, <1>4, <2>2
    <2> QED BY <2>1, <2>2
  <1>6. S \subseteq Int /\ S # {}
    BY <1>1, <1>2
  <1>7. Max(S) \in S /\ \A x \in S : x <= Max(S)
    BY <1>5, <1>6, GreatestOfBounded
  <1> QED BY <1>2, <1>3, <1>6, <1>7

LEMMA RatchetAbove ==
    ASSUME NEW p, NEW stop \in Int, AboveStop(p, stop), NEW bar \in Shapes
    PROVE  AboveStop(Ratchet(p, bar), stop) /\ SameTrade(p, Ratchet(p, bar))
  <1> DEFINE best == Best(p.side, bar)
             peak == Max({p.peak, best})
             armed == p.armed \/ (Exit.activate > 0 /\ best - p.entry >= Exit.activate * p.dist)
             atBreakEven == p.tp1Taken \/ (Exit.be > 0 /\ peak - p.entry >= Exit.be * p.dist)
             swing == IF bar.swings[p.side] = None THEN None ELSE Signed(p.side, bar.swings[p.side])
             sl == IF armed THEN Trail(p.sl, p.entry, peak, swing, bar.atr, atBreakEven, Exit) ELSE p.sl
             higher == [p EXCEPT !.peak = peak]
             ready == [higher EXCEPT !.armed = armed]
             q == [ready EXCEPT !.sl = sl]
  <1>1. p \in Positions /\ p.side \in Sides /\ p.peak \in Int /\ p.entry \in Int /\ p.sl \in Int
    BY DEF AboveStop, Positions
  <1>2. best \in Int /\ bar.atr \in Int
    BY BarTyped, WorstToBest
  <1>3. swing \in Level
    BY <1>1, BarTyped, SignedInt DEF Level
  <1>4. Exit.bonus \in Int /\ Exit.buffer \in Int /\ Exit.chandelier \in Int
    BY BacktestAssumption DEF BacktestAssumption
  <1>5. Ratchet(p, bar) = q
    BY DEF Ratchet
  <1> HIDE DEF best, swing
  <1>6. peak \in Int
    <2>1. Max({p.peak, best, best}) \in {p.peak, best, best}
      BY <1>1, <1>2, GreatestOfThree
    <2>2. {p.peak, best, best} = {p.peak, best}
      OBVIOUS
    <2> QED BY <1>1, <1>2, <2>1, <2>2
  <1> HIDE DEF peak
  <1>7. armed \in BOOLEAN
    OBVIOUS
  <1> HIDE DEF armed, atBreakEven
  <1>8. sl \in Int /\ p.sl <= sl
    BY <1>1, <1>2, <1>3, <1>4, <1>6, TrailForward
  <1> HIDE DEF sl
  <1>9. higher \in Positions
    BY <1>1, <1>6 DEF Positions
  <1>10. ready \in Positions
    <2> HIDE DEF higher
    <2> QED BY <1>7, <1>9 DEF Positions
  <1>11. q \in Positions
    <2> HIDE DEF ready
    <2> QED BY <1>8, <1>10 DEF Positions
  <1>12. /\ q.side = p.side /\ q.entry = p.entry /\ q.sl = sl /\ q.tp1 = p.tp1 /\ q.tp2 = p.tp2
         /\ q.tp3 = p.tp3 /\ q.volume = p.volume /\ q.initial = p.initial /\ q.realized = p.realized
         /\ q.dist = p.dist
    BY <1>1 DEF Positions
  <1> HIDE DEF q
  <1>13. \A x \in {q.sl, q.tp1, q.tp2, q.tp3} : stop <= x
    BY <1>1, <1>8, <1>12 DEF AboveStop
  <1>14. AboveStop(q, stop)
    BY <1>11, <1>12, <1>13 DEF AboveStop
  <1> QED BY <1>5, <1>12, <1>14 DEF SameTrade

\* A bar leaves a position above its first stop, or closes it there or above.
LEMMA WalkAbove ==
    ASSUME NEW p, NEW stop \in Int, AboveStop(p, stop), NEW bar \in Shapes
    PROVE  LET w == WalkPosition(p, bar)
           IN  /\ AboveStop(w.position, stop) /\ SameTrade(p, w.position)
               /\ w.exit \in Level /\ (w.exit # None => stop <= w.exit)
               /\ w.exit = None => stop <= Signed(p.side, bar.close)
  <1> DEFINE one == TakeFirst(p, bar)
             q == TakeSecond(one, bar)
             r == Ratchet(q, bar)
             close == Signed(p.side, bar.close)
             w == WalkPosition(p, bar)
  <1>1. AboveStop(one, stop) /\ SameTrade(p, one) /\ one.sl = p.sl
    BY TakeFirstAbove
  <1>2. AboveStop(q, stop) /\ SameTrade(p, q)
    <2> HIDE DEF one
    <2> QED BY <1>1, TakeSecondAbove DEF SameTrade
  <1>3. AboveStop(r, stop) /\ SameTrade(p, r)
    <2> HIDE DEF q
    <2> QED BY <1>2, RatchetAbove DEF SameTrade
  <1>4. p.sl \in Int /\ p.tp3 \in Int /\ stop <= p.sl /\ stop <= p.tp3 /\ SameTrade(p, p)
    BY DEF AboveStop, Positions, SameTrade
  <1>5. Worst(p.side, bar) \in Int /\ close \in Int /\ Worst(p.side, bar) <= close
    BY WorstToBest
  <1>6. None \notin Int
    BY PlanAssumption DEF PlanAssumption
  <1>7. w = IF Worst(p.side, bar) <= p.sl THEN Leaves(p, p.sl)
            ELSE IF bar.weekend THEN Leaves(p, close)
            ELSE IF Best(p.side, bar) >= p.tp3 THEN Leaves(q, p.tp3)
            ELSE IF q.armed /\ ShouldCloseRunner(p.side, p.tp3, close, bar.event) THEN Leaves(q, close)
            ELSE Leaves(r, None)
    BY DEF WalkPosition
  <1> HIDE DEF one, q, r, close, w
  <1>8. CASE Worst(p.side, bar) <= p.sl
    BY <1>4, <1>6, <1>7, <1>8 DEF Leaves, Level, w
  <1>9. CASE ~(Worst(p.side, bar) <= p.sl)
    <2>1. stop <= close
      BY <1>4, <1>5, <1>9
    <2>2. \/ w = Leaves(p, close) \/ w = Leaves(q, p.tp3) \/ w = Leaves(q, close) \/ w = Leaves(r, None)
      BY <1>7, <1>9
    <2> QED BY <1>2, <1>3, <1>4, <1>5, <1>6, <2>1, <2>2 DEF Leaves, Level, w, close
  <1> QED BY <1>8, <1>9

-----------------------------------------------------------------------------
\* The backtest: its journal

Trades ==
    [side : Sides, entry : Int, sl : Int, cost : Int, volume : Nat, risk : Nat, pnl : Level, closed : Nat,
     type : {b.type : b \in Shapes}, session : {b.session : b \in Shapes}, band : {b.band : b \in Shapes}]

\* At the price of the plan the volume loses no more at the stop than the cap.
Sized(trade) ==
    100 * ((trade.entry - trade.cost - trade.sl) * Contract * trade.volume) <= trade.risk * (100 + RiskTolerance)
WithinBudget(trade) ==
    trade.pnl # None =>
        100 * (-trade.pnl - trade.cost * trade.volume * Contract) <= trade.risk * (100 + RiskTolerance)

\* An open position belongs to the trade of its number and is above its stop,
\* and so is the last close.
Followed(t) ==
    /\ t \in DOMAIN journal /\ journal[t].pnl = None
    /\ AboveStop(open[t], journal[t].sl)
    /\ open[t].side = journal[t].side /\ open[t].entry = journal[t].entry
    /\ open[t].initial = journal[t].volume
    /\ bars # <<>> /\ journal[t].sl <= Signed(open[t].side, Last(bars).close)

TradesInv ==
    /\ bars \in Seq(Shapes) /\ journal \in Seq(Trades)
    /\ \A t \in DOMAIN journal : Sized(journal[t])
    /\ \A t \in DOMAIN open : Followed(t)
    /\ LossWithinBudget

\* What a walk gives for an open position
Walked(t, w, bar) ==
    /\ AboveStop(w.position, journal[t].sl) /\ SameTrade(open[t], w.position)
    /\ w.exit \in Level /\ (w.exit # None => journal[t].sl <= w.exit)
    /\ w.exit = None => journal[t].sl <= Signed(open[t].side, bar.close)

\* A trade closed at or above its stop has lost no more than was granted.
LEMMA ClosedWithinBudget ==
    ASSUME NEW trade \in Trades, Sized(trade), bars \in Seq(Shapes), NEW w,
           AboveStop(w.position, trade.sl), w.position.entry = trade.entry, w.position.initial = trade.volume,
           w.exit \in Level, w.exit # None, trade.sl <= w.exit
    PROVE  LET closed == ClosedTrade(trade, w)
           IN  /\ closed \in Trades /\ WithinBudget(closed) /\ Sized(closed)
               /\ closed.pnl # None /\ closed.pnl = w.position.realized + LastLeg(w)
               /\ closed.side = trade.side /\ closed.entry = trade.entry /\ closed.sl = trade.sl
               /\ closed.volume = trade.volume
  <1> DEFINE p == w.position
             k == (trade.sl - trade.entry) * Contract
             pnl == p.realized + LastLeg(w)
             paid == [trade EXCEPT !.pnl = pnl]
             at == Len(bars) + 1
             closed == [paid EXCEPT !.closed = at]
  <1>0. None \notin Int /\ Contract \in Nat
    BY PlanAssumption DEF PlanAssumption
  <1>1. /\ p \in Positions /\ p.volume <= p.initial /\ k * (p.initial - p.volume) <= p.realized
    BY DEF AboveStop
  <1>2. /\ p.realized \in Int /\ p.volume \in Nat /\ p.initial \in Nat /\ p.entry \in Int
    BY <1>1 DEF Positions
  <1>3. w.exit \in Int
    BY DEF Level
  <1>4. /\ trade.sl \in Int /\ trade.entry \in Int /\ trade.volume \in Nat /\ trade.cost \in Int
        /\ trade.risk \in Nat
    BY DEF Trades
  <1>5. LastLeg(w) = (w.exit - p.entry) * p.volume * Contract
    BY DEF LastLeg
  <1>6. LastLeg(w) \in Int /\ k \in Int /\ k * p.volume <= LastLeg(w)
    <2> DEFINE m == (trade.sl - p.entry) * Contract
               leg == (w.exit - p.entry) * p.volume * Contract
    <2>1. leg \in Int /\ m \in Int /\ m * p.volume <= leg
      BY <1>2, <1>3, <1>4, LegFits
    <2>2. m = k
      OBVIOUS
    <2> HIDE DEF m, leg, k
    <2>3. LastLeg(w) = leg
      BY <1>5 DEF leg
    <2> QED BY <2>1, <2>2, <2>3
  <1>7. pnl \in Int /\ k * trade.volume <= pnl
    <2> DEFINE gone == p.initial - p.volume
    <2>1. gone \in Int /\ trade.volume = gone + p.volume
      BY <1>2
    <2> HIDE DEF gone, k, p
    <2>2. k * trade.volume = k * gone + k * p.volume /\ k * gone \in Int /\ k * p.volume \in Int
      BY <1>2, <1>6, <2>1, TimesSplit
    <2>3. k * gone <= p.realized
      BY <1>1 DEF gone
    <2>4. PICK x \in Int, y \in Int : x = k * gone /\ y = k * p.volume
      BY <2>2
    <2>5. k * trade.volume = x + y /\ x <= p.realized /\ y <= LastLeg(w)
      BY <1>6, <2>2, <2>3, <2>4
    <2> QED BY <1>2, <1>6, <2>5, SMTT(30)
  <1>8. ClosedTrade(trade, w) = closed
    BY DEF ClosedTrade
  <1> HIDE DEF pnl
  <1>9. paid \in Trades /\ paid.pnl = pnl /\ pnl # None
    BY <1>0, <1>7 DEF Trades, Level
  <1>10. /\ paid.side = trade.side /\ paid.entry = trade.entry /\ paid.sl = trade.sl
         /\ paid.volume = trade.volume /\ paid.cost = trade.cost /\ paid.risk = trade.risk
    BY DEF Trades
  <1> HIDE DEF paid
  <1>11. closed \in Trades
    <2>1. at \in Nat
      OBVIOUS
    <2> HIDE DEF at
    <2> QED BY <1>9, <2>1 DEF Trades
  <1>12. /\ closed.side = trade.side /\ closed.entry = trade.entry /\ closed.sl = trade.sl
         /\ closed.volume = trade.volume /\ closed.cost = trade.cost /\ closed.risk = trade.risk
         /\ closed.pnl = pnl
    BY <1>9, <1>10 DEF Trades
  <1> HIDE DEF closed
  <1>13. Sized(closed)
    BY <1>12 DEF Sized
  <1>14. WithinBudget(closed)
    <2> DEFINE cost == trade.cost * trade.volume * Contract
               loss == (trade.entry - trade.cost - trade.sl) * Contract * trade.volume
               low == k * trade.volume
               cap == trade.risk * (100 + RiskTolerance)
    <2>1. loss = -low - cost /\ loss \in Int /\ low \in Int /\ cost \in Int
      <3> DEFINE units == Contract * trade.volume
      <3>1. units \in Int
        BY <1>0, <1>4
      <3>2. /\ loss = (trade.entry - trade.cost - trade.sl) * units /\ low = (trade.sl - trade.entry) * units
            /\ cost = trade.cost * units
        <4> DEFINE a == trade.entry - trade.cost - trade.sl
                   b == trade.sl - trade.entry
        <4>1. a \in Int /\ b \in Int /\ trade.cost \in Int /\ trade.volume \in Int /\ Contract \in Int
          BY <1>0, <1>4
        <4> HIDE DEF a, b
        <4>2. a * Contract * trade.volume = a * units /\ b * Contract * trade.volume = b * units
          BY <4>1, TimesRegrouped
        <4>3. trade.cost * trade.volume * Contract = trade.cost * units
          BY <4>1, TimesRegrouped
        <4> QED BY <4>2, <4>3 DEF a, b
      <3> HIDE DEF units, loss, low, cost
      <3> DEFINE b == trade.sl - trade.entry
      <3>3. /\ (trade.entry - trade.cost - trade.sl) * units = -(b * units) - trade.cost * units
            /\ b * units \in Int /\ trade.cost * units \in Int
        <4>1. b \in Int /\ trade.cost \in Int /\ trade.entry - trade.cost - trade.sl = -b - trade.cost
          BY <1>4, SMTT(30)
        <4> HIDE DEF b
        <4> QED BY <3>1, <4>1, TimesSplit
      <3> QED BY <3>2, <3>3
    <2>2. 100 * loss <= cap
      BY DEF Sized
    <2>3. cap \in Int
      BY <1>4, PlanAssumption, SMTT(30) DEF PlanAssumption
    <2>4. low <= pnl
      BY <1>7
    <2> SUFFICES 100 * (-pnl - cost) <= cap
      BY <1>12 DEF WithinBudget
    <2> HIDE DEF loss, low, cost, cap
    <2> QED BY <1>7, <2>1, <2>2, <2>3, <2>4
  <1> QED BY <1>8, <1>9, <1>11, <1>12, <1>13, <1>14 DEF pnl

\* A position that is opened: its trade risks no more than the cap.
Enters(p, bar) ==
    /\ AboveStop(p, p.sl) /\ p.volume = p.initial
    /\ p.sl <= Signed(p.side, bar.close)
    /\ 100 * ((Signed(p.side, bar.close) - p.sl) * Contract * p.initial) <= Budget * (100 + RiskTolerance)

OpeningTrade(p, bar) ==
    [side |-> p.side, entry |-> p.entry, sl |-> p.sl, cost |-> p.entry - Signed(p.side, bar.close),
     volume |-> p.initial, risk |-> Budget, pnl |-> None, closed |-> 0,
     type |-> bar.type, session |-> bar.session, band |-> bar.band]

LEMMA OpeningTradeSound ==
    ASSUME NEW bar \in Shapes, NEW p, Enters(p, bar)
    PROVE  /\ OpeningTrade(p, bar) \in Trades /\ Sized(OpeningTrade(p, bar))
           /\ WithinBudget(OpeningTrade(p, bar))
  <1> DEFINE at == Signed(p.side, bar.close)
             cost == p.entry - at
             trade == OpeningTrade(p, bar)
  <1>1. /\ p.side \in Sides /\ p.entry \in Int /\ p.sl \in Int /\ p.initial \in Nat /\ at \in Int
        /\ Budget \in Nat
    BY WorstToBest, BacktestAssumption DEF Enters, AboveStop, Positions, BacktestAssumption
  <1>2. cost \in Int /\ p.entry - cost = at
    BY <1>1
  <1>3. /\ trade.side = p.side /\ trade.entry = p.entry /\ trade.sl = p.sl /\ trade.cost = cost
        /\ trade.volume = p.initial /\ trade.risk = Budget /\ trade.pnl = None
    BY DEF OpeningTrade
  <1>4. trade \in Trades
    <2> HIDE DEF cost
    <2> QED BY <1>1, <1>2 DEF OpeningTrade, Trades, Level, cost
  <1> HIDE DEF trade, cost
  <1>5. Sized(trade)
    BY <1>2, <1>3 DEF Sized, Enters
  <1> QED BY <1>3, <1>4, <1>5 DEF WithinBudget, trade

\* The journal after a bar
Journaled(walks) ==
    [t \in DOMAIN journal |-> IF t \in DOMAIN walks /\ walks[t].exit # None
                              THEN ClosedTrade(journal[t], walks[t]) ELSE journal[t]]

Staying(walks) == {t \in DOMAIN walks : walks[t].exit = None}

LEMMA BookCloses ==
    ASSUME NEW bar, NEW walks, NEW entry, Book(bar, walks, entry), entry = None
    PROVE  /\ DOMAIN open' = Staying(walks)
           /\ \A t \in Staying(walks) : open'[t] = walks[t].position
           /\ journal' = Journaled(walks)
           /\ UNCHANGED entries
  <1>1. open' = [t \in Staying(walks) |-> walks[t].position]
    BY DEF Book, Staying
  <1>2. journal' = Journaled(walks) /\ UNCHANGED entries
    BY DEF Book, Journaled
  <1> QED BY <1>1, <1>2

LEMMA JournaledSound ==
    ASSUME TradesInv, NEW bar \in Shapes, NEW walks, DOMAIN walks = DOMAIN open,
           \A t \in DOMAIN open : Walked(t, walks[t], bar)
    PROVE  /\ Journaled(walks) \in Seq(Trades) /\ Len(Journaled(walks)) = Len(journal)
           /\ \A t \in DOMAIN journal :
                /\ Journaled(walks)[t] \in Trades /\ Sized(Journaled(walks)[t]) /\ WithinBudget(Journaled(walks)[t])
                /\ t \notin DOMAIN walks \/ walks[t].exit = None => Journaled(walks)[t] = journal[t]
                /\ t \in DOMAIN walks /\ walks[t].exit # None =>
                        /\ Journaled(walks)[t].pnl = walks[t].position.realized + LastLeg(walks[t])
                        /\ Journaled(walks)[t].pnl # None
  <1> DEFINE J == Journaled(walks)
  <1>1. journal \in Seq(Trades) /\ bars \in Seq(Shapes) /\ DOMAIN journal = 1..Len(journal) /\ Len(journal) \in Nat
    BY DEF TradesInv
  <1>2. ASSUME NEW t \in DOMAIN journal
        PROVE  /\ J[t] \in Trades /\ Sized(J[t]) /\ WithinBudget(J[t])
               /\ t \notin DOMAIN walks \/ walks[t].exit = None => J[t] = journal[t]
               /\ t \in DOMAIN walks /\ walks[t].exit # None =>
                        /\ J[t].pnl = walks[t].position.realized + LastLeg(walks[t])
                        /\ J[t].pnl # None
    <2>1. J[t] = IF t \in DOMAIN walks /\ walks[t].exit # None
                 THEN ClosedTrade(journal[t], walks[t]) ELSE journal[t]
      BY DEF Journaled
    <2>2. journal[t] \in Trades /\ Sized(journal[t]) /\ WithinBudget(journal[t])
      <3>1. journal[t] \in Trades
        BY <1>1
      <3>2. Sized(journal[t])
        BY DEF TradesInv
      <3>3. WithinBudget(journal[t])
        BY DEF TradesInv, LossWithinBudget, WithinBudget
      <3> QED BY <3>1, <3>2, <3>3
    <2>3. CASE t \in DOMAIN walks /\ walks[t].exit # None
      <3>1. Followed(t) /\ Walked(t, walks[t], bar)
        BY <2>3 DEF TradesInv
      <3>2. /\ AboveStop(walks[t].position, journal[t].sl) /\ walks[t].position.entry = journal[t].entry
            /\ walks[t].position.initial = journal[t].volume /\ walks[t].exit \in Level
            /\ journal[t].sl <= walks[t].exit
        BY <2>3, <3>1 DEF Followed, Walked, SameTrade
      <3> QED BY <1>1, <2>1, <2>2, <2>3, <3>2, ClosedWithinBudget
    <2>4. CASE ~ (t \in DOMAIN walks /\ walks[t].exit # None)
      BY <2>1, <2>2, <2>4
    <2> QED BY <2>3, <2>4
  <1>3. J \in [1..Len(journal) -> Trades]
    <2>1. DOMAIN J = 1..Len(journal) /\ J = [t \in DOMAIN J |-> J[t]]
      BY <1>1 DEF Journaled
    <2> HIDE DEF J
    <2> QED BY <1>1, <1>2, <2>1
  <1> HIDE DEF J
  <1>4. J \in Seq(Trades) /\ Len(J) = Len(journal)
    BY <1>1, <1>3
  <1> QED BY <1>2, <1>4 DEF J

LEMMA BookTrades ==
    ASSUME TradesInv, NEW bar \in Shapes, NEW walks, DOMAIN walks = DOMAIN open,
           \A t \in DOMAIN open : Walked(t, walks[t], bar),
           NEW entry, entry # None => Enters(entry, bar), Book(bar, walks, entry),
           bars' \in Seq(Shapes), bars' # <<>>, Last(bars') = bar
    PROVE  TradesInv'
  <1> DEFINE J == Journaled(walks)
             staying == Staying(walks)
             trade == OpeningTrade(entry, bar)
  <1>1. /\ J \in Seq(Trades) /\ Len(J) = Len(journal)
        /\ \A t \in DOMAIN journal :
                /\ J[t] \in Trades /\ Sized(J[t]) /\ WithinBudget(J[t])
                /\ t \notin DOMAIN walks \/ walks[t].exit = None => J[t] = journal[t]
    BY JournaledSound
  <1>2. Len(journal) \in Nat /\ DOMAIN journal = 1..Len(journal)
    BY DEF TradesInv
  <1>3. \A t \in staying : t \in DOMAIN open /\ walks[t].exit = None
    BY DEF Staying
  <1> HIDE DEF J, staying
  <1>4. ASSUME NEW t \in staying
        PROVE  /\ t \in DOMAIN journal /\ J[t] = journal[t] /\ journal[t].pnl = None
               /\ AboveStop(walks[t].position, journal[t].sl)
               /\ walks[t].position.side = journal[t].side /\ walks[t].position.entry = journal[t].entry
               /\ walks[t].position.initial = journal[t].volume
               /\ journal[t].sl <= Signed(walks[t].position.side, bar.close)
    <2>1. Followed(t) /\ Walked(t, walks[t], bar) /\ walks[t].exit = None
      BY <1>3 DEF TradesInv
    <2> QED BY <1>1, <2>1 DEF Followed, Walked, SameTrade
  <1>5. CASE entry = None
    <2>1. journal' = J /\ DOMAIN open' = staying /\ \A t \in staying : open'[t] = walks[t].position
      BY <1>5, BookCloses DEF J, staying
    <2>2. DOMAIN journal' = DOMAIN journal /\ journal' \in Seq(Trades)
      BY <1>1, <1>2, <2>1
    <2>3. \A t \in DOMAIN open' : Followed(t)'
      BY <1>4, <2>1, <2>2 DEF Followed
    <2>4. \A t \in DOMAIN journal' : Sized(journal'[t]) /\ WithinBudget(journal'[t])
      BY <1>1, <2>1, <2>2
    <2> QED BY <2>2, <2>3, <2>4 DEF TradesInv, LossWithinBudget, WithinBudget, Sized
  <1>6. CASE entry # None
    <2>0. PICK new \in Nat : new = Len(journal) + 1
      BY <1>2
    <2>1. /\ journal' = Append(J, trade) /\ DOMAIN open' = staying \cup {new}
          /\ open'[new] = entry /\ \A t \in staying : t # new => open'[t] = walks[t].position
      <3> HIDE DEF trade
      <3>1. open' = [t \in staying \cup {new} |-> IF t = new THEN entry ELSE walks[t].position]
        BY <1>6, <2>0 DEF Book, Staying, staying
      <3>2. journal' = Append(J, trade)
        BY <1>6 DEF Book, Journaled, OpeningTrade, J, trade
      <3>3. DOMAIN open' = staying \cup {new} /\ open'[new] = entry
        BY <3>1
      <3>4. \A t \in staying : t # new => open'[t] = walks[t].position
        BY <3>1
      <3> QED BY <3>2, <3>3, <3>4
    <2>2. /\ trade \in Trades /\ Sized(trade) /\ WithinBudget(trade) /\ Enters(entry, bar)
          /\ trade.side = entry.side /\ trade.entry = entry.entry /\ trade.sl = entry.sl
          /\ trade.volume = entry.initial /\ trade.pnl = None
      BY <1>6, OpeningTradeSound DEF OpeningTrade
    <2> HIDE DEF trade
    <2>3. /\ journal' \in Seq(Trades) /\ DOMAIN journal' = DOMAIN journal \cup {new}
          /\ journal'[new] = trade /\ \A t \in DOMAIN journal : journal'[t] = J[t]
      BY <1>1, <1>2, <2>0, <2>1, <2>2
    <2>4. new \notin DOMAIN journal
      BY <1>2, <2>0
    <2>5. ASSUME NEW t \in staying PROVE Followed(t)'
      <3>1. t # new /\ t \in DOMAIN journal' /\ journal'[t] = journal[t] /\ open'[t] = walks[t].position
        BY <1>4, <2>1, <2>3, <2>4
      <3> QED BY <1>4, <3>1 DEF Followed
    <2>6. Followed(new)'
      <3>1. open'[new] = entry
        BY <2>1
      <3>2. new \in DOMAIN journal' /\ journal'[new] = trade
        BY <2>3
      <3>3. AboveStop(entry, trade.sl) /\ trade.sl <= Signed(entry.side, bar.close)
        BY <2>2 DEF Enters
      <3> QED BY <2>2, <3>1, <3>2, <3>3 DEF Followed
    <2>7. \A t \in DOMAIN journal' : Sized(journal'[t]) /\ WithinBudget(journal'[t])
      BY <1>1, <2>2, <2>3
    <2> QED BY <2>1, <2>3, <2>5, <2>6, <2>7 DEF TradesInv, LossWithinBudget, WithinBudget, Sized
  <1> QED BY <1>5, <1>6

LEMMA RangeTyped ==
    ASSUME NEW model, model.base \in Nat, model.factor \in Nat, NEW bar \in Shapes
    PROVE  OnRange(model, bar) \in Int
  <1> DEFINE range == bar.high - bar.low
             scaled == model.factor * range
  <1>1. range \in Int
    BY BarTyped
  <1>2. scaled \in Int
    <2> HIDE DEF range
    <2> QED BY <1>1
  <1>3. scaled \div 100 \in Int
    <2> HIDE DEF scaled
    <2> QED BY <1>2
  <1> HIDE DEF scaled
  <1>4. OnRange(model, bar) = model.base + scaled \div 100
    BY DEF OnRange, scaled
  <1> QED BY <1>3, <1>4

\* The backtest plans with the bundle it builds from the bar.
LEMMA BacktestPlanInputs ==
    ASSUME NEW bar \in Shapes, NEW side \in Sides
    PROVE  PlanInputs(side, bar.close, MarketOf(bar), [levels |-> {}, rr |-> <<None, None>>])
  <1> DEFINE market == MarketOf(bar)
             scaled == 3 * (IF bar.atr > 0 THEN bar.atr ELSE AtrFloor)
             reach == scaled \div 4
  <1>1. /\ bar.close \in Int /\ bar.atr \in Int /\ bar.swings[side] \in Level
    BY BarTyped
  <1>2. /\ bar.centers \subseteq Int
        /\ bar.gaps # None => bar.gaps \in Seq([bull : BOOLEAN, top : Int, bottom : Int])
        /\ AtrFloor \in Nat
    BY BacktestAssumption DEF BacktestAssumption
  <1>3. bar.profiles \in Seq([vah : Level, val : Level, vpoc : Level])
    BY BacktestAssumption DEF BacktestAssumption, Level
  <1>4. reach \in Int
    <2>1. scaled \in Int
      BY <1>1, <1>2
    <2> HIDE DEF scaled
    <2> QED BY <2>1
  <1>5. market = [swings |-> bar.swings, atr |-> bar.atr, gaps |-> bar.gaps, profiles |-> bar.profiles,
                  centers |-> IF bar.centers = {} THEN {bar.close - reach, bar.close + reach} ELSE bar.centers]
    BY DEF MarketOf
  <1> HIDE DEF reach, market
  <1>6. /\ market.swings = bar.swings /\ market.atr = bar.atr /\ market.gaps = bar.gaps
        /\ market.profiles = bar.profiles /\ market.centers \subseteq Int
    BY <1>1, <1>2, <1>4, <1>5
  <1>7. None \in Level
    BY DEF Level
  <1> QED BY <1>1, <1>2, <1>3, <1>6, <1>7 DEF PlanInputs, market

LEMMA OpenedEnters ==
    ASSUME NEW bar \in Shapes, NEW side \in Sides, Tradable(side, bar)
    PROVE  LET plan == Plan(side, bar.close, MarketOf(bar), [levels |-> {}, rr |-> <<None, None>>], Budget)
           IN  /\ Enters(Opened(plan, bar), bar)
               /\ Opened(plan, bar).peak = Opened(plan, bar).entry /\ Opened(plan, bar).realized = 0
               /\ Opened(plan, bar).tp1Taken = FALSE /\ Opened(plan, bar).tp2Taken = FALSE
               /\ Opened(plan, bar).armed = FALSE
               /\ Opened(plan, bar).dist = IF Opened(plan, bar).entry = Opened(plan, bar).sl THEN 1
                                           ELSE Distance(Opened(plan, bar).entry, Opened(plan, bar).sl)
  <1> DEFINE ai == [levels |-> {}, rr |-> <<None, None>>]
             market == MarketOf(bar)
             plan == Plan(side, bar.close, market, ai, Budget)
             at == Signed(side, bar.close)
             spread == SpreadOf(bar)
             slip == SlippageOf(bar)
             fill == at + spread \div 2 + slip
             dist == IF fill = plan.sl THEN 1 ELSE Distance(fill, plan.sl)
             p == Opened(plan, bar)
  <1>1. Budget \in Nat /\ None \notin Int /\ Contract \in Nat
    BY BacktestAssumption, PlanAssumption DEF BacktestAssumption, PlanAssumption
  <1>2. at # plan.sl
    BY DEF Tradable
  <1>3. /\ {plan.sl, plan.tp1, plan.tp2, plan.tp3} \subseteq Int /\ plan.volume \in Nat /\ plan.side = side
        /\ plan.sl < at /\ at < plan.tp1 /\ at < plan.tp2 /\ plan.tp2 < plan.tp3
        /\ 100 * plan.volume * ((at - plan.sl) * Contract) <= Budget * (100 + RiskTolerance)
    <2>1. PlanInputs(side, bar.close, market, ai)
      BY BacktestPlanInputs
    <2> HIDE DEF ai, market
    <2>2. plan = Plan(side, bar.close, market, ai, Budget)
      OBVIOUS
    <2> HIDE DEF plan
    <2> QED BY <1>1, <1>2, <2>1, <2>2, PlanIsSound
  <1> HIDE DEF plan
  <1>7. p = [side |-> plan.side, entry |-> fill, sl |-> plan.sl, tp1 |-> plan.tp1, tp2 |-> plan.tp2,
             tp3 |-> plan.tp3, volume |-> plan.volume, initial |-> plan.volume, dist |-> dist, peak |-> fill,
             tp1Taken |-> FALSE, tp2Taken |-> FALSE, armed |-> FALSE, realized |-> 0]
    BY <1>3 DEF Opened
  <1>4. at \in Int
    BY WorstToBest
  <1>5. slip \in Int /\ spread \in Int
    <2>1. /\ Slippage.base \in Nat /\ Slippage.factor \in Nat
          /\ Spread.base \in Nat /\ Spread.factor \in Nat /\ Spread.times \in Nat
      BY BacktestAssumption DEF BacktestAssumption
    <2>2. OnRange(Slippage, bar) \in Int /\ OnRange(Spread, bar) \in Int
      BY <2>1, RangeTyped
    <2>3. \A a \in Int, b \in Int : a * b \in Int
      OBVIOUS
    <2> QED BY <2>1, <2>2, <2>3 DEF SlippageOf, SpreadOf
  <1> HIDE DEF at, slip, spread
  <1>6. fill \in Int
    <2>1. spread \div 2 \in Int
      BY <1>5
    <2> QED BY <1>4, <1>5, <2>1
  <1> HIDE DEF fill, p
  <1>8. dist \in Int
    <2>1. plan.sl \in Int
      BY <1>3
    <2>2. Distance(fill, plan.sl) \in Nat
      BY <1>6, <2>1, DistanceIsNat
    <2> QED BY <2>2
  <1>9. p \in Positions
    <2> HIDE DEF dist
    <2> QED BY <1>3, <1>6, <1>7, <1>8 DEF Positions
  <1>10. /\ p.side = side /\ p.entry = fill /\ p.sl = plan.sl /\ p.tp1 = plan.tp1 /\ p.tp2 = plan.tp2
         /\ p.tp3 = plan.tp3 /\ p.volume = plan.volume /\ p.initial = plan.volume /\ p.realized = 0
         /\ p.peak = fill /\ p.tp1Taken = FALSE /\ p.tp2Taken = FALSE /\ p.armed = FALSE /\ p.dist = dist
    BY <1>3, <1>7
  <1>11. \A x \in {p.sl, p.tp1, p.tp2, p.tp3} : p.sl <= x
    BY <1>3, <1>4, <1>10
  <1>12. (p.sl - p.entry) * Contract * (p.initial - p.volume) <= p.realized
    <2> DEFINE k == (p.sl - p.entry) * Contract
    <2>1. k \in Int
      BY <1>1, <1>3, <1>6, <1>10
    <2>2. p.initial - p.volume = 0
      BY <1>3, <1>10
    <2> HIDE DEF k
    <2>3. k * (p.initial - p.volume) = 0
      BY <2>1, <2>2
    <2> QED BY <1>10, <2>3 DEF k
  <1>13. 100 * ((at - p.sl) * Contract * p.initial) <= Budget * (100 + RiskTolerance)
    <2> DEFINE d == at - p.sl
    <2>1. d \in Int
      BY <1>3, <1>4, <1>10
    <2> HIDE DEF d
    <2>2. 100 * (d * Contract * p.initial) = 100 * p.initial * (d * Contract)
      BY <1>1, <1>3, <1>10, <2>1
    <2> QED BY <1>3, <1>10, <2>2 DEF d
  <1>14. p.sl <= at
    BY <1>3, <1>4, <1>10
  <1>15. AboveStop(p, p.sl) /\ p.volume = p.initial
    BY <1>3, <1>9, <1>10, <1>11, <1>12 DEF AboveStop
  <1>16. Enters(p, bar)
    BY <1>10, <1>13, <1>14, <1>15 DEF Enters, at
  <1> QED BY <1>10, <1>16 DEF p, plan, dist, market, ai

\* What a position is opened with
Fresh(p) ==
    /\ p.peak = p.entry /\ p.realized = 0 /\ p.volume = p.initial
    /\ p.tp1Taken = FALSE /\ p.tp2Taken = FALSE /\ p.armed = FALSE
    /\ p.dist = IF p.entry = p.sl THEN 1 ELSE Distance(p.entry, p.sl)

\* A bar walks every open position, which leaves it above its first stop, and
\* may bring an entry that risks no more than the cap.
BooksBar(bar, walks, entry) ==
    /\ DOMAIN walks = DOMAIN open
    /\ \A t \in DOMAIN open : walks[t] = WalkPosition(open[t], bar)
    /\ \A t \in DOMAIN open : Walked(t, walks[t], bar)
    /\ entry # None => Enters(entry, bar) /\ Fresh(entry)
    /\ Book(bar, walks, entry)
    /\ bars' = Append(bars, bar)

LEMMA RunBarBooks ==
    ASSUME TradesInv, NEW bar \in Shapes, NEW signal \in Sides \cup {None}, RunBar(bar, signal)
    PROVE  \E walks, entry : BooksBar(bar, walks, entry)
  <1> DEFINE walks == [t \in DOMAIN open |-> WalkPosition(open[t], bar)]
             plan == Plan(signal, bar.close, MarketOf(bar), [levels |-> {}, rr |-> <<None, None>>], Budget)
             entry == IF signal # None /\ Tradable(signal, bar) THEN Opened(plan, bar) ELSE None
  <1>1. Book(bar, walks, entry) /\ bars' = Append(bars, bar)
    BY DEF RunBar
  <1>2. entry # None => Enters(entry, bar) /\ Fresh(entry)
    BY OpenedEnters, ZenonT(40) DEF Fresh, Enters
  <1>3. ASSUME NEW t \in DOMAIN open PROVE Walked(t, walks[t], bar)
    <2> DEFINE w == WalkPosition(open[t], bar)
    <2>1. AboveStop(open[t], journal[t].sl) /\ t \in DOMAIN journal /\ journal \in Seq(Trades)
      BY DEF TradesInv, Followed
    <2>2. journal[t].sl \in Int
      <3>1. journal[t] \in Trades
        BY <2>1, ElementTyped
      <3> QED BY <3>1 DEF Trades
    <2>3. /\ AboveStop(w.position, journal[t].sl) /\ SameTrade(open[t], w.position)
          /\ w.exit \in Level /\ (w.exit # None => journal[t].sl <= w.exit)
          /\ w.exit = None => journal[t].sl <= Signed(open[t].side, bar.close)
      BY <2>1, <2>2, WalkAbove
    <2> QED BY <2>3 DEF Walked
  <1>4. DOMAIN walks = DOMAIN open /\ \A t \in DOMAIN open : walks[t] = WalkPosition(open[t], bar)
    OBVIOUS
  <1> HIDE DEF walks, entry
  <1>5. BooksBar(bar, walks, entry)
    BY <1>1, <1>2, <1>3, <1>4 DEF BooksBar
  <1> QED BY <1>5

\* The end of the range closes what is open at the last close, which no open
\* position's stop is above.
BooksLast(bar, walks) ==
    /\ bar \in Shapes /\ bar = Last(bars) /\ bars # <<>>
    /\ DOMAIN walks = DOMAIN open
    /\ \A t \in DOMAIN open : walks[t] = Leaves(open[t], Signed(open[t].side, bar.close))
    /\ \A t \in DOMAIN open : Walked(t, walks[t], bar)
    /\ Book(bar, walks, None)
    /\ bars' = bars

LEMMA FinishBooks == ASSUME TradesInv, Finish PROVE \E bar, walks : BooksLast(bar, walks)
  <1> DEFINE bar == Last(bars)
             walks == [t \in DOMAIN open |-> Leaves(open[t], Signed(open[t].side, bar.close))]
  <1>1. Book(bar, walks, None) /\ bars' = bars /\ bars # <<>>
    BY DEF Finish
  <1>2. bar \in Shapes
    <2>1. bars \in Seq(Shapes) /\ bars # <<>>
      BY <1>1 DEF TradesInv
    <2> HIDE DEF walks
    <2> QED BY <2>1 DEF Last
  <1>3. ASSUME NEW t \in DOMAIN open PROVE Walked(t, walks[t], bar)
    <2> DEFINE close == Signed(open[t].side, bar.close)
    <2>1. AboveStop(open[t], journal[t].sl) /\ journal[t].sl <= close
      BY DEF TradesInv, Followed
    <2>2. close \in Int
      BY <1>2, WorstToBest
    <2>3. walks[t].position = open[t] /\ walks[t].exit = close
      BY DEF Leaves
    <2>4. None \notin Int
      BY PlanAssumption DEF PlanAssumption
    <2> HIDE DEF walks, close, bar
    <2> QED BY <2>1, <2>2, <2>3, <2>4 DEF Walked, SameTrade, Level
  <1>4. DOMAIN walks = DOMAIN open /\ bar = Last(bars)
        /\ \A t \in DOMAIN open : walks[t] = Leaves(open[t], Signed(open[t].side, bar.close))
    OBVIOUS
  <1> HIDE DEF walks, bar
  <1>5. BooksLast(bar, walks)
    BY <1>1, <1>2, <1>3, <1>4 DEF BooksLast
  <1> QED BY <1>5

LEMMA TradesInvHolds == BacktestSpec => []TradesInv
  <1>1. BacktestInit => TradesInv
    BY DEF BacktestInit, TradesInv, LossWithinBudget
  <1>2. TradesInv /\ [BacktestNext]_backtestVars => TradesInv'
    <2> SUFFICES ASSUME TradesInv, [BacktestNext]_backtestVars PROVE TradesInv'
      OBVIOUS
    <2>1. ASSUME NEW bar \in Shapes, NEW signal \in Sides \cup {None}, RunBar(bar, signal) PROVE TradesInv'
      <3>1. PICK walks, entry : BooksBar(bar, walks, entry)
        BY <2>1, RunBarBooks
      <3>2. bars' \in Seq(Shapes) /\ bars' # <<>> /\ Last(bars') = bar
        <4>1. bars \in Seq(Shapes) /\ bars' = Append(bars, bar)
          BY <3>1 DEF BooksBar, TradesInv
        <4> QED BY <4>1 DEF Last
      <3> QED BY <3>1, <3>2, BookTrades DEF BooksBar
    <2>2. CASE Finish
      <3>1. PICK bar, walks : BooksLast(bar, walks)
        BY <2>2, FinishBooks
      <3>2. bars' \in Seq(Shapes) /\ bars' # <<>> /\ Last(bars') = bar
        BY <3>1 DEF BooksLast, TradesInv
      <3> QED BY <3>1, <3>2, BookTrades DEF BooksLast
    <2>3. CASE UNCHANGED backtestVars
      BY <2>3 DEF backtestVars, TradesInv, Followed, LossWithinBudget
    <2> QED BY <2>1, <2>2, <2>3 DEF BacktestNext
  <1> QED BY <1>1, <1>2, PTL DEF BacktestSpec

\* A trade of the backtest loses no more than the risk manager granted it,
\* within the sizer's tolerance, and the cost of its fill: through any path of
\* partial closes, stop moves, gaps and the close of the last bar, for any bars,
\* exit settings and cost models (engine.py: _walk_open_positions).
THEOREM BacktestLossWithinBudget == BacktestSpec => []LossWithinBudget
  <1>1. TradesInv => LossWithinBudget
    BY DEF TradesInv
  <1> QED BY <1>1, TradesInvHolds, PTL

-----------------------------------------------------------------------------
\* The backtest: its accounts

\* Numbers that come with the number before them, down to one that is not among
\* them, are none: what an induction over the places of a sequence rests on.
LEMMA NoLeast ==
    ASSUME NEW n \in Nat, NEW S, S \subseteq 0..n, \A k \in S : k # 0 /\ k - 1 \in S
    PROVE  S = {}
  <1> SUFFICES ASSUME S # {} PROVE FALSE
    OBVIOUS
  <1>1. S \subseteq Int /\ 0 \in Int /\ \A x \in S : 0 <= x
    OBVIOUS
  <1>2. Min(S) \in S /\ \A x \in S : Min(S) <= x
    BY <1>1, LeastOfBounded
  <1>3. Min(S) - 1 \in S /\ Min(S) \in Int
    BY <1>1, <1>2
  <1>4. Min(S) <= Min(S) - 1
    BY <1>2, <1>3
  <1> QED BY <1>3, <1>4

\* The running sums of n numbers: g[k] is the sum of the first k.
Sums(n, s, g) == g[0] = 0 /\ \A k \in 1..n : g[k] = g[k - 1] + s[k]

LEMMA TotalIsLastSum ==
    ASSUME NEW n \in Nat, NEW s \in [1..n -> Int]
    PROVE  \E g : Sums(n, s, g) /\ Total(s) = g[n]
  <1> DEFINE Upto(g, k) == g = [i \in 0..k |-> IF i = 0 THEN 0 ELSE g[i - 1] + s[i]]
             Bad == {k \in 0..n : ~ \E g : Upto(g, k)}
  <1>1. s \in Seq(Int) /\ Len(s) = n
    OBVIOUS
  <1>2. ASSUME NEW k \in Bad PROVE k # 0 /\ k - 1 \in Bad
    <2>1. k # 0
      <3> DEFINE g == [i \in 0..0 |-> 0]
      <3>1. Upto(g, 0)
        OBVIOUS
      <3> HIDE DEF g
      <3> QED BY <1>2, <3>1
    <2>2. k - 1 \in 0..n
      BY <1>1, <2>1
    <2>3. ASSUME NEW g, Upto(g, k - 1) PROVE FALSE
      <3> DEFINE h == [i \in 0..k |-> IF i = k THEN g[k - 1] + s[k] ELSE g[i]]
      <3>1. ASSUME NEW i \in 0..k PROVE h[i] = IF i = 0 THEN 0 ELSE h[i - 1] + s[i]
        <4>1. CASE i = k
          <5>1. h[k] = g[k - 1] + s[k] /\ h[k - 1] = g[k - 1]
            BY <2>1
          <5> QED BY <2>1, <4>1, <5>1
        <4>2. CASE i # k
          <5>1. i \in 0..(k - 1) /\ h[i] = g[i]
            BY <4>2
          <5>2. g[i] = IF i = 0 THEN 0 ELSE g[i - 1] + s[i]
            <6> HIDE DEF h
            <6> QED BY <2>3, <5>1
          <5>3. i # 0 => h[i - 1] = g[i - 1]
            BY <4>2
          <5> HIDE DEF h
          <5> QED BY <5>1, <5>2, <5>3
        <4> QED BY <4>1, <4>2
      <3>2. h = [i \in 0..k |-> h[i]]
        OBVIOUS
      <3> HIDE DEF h
      <3>3. Upto(h, k)
        BY <3>1, <3>2
      <3> QED BY <1>2, <3>3
    <2> QED BY <2>1, <2>2, <2>3
  <1>3. Bad = {}
    <2>1. Bad \subseteq 0..n
      OBVIOUS
    <2> HIDE DEF Bad
    <2> QED BY <1>2, <2>1, NoLeast
  <1>4. \E g : g = [i \in 0..n |-> IF i = 0 THEN 0 ELSE g[i - 1] + s[i]]
    <2>1. n \in 0..n
      OBVIOUS
    <2>2. \E g : Upto(g, n)
      <3> HIDE DEF Upto
      <3> QED BY <1>3, <2>1
    <2> QED BY <2>2
  <1> DEFINE sum == CHOOSE g : g = [i \in 0..Len(s) |-> IF i = 0 THEN 0 ELSE g[i - 1] + s[i]]
  <1>5. sum = [i \in 0..n |-> IF i = 0 THEN 0 ELSE sum[i - 1] + s[i]]
    BY <1>1, <1>4
  <1>6. Total(s) = sum[Len(s)]
    BY DEF Total
  <1> HIDE DEF sum
  <1>7. \A k \in 0..n : sum[k] = IF k = 0 THEN 0 ELSE sum[k - 1] + s[k]
    BY <1>5
  <1>8. Sums(n, s, sum)
    BY <1>7 DEF Sums
  <1> QED BY <1>1, <1>6, <1>8

\* Totals add up place by place; one more place that holds nothing adds nothing.
LEMMA TotalAdds ==
    ASSUME NEW n \in Nat, NEW m \in {n, n + 1}, NEW a \in [1..n -> Int], NEW b \in [1..n -> Int],
           NEW c \in [1..m -> Int], \A i \in 1..n : c[i] = a[i] + b[i], m = n + 1 => c[m] = 0
    PROVE  Total(c) = Total(a) + Total(b) /\ Total(a) \in Int /\ Total(b) \in Int
  <1>1. m \in Nat
    OBVIOUS
  <1>2. PICK f : Sums(n, a, f) /\ Total(a) = f[n]
    BY TotalIsLastSum
  <1>3. PICK g : Sums(n, b, g) /\ Total(b) = g[n]
    BY TotalIsLastSum
  <1>4. PICK h : Sums(m, c, h) /\ Total(c) = h[m]
    BY <1>1, TotalIsLastSum
  <1>5. /\ f[0] = 0 /\ \A k \in 1..n : f[k] = f[k - 1] + a[k]
        /\ g[0] = 0 /\ \A k \in 1..n : g[k] = g[k - 1] + b[k]
        /\ h[0] = 0 /\ \A k \in 1..m : h[k] = h[k - 1] + c[k]
    BY <1>2, <1>3, <1>4 DEF Sums
  <1> DEFINE Good(k) == f[k] \in Int /\ g[k] \in Int /\ h[k] = f[k] + g[k]
             Bad == {k \in 0..n : ~ Good(k)}
  <1>6. ASSUME NEW k \in Bad PROVE k # 0 /\ k - 1 \in Bad
    <2>1. k # 0
      BY <1>5
    <2>2. k - 1 \in 0..n /\ k \in 1..n /\ k \in 1..m
      BY <2>1
    <2>3. ASSUME Good(k - 1) PROVE Good(k)
      <3>1. a[k] \in Int /\ b[k] \in Int /\ c[k] = a[k] + b[k]
        BY <2>2
      <3>2. f[k] = f[k - 1] + a[k] /\ g[k] = g[k - 1] + b[k] /\ h[k] = h[k - 1] + c[k]
        BY <1>5, <2>2
      <3>3. PICK x \in Int, y \in Int : x = f[k - 1] /\ y = g[k - 1] /\ h[k - 1] = x + y
        BY <2>3
      <3>4. PICK u \in Int, v \in Int : u = a[k] /\ v = b[k] /\ c[k] = u + v
        BY <3>1
      <3>5. f[k] = x + u /\ g[k] = y + v /\ h[k] = (x + y) + (u + v)
        BY <3>2, <3>3, <3>4
      <3>6. x + u \in Int /\ y + v \in Int /\ (x + y) + (u + v) = (x + u) + (y + v)
        OBVIOUS
      <3> QED BY <3>5, <3>6, Zenon
    <2> QED BY <1>6, <2>1, <2>2, <2>3
  <1>7. Bad = {}
    <2>1. Bad \subseteq 0..n
      OBVIOUS
    <2> HIDE DEF Bad
    <2> QED BY <1>6, <2>1, NoLeast
  <1>8. Good(n)
    BY <1>7
  <1>9. h[m] = h[n]
    <2>1. CASE m = n
      BY <2>1
    <2>2. CASE m = n + 1
      <3>1. h[n + 1] = h[n] + 0
        <4>1. m \in 1..m /\ m - 1 = n
          BY <2>2
        <4>2. h[m] = h[m - 1] + c[m]
          BY <1>5, <4>1
        <4> QED BY <2>2, <4>1, <4>2
      <3>2. h[n] \in Int
        BY <1>8
      <3> QED BY <2>2, <3>1, <3>2
    <2> QED BY <2>1, <2>2
  <1> QED BY <1>2, <1>3, <1>4, <1>8, <1>9

\* What booking a bar leaves of a journal of n trades: an entry comes last.
BookedAs(n, bar, walks, entry) ==
    /\ \A t \in 1..n : journal'[t] = Journaled(walks)[t]
    /\ \A t \in Staying(walks) : t \in 1..n /\ open'[t] = walks[t].position
    /\ entry = None => DOMAIN journal' = 1..n /\ DOMAIN open' = Staying(walks)
    /\ entry # None => /\ DOMAIN journal' = 1..(n + 1) /\ DOMAIN open' = Staying(walks) \cup {n + 1}
                       /\ open'[n + 1] = entry /\ journal'[n + 1] = OpeningTrade(entry, bar)

LEMMA Booked ==
    ASSUME TradesInv, NEW bar \in Shapes, NEW walks, DOMAIN walks = DOMAIN open,
           \A t \in DOMAIN open : Walked(t, walks[t], bar),
           NEW entry, Book(bar, walks, entry), NEW n \in Nat, n = Len(journal)
    PROVE  BookedAs(n, bar, walks, entry)
  <1> DEFINE J == Journaled(walks)
             staying == Staying(walks)
             trade == OpeningTrade(entry, bar)
  <1>1. J \in Seq(Trades) /\ Len(J) = n /\ DOMAIN journal = 1..n
    BY JournaledSound DEF TradesInv
  <1>2. \A t \in staying : t \in 1..n
    BY <1>1 DEF Staying, TradesInv, Followed
  <1> HIDE DEF J, staying, trade
  <1>3. CASE entry = None
    <2>1. journal' = J /\ DOMAIN open' = staying /\ \A t \in staying : open'[t] = walks[t].position
      BY <1>3, BookCloses DEF J, staying
    <2> QED BY <1>1, <1>2, <1>3, <2>1 DEF BookedAs, J, staying
  <1>4. CASE entry # None
    <2>0. PICK new \in Nat : new = n + 1 /\ new = Len(journal) + 1
      OBVIOUS
    <2>1. open' = [t \in staying \cup {new} |-> IF t = new THEN entry ELSE walks[t].position]
      BY <1>4, <2>0 DEF Book, Staying, staying
    <2>2. journal' = Append(J, trade)
      BY <1>4 DEF Book, Journaled, OpeningTrade, J, trade
    <2>3. /\ DOMAIN journal' = 1..(n + 1) /\ journal'[n + 1] = trade
          /\ \A t \in 1..n : journal'[t] = J[t]
      <3> HIDE DEF J
      <3>1. Len(J) = n /\ J \in Seq(Trades)
        BY <1>1
      <3> QED BY <2>2, <3>1
    <2>4. DOMAIN open' = staying \cup {new} /\ open'[new] = entry
      BY <2>1
    <2>5. ASSUME NEW t \in staying PROVE t \in 1..n /\ open'[t] = walks[t].position
      <3>1. t \in 1..n /\ t # new
        BY <1>2, <2>0
      <3> QED BY <2>1, <3>1
    <2> QED BY <1>4, <2>0, <2>3, <2>4, <2>5 DEF BookedAs, J, staying, trade
  <1> QED BY <1>3, <1>4

\* What a trade has brought so far
Brought(t) == IF journal[t].pnl = None THEN open[t].realized ELSE journal[t].pnl

BalanceInv == balance \in Int /\ booked \in Int /\ BalanceIsBooked

LEMMA WalkMoney ==
    ASSUME NEW stop \in Int, NEW w, AboveStop(w.position, stop), w.exit \in Level, w.exit # None => stop <= w.exit
    PROVE  LastLeg(w) \in Int /\ w.position.realized \in Int /\ (w.exit = None => LastLeg(w) = 0)
  <1>1. w.position \in Positions
    BY DEF AboveStop
  <1>2. w.position.realized \in Int /\ w.position.entry \in Int /\ w.position.volume \in Nat
    BY <1>1 DEF Positions
  <1>3. CASE w.exit = None
    BY <1>2, <1>3 DEF LastLeg
  <1>4. CASE w.exit # None
    <2>1. w.exit \in Int
      BY <1>4 DEF Level
    <2>2. (w.exit - w.position.entry) * w.position.volume * Contract \in Int
      BY <1>2, <1>4, <2>1, LegFits
    <2> QED BY <1>2, <1>4, <2>2 DEF LastLeg
  <1> QED BY <1>3, <1>4

\* Booking a bar pays the accounts what the trades have brought since.
LEMMA BookBalances ==
    ASSUME TradesInv, BalanceInv, NEW bar \in Shapes, NEW walks, DOMAIN walks = DOMAIN open,
           \A t \in DOMAIN open : Walked(t, walks[t], bar),
           NEW entry, Book(bar, walks, entry), entry # None => entry.realized = 0
    PROVE  BalanceInv'
  <1> DEFINE J == Journaled(walks)
             staying == Staying(walks)
             before == [t \in DOMAIN journal |-> Brought(t)]
             gains == [t \in DOMAIN journal |-> IF t \in DOMAIN walks THEN Gain(t, walks[t]) ELSE 0]
  <1>0. PICK n \in Nat : n = Len(journal) /\ DOMAIN journal = 1..n
    BY DEF TradesInv
  <1>1. /\ \A t \in 1..n : journal'[t] = J[t]
        /\ \A t \in staying : t \in 1..n /\ open'[t] = walks[t].position
        /\ entry = None => DOMAIN journal' = 1..n /\ DOMAIN open' = staying
        /\ entry # None => /\ DOMAIN journal' = 1..(n + 1) /\ DOMAIN open' = staying \cup {n + 1}
                           /\ open'[n + 1] = entry /\ journal'[n + 1] = OpeningTrade(entry, bar)
    <2>1. BookedAs(n, bar, walks, entry)
      BY <1>0, Booked
    <2> QED BY <2>1 DEF BookedAs
  <1>2. \A t \in 1..n :
            /\ t \notin DOMAIN walks \/ walks[t].exit = None => J[t] = journal[t]
            /\ t \in DOMAIN walks /\ walks[t].exit # None =>
                    J[t].pnl = walks[t].position.realized + LastLeg(walks[t]) /\ J[t].pnl # None
    BY <1>0, JournaledSound
  <1>3. \A t \in staying : t \in DOMAIN walks /\ walks[t].exit = None
    BY DEF Staying
  <1>4. \A t \in DOMAIN walks : walks[t].exit = None => t \in staying
    BY DEF Staying
  <1>5. DOMAIN open = {t \in 1..n : journal[t].pnl = None}
    BY <1>0 DEF BalanceInv, BalanceIsBooked
  <1>6. ASSUME NEW t \in 1..n
        PROVE  /\ before[t] = Brought(t) /\ before[t] \in Int
               /\ gains[t] = IF t \in DOMAIN walks THEN Gain(t, walks[t]) ELSE 0
               /\ gains[t] \in Int
               /\ journal'[t].pnl = None <=> t \in staying
               /\ Brought(t)' = before[t] + gains[t]
    <2> DEFINE w == walks[t]
    <2>1. before[t] = Brought(t) /\ gains[t] = IF t \in DOMAIN walks THEN Gain(t, w) ELSE 0
      BY <1>0
    <2> HIDE DEF J, staying, before, gains
    <2>2. CASE t \notin DOMAIN walks
      <3>1. journal'[t] = journal[t] /\ journal[t].pnl # None /\ t \notin staying
        BY <1>1, <1>2, <1>3, <1>5, <2>2
      <3>2. journal[t].pnl \in Int
        <4>1. journal[t] \in Trades
          BY <1>0 DEF TradesInv
        <4>2. journal[t].pnl \in Level
          BY <4>1 DEF Trades
        <4> QED BY <3>1, <4>2 DEF Level
      <3>3. Brought(t) = journal[t].pnl /\ Brought(t)' = journal[t].pnl /\ gains[t] = 0
        BY <2>1, <2>2, <3>1 DEF Brought
      <3> QED BY <2>1, <2>2, <3>1, <3>2, <3>3
    <2>3. CASE t \in DOMAIN walks
      <3>1. journal[t].pnl = None /\ Walked(t, w, bar) /\ AboveStop(open[t], journal[t].sl)
        BY <1>5, <2>3 DEF TradesInv, Followed
      <3>2. journal[t].sl \in Int
        <4>1. journal[t] \in Trades
          BY <1>0 DEF TradesInv
        <4> QED BY <4>1 DEF Trades
      <3>3. LastLeg(w) \in Int /\ w.position.realized \in Int /\ (w.exit = None => LastLeg(w) = 0)
        BY <3>1, <3>2, WalkMoney DEF Walked
      <3>4. open[t].realized \in Int
        BY <3>1 DEF AboveStop, Positions
      <3>5. /\ before[t] = open[t].realized
            /\ gains[t] = w.position.realized - open[t].realized + LastLeg(w)
        BY <2>1, <2>3, <3>1 DEF Brought, Gain
      <3>6. CASE w.exit = None
        <4>1. t \in staying /\ journal'[t] = journal[t] /\ open'[t] = w.position
          BY <1>1, <1>2, <1>4, <2>3, <3>6
        <4>2. Brought(t)' = w.position.realized
          BY <3>1, <4>1 DEF Brought
        <4> QED BY <2>1, <2>3, <3>1, <3>3, <3>4, <3>5, <3>6, <4>1, <4>2
      <3>7. CASE w.exit # None
        <4>1. /\ t \notin staying /\ journal'[t].pnl = w.position.realized + LastLeg(w) /\ journal'[t].pnl # None
          BY <1>1, <1>2, <1>3, <2>3, <3>7
        <4>2. Brought(t)' = w.position.realized + LastLeg(w)
          BY <4>1 DEF Brought
        <4> QED BY <2>1, <2>3, <3>3, <3>4, <3>5, <4>1, <4>2
      <3> QED BY <3>6, <3>7
    <2> QED BY <2>2, <2>3
  <1>7. before \in [1..n -> Int] /\ gains \in [1..n -> Int]
    <2>1. before = [t \in 1..n |-> before[t]] /\ gains = [t \in 1..n |-> gains[t]]
      BY <1>0
    <2> HIDE DEF before, gains
    <2> QED BY <1>6, <2>1
  <1>8. booked = Total(before) /\ booked = balance - Initial
    BY DEF BalanceInv, BalanceIsBooked, Brought
  <1>9. balance' = balance + Total(gains) /\ booked' = booked + Total(gains)
    BY DEF Book
  <1> DEFINE after == [t \in DOMAIN journal' |-> Brought(t)']
  <1>10. PICK m \in {n, n + 1} :
            /\ DOMAIN journal' = 1..m /\ (m = n + 1 <=> entry # None)
            /\ DOMAIN open' = IF entry = None THEN staying ELSE staying \cup {n + 1}
    <2> HIDE DEF staying
    <2>1. CASE entry = None
      BY <1>1, <2>1
    <2>2. CASE entry # None
      BY <1>1, <2>2
    <2> QED BY <2>1, <2>2
  <1> HIDE DEF before, gains, J, staying
  <1>11. m = n + 1 => journal'[m].pnl = None /\ Brought(m)' = 0
    <2> SUFFICES ASSUME m = n + 1 PROVE journal'[m].pnl = None /\ Brought(m)' = 0
      OBVIOUS
    <2>1. open'[m] = entry /\ journal'[m] = OpeningTrade(entry, bar) /\ entry # None
      BY <1>1, <1>10
    <2>2. journal'[m].pnl = None
      BY <2>1 DEF OpeningTrade
    <2>3. Brought(m)' = entry.realized
      BY <2>1, <2>2 DEF Brought
    <2> QED BY <2>1, <2>2, <2>3
  <1>12. DOMAIN open' = {t \in DOMAIN journal' : journal'[t].pnl = None}
    <2>1. \A t \in staying : t \in 1..n
      BY <1>1
    <2>2. \A t \in 1..n : journal'[t].pnl = None <=> t \in staying
      BY <1>6
    <2>3. CASE m = n
      BY <1>10, <2>1, <2>2, <2>3
    <2>4. CASE m = n + 1
      <3>1. 1..m = 1..n \cup {m}
        BY <2>4
      <3> QED BY <1>10, <1>11, <2>1, <2>2, <2>4, <3>1
    <2> QED BY <2>3, <2>4
  <1>13. after \in [1..m -> Int] /\ (\A t \in 1..n : after[t] = before[t] + gains[t]) /\ (m = n + 1 => after[m] = 0)
    <2>1. after = [t \in 1..m |-> after[t]] /\ \A t \in 1..m : after[t] = Brought(t)'
      BY <1>10
    <2> HIDE DEF after
    <2>2. \A t \in 1..n : t \in 1..m /\ before[t] \in Int /\ gains[t] \in Int /\ Brought(t)' = before[t] + gains[t]
      BY <1>6
    <2>3. \A t \in 1..n : after[t] = before[t] + gains[t] /\ after[t] \in Int
      BY <2>1, <2>2
    <2>4. m = n + 1 => after[m] = 0
      BY <1>11, <2>1
    <2>5. \A t \in 1..m : t \in 1..n \/ (t = m /\ m = n + 1)
      OBVIOUS
    <2>6. \A t \in 1..m : after[t] \in Int
      BY <2>3, <2>4, <2>5
    <2> QED BY <2>1, <2>3, <2>4, <2>6
  <1> HIDE DEF after
  <1>14. Total(after) = Total(before) + Total(gains) /\ Total(before) \in Int /\ Total(gains) \in Int
    BY <1>7, <1>13, TotalAdds, ZenonT(40)
  <1>15. booked' = Total(after) /\ booked' = balance' - Initial /\ booked' \in Int /\ balance' \in Int
    <2>1. balance \in Int /\ Initial \in Int
      BY BacktestAssumption DEF BalanceInv, BacktestAssumption
    <2>2. PICK x \in Int, y \in Int : x = Total(before) /\ y = Total(gains)
      BY <1>14
    <2>3. booked = x /\ booked = balance - Initial /\ Total(after) = x + y
      BY <1>8, <1>14, <2>2
    <2>4. balance' = balance + y /\ booked' = x + y
      BY <1>9, <2>2, <2>3
    <2>5. balance' \in Int /\ booked' \in Int
      BY <2>1, <2>4
    <2>6. booked' = Total(after)
      BY <2>3, <2>4
    <2>7. booked' = balance' - Initial
      <3>1. (balance + y) - Initial = (balance - Initial) + y
        BY <2>1
      <3>2. balance' - Initial = (balance + y) - Initial /\ booked' = (balance - Initial) + y
        BY <2>3, <2>4
      <3> QED BY <3>1, <3>2
    <2> QED BY <2>5, <2>6, <2>7
  <1>16. BalanceIsBooked'
    BY <1>12, <1>15 DEF BalanceIsBooked, Brought, after
  <1> QED BY <1>15, <1>16 DEF BalanceInv

LEMMA BalanceInvHolds == BacktestSpec => []BalanceInv
  <1>1. BacktestInit => BalanceInv
    <2> SUFFICES ASSUME BacktestInit PROVE BalanceInv
      OBVIOUS
    <2>1. open = << >> /\ journal = << >> /\ balance = Initial /\ booked = 0 /\ Initial \in Int
      BY BacktestAssumption DEF BacktestInit, BacktestAssumption
    <2> DEFINE brought == [t \in DOMAIN journal |-> Brought(t)]
    <2>2. PICK n \in Nat : n = 0
      OBVIOUS
    <2>3. brought \in [1..n -> Int]
      BY <2>1, <2>2
    <2> HIDE DEF brought
    <2>4. Total(brought) = 0
      <3>1. PICK g : Sums(n, brought, g) /\ Total(brought) = g[n]
        BY <2>3, TotalIsLastSum
      <3> QED BY <2>2, <3>1 DEF Sums
    <2> QED BY <2>1, <2>4 DEF BalanceInv, BalanceIsBooked, Brought, brought
  <1>2. BalanceInv /\ TradesInv /\ [BacktestNext]_backtestVars => BalanceInv'
    <2> SUFFICES ASSUME BalanceInv, TradesInv, [BacktestNext]_backtestVars PROVE BalanceInv'
      OBVIOUS
    <2>1. ASSUME NEW bar \in Shapes, NEW signal \in Sides \cup {None}, RunBar(bar, signal) PROVE BalanceInv'
      <3>1. PICK walks, entry : BooksBar(bar, walks, entry)
        BY <2>1, RunBarBooks
      <3>2. entry # None => entry.realized = 0
        BY <3>1 DEF BooksBar, Fresh
      <3> QED BY <3>1, <3>2, BookBalances DEF BooksBar
    <2>2. CASE Finish
      <3>1. PICK bar, walks : BooksLast(bar, walks)
        BY <2>2, FinishBooks
      <3> QED BY <3>1, BookBalances DEF BooksLast
    <2>3. CASE UNCHANGED backtestVars
      BY <2>3 DEF backtestVars, BalanceInv, BalanceIsBooked
    <2> QED BY <2>1, <2>2, <2>3 DEF BacktestNext
  <1> QED BY <1>1, <1>2, TradesInvHolds, PTL DEF BacktestSpec

\* After any bars, the paper account and the risk manager have booked exactly
\* what the journal says of the closed trades and what the open ones have
\* realised at their targets; the open positions are the trades without a
\* result. No partial close is paid twice, lost, or paid to one of the two only
\* (engine.py: _walk_open_positions, _close_position, _partial_close).
THEOREM BacktestBalanceIsBooked == BacktestSpec => []BalanceIsBooked
  <1>1. BalanceInv => BalanceIsBooked
    BY DEF BalanceInv
  <1> QED BY <1>1, BalanceInvHolds, PTL

-----------------------------------------------------------------------------
\* The backtest: the replay of its tape

\* The entry of the tape and the position it was written for
Agrees(e, p) ==
    /\ e.side = p.side /\ e.price = p.entry /\ e.volume = p.initial
    /\ e.tp1 = p.tp1 /\ e.tp2 = p.tp2 /\ e.tp3 = p.tp3
    /\ p.dist = IF e.price = e.sl THEN 1 ELSE Distance(e.price, e.sl)
\* The local state of replay_entry that holds what a position does
Mirrored(p, exit) ==
    [sl |-> p.sl, volume |-> p.volume, realized |-> p.realized, peak |-> p.peak,
     tp1 |-> p.tp1Taken, tp2 |-> p.tp2Taken, armed |-> p.armed, exit |-> exit]

LEMMA TakeMirrors ==
    ASSUME NEW p \in Positions, NEW e, Agrees(e, p), NEW percent, NEW price, NEW exit
    PROVE  ReplayTake(e, Mirrored(p, exit), percent, price) = Mirrored(PartialClose(p, percent, price), exit)
  <1> DEFINE part == (p.initial * percent) \div 100
             leg == (price - p.entry) * part * Contract
             s == Mirrored(p, exit)
             money == p.realized + leg
             rest == p.volume - part
             paidS == [s EXCEPT !.realized = money]
             paid == [p EXCEPT !.realized = money]
             q == [paid EXCEPT !.volume = rest]
  <1>1. s.realized = p.realized /\ s.volume = p.volume /\ e.volume = p.initial /\ e.price = p.entry
    BY DEF Mirrored, Agrees
  <1>2. CASE part < VolumeMin \/ part >= p.volume
    BY <1>1, <1>2 DEF ReplayTake, PartialClose
  <1>3. CASE ~ (part < VolumeMin \/ part >= p.volume)
    <2>1. PartialClose(p, percent, price) = q
      BY <1>3 DEF PartialClose
    <2>2. ReplayTake(e, s, percent, price) = [paidS EXCEPT !.volume = rest]
      BY <1>1, <1>3 DEF ReplayTake
    <2> HIDE DEF part, leg, money, rest
    <2>3. paid = [side |-> p.side, entry |-> p.entry, sl |-> p.sl, tp1 |-> p.tp1, tp2 |-> p.tp2, tp3 |-> p.tp3,
                  volume |-> p.volume, initial |-> p.initial, dist |-> p.dist, peak |-> p.peak,
                  tp1Taken |-> p.tp1Taken, tp2Taken |-> p.tp2Taken, armed |-> p.armed, realized |-> money]
      BY DEF Positions
    <2>4. paidS = [sl |-> p.sl, volume |-> p.volume, realized |-> money, peak |-> p.peak, tp1 |-> p.tp1Taken,
                   tp2 |-> p.tp2Taken, armed |-> p.armed, exit |-> exit]
      BY DEF Mirrored
    <2> HIDE DEF paid, paidS
    <2>5. /\ q.sl = p.sl /\ q.volume = rest /\ q.realized = money /\ q.peak = p.peak
          /\ q.tp1Taken = p.tp1Taken /\ q.tp2Taken = p.tp2Taken /\ q.armed = p.armed
      BY <2>3
    <2>6. [paidS EXCEPT !.volume = rest] =
            [sl |-> p.sl, volume |-> rest, realized |-> money, peak |-> p.peak, tp1 |-> p.tp1Taken,
             tp2 |-> p.tp2Taken, armed |-> p.armed, exit |-> exit]
      BY <2>4
    <2> HIDE DEF q
    <2> QED BY <2>1, <2>2, <2>5, <2>6 DEF Mirrored
  <1> QED BY <1>2, <1>3

\* The flags of a position and of the state that mirrors it
FirstFlags(p, yes) == [[p EXCEPT !.tp1Taken = yes] EXCEPT !.armed = yes]
FirstMarks(s, yes) == [[s EXCEPT !.tp1 = yes] EXCEPT !.armed = yes]
SecondFlag(p, yes) == [p EXCEPT !.tp2Taken = yes]
SecondMark(s, yes) == [s EXCEPT !.tp2 = yes]

LEMMA FlagsMirror ==
    ASSUME NEW p \in Positions, NEW yes, NEW exit
    PROVE  /\ FirstMarks(Mirrored(p, exit), yes) = Mirrored(FirstFlags(p, yes), exit)
           /\ SecondMark(Mirrored(p, exit), yes) = Mirrored(SecondFlag(p, yes), exit)
  <1> DEFINE s == Mirrored(p, exit)
             q == [p EXCEPT !.tp1Taken = yes]
             t == [s EXCEPT !.tp1 = yes]
             q1 == [q EXCEPT !.armed = yes]
             q2 == [p EXCEPT !.tp2Taken = yes]
  <1>1. q = [side |-> p.side, entry |-> p.entry, sl |-> p.sl, tp1 |-> p.tp1, tp2 |-> p.tp2, tp3 |-> p.tp3,
             volume |-> p.volume, initial |-> p.initial, dist |-> p.dist, peak |-> p.peak,
             tp1Taken |-> yes, tp2Taken |-> p.tp2Taken, armed |-> p.armed, realized |-> p.realized]
    BY DEF Positions
  <1>2. t = [sl |-> p.sl, volume |-> p.volume, realized |-> p.realized, peak |-> p.peak,
             tp1 |-> yes, tp2 |-> p.tp2Taken, armed |-> p.armed, exit |-> exit]
    BY DEF Mirrored
  <1>3. [s EXCEPT !.tp2 = yes] = [sl |-> p.sl, volume |-> p.volume, realized |-> p.realized, peak |-> p.peak,
                                  tp1 |-> p.tp1Taken, tp2 |-> yes, armed |-> p.armed, exit |-> exit]
    BY DEF Mirrored
  <1>4. /\ q2.sl = p.sl /\ q2.volume = p.volume /\ q2.realized = p.realized /\ q2.peak = p.peak
        /\ q2.tp1Taken = p.tp1Taken /\ q2.tp2Taken = yes /\ q2.armed = p.armed
    BY DEF Positions
  <1> HIDE DEF q, t
  <1>5. /\ q1.sl = p.sl /\ q1.volume = p.volume /\ q1.realized = p.realized /\ q1.peak = p.peak
        /\ q1.tp1Taken = yes /\ q1.tp2Taken = p.tp2Taken /\ q1.armed = yes
    BY <1>1
  <1>6. [t EXCEPT !.armed = yes] = [sl |-> p.sl, volume |-> p.volume, realized |-> p.realized, peak |-> p.peak,
                                    tp1 |-> yes, tp2 |-> p.tp2Taken, armed |-> yes, exit |-> exit]
    BY <1>2
  <1> HIDE DEF q1, q2, s
  <1>7. [t EXCEPT !.armed = yes] = Mirrored(q1, exit)
    BY <1>5, <1>6 DEF Mirrored
  <1>8. [s EXCEPT !.tp2 = yes] = Mirrored(q2, exit)
    BY <1>3, <1>4 DEF Mirrored
  <1> QED BY <1>7, <1>8 DEF q, t, q1, q2, s, FirstFlags, FirstMarks, SecondFlag, SecondMark

LEMMA TakeFirstMirrors ==
    ASSUME NEW p, NEW stop \in Int, AboveStop(p, stop), NEW e, Agrees(e, p), NEW bar
    PROVE  LET s == Mirrored(p, None)
           IN  Mirrored(TakeFirst(p, bar), None) =
                 IF ~s.tp1 /\ Best(e.side, bar) >= e.tp1
                 THEN [ReplayTake(e, s, Exit.tp1, e.tp1) EXCEPT !.tp1 = TRUE, !.armed = TRUE] ELSE s
  <1> DEFINE s == Mirrored(p, None)
             part == PartialClose(p, Exit.tp1, p.tp1)
             taken == [part EXCEPT !.tp1Taken = TRUE]
             q == [taken EXCEPT !.armed = TRUE]
             partS == ReplayTake(e, s, Exit.tp1, e.tp1)
             takenS == [partS EXCEPT !.tp1 = TRUE]
             r == [takenS EXCEPT !.armed = TRUE]
  <1>1. p \in Positions /\ p.tp1 \in Int /\ stop <= p.tp1 /\ Exit.tp1 \in Nat
    BY BacktestAssumption DEF AboveStop, Positions, BacktestAssumption
  <1>2. part \in Positions
    BY <1>1, PartialCloseAbove DEF AboveStop
  <1>3. partS = Mirrored(part, None)
    BY <1>1, TakeMirrors DEF Agrees
  <1>4. TakeFirst(p, bar) = IF ~p.tp1Taken /\ Best(p.side, bar) >= p.tp1 THEN q ELSE p
    BY DEF TakeFirst
  <1>5. /\ s.tp1 = p.tp1Taken /\ e.side = p.side /\ e.tp1 = p.tp1
    BY DEF Mirrored, Agrees
  <1> HIDE DEF part, partS
  <1>6. r = Mirrored(q, None)
    <2>1. FirstMarks(partS, TRUE) = Mirrored(FirstFlags(part, TRUE), None)
      BY <1>2, <1>3, FlagsMirror
    <2> QED BY <2>1 DEF FirstMarks, FirstFlags
  <1>7. [partS EXCEPT !.tp1 = TRUE, !.armed = TRUE] = r
    OBVIOUS
  <1> HIDE DEF q, r, s
  <1>8. CASE ~p.tp1Taken /\ Best(p.side, bar) >= p.tp1
    <2>1. TakeFirst(p, bar) = q /\ (~s.tp1 /\ Best(e.side, bar) >= e.tp1)
      BY <1>4, <1>5, <1>8
    <2> QED BY <1>6, <1>7, <2>1 DEF partS, s
  <1>9. CASE ~(~p.tp1Taken /\ Best(p.side, bar) >= p.tp1)
    <2>1. TakeFirst(p, bar) = p /\ ~(~s.tp1 /\ Best(e.side, bar) >= e.tp1)
      BY <1>4, <1>5, <1>9
    <2> QED BY <2>1 DEF s
  <1> QED BY <1>8, <1>9

LEMMA TakeSecondMirrors ==
    ASSUME NEW p, NEW stop \in Int, AboveStop(p, stop), NEW e, Agrees(e, p), NEW bar
    PROVE  LET s == Mirrored(p, None)
           IN  Mirrored(TakeSecond(p, bar), None) =
                 IF ~s.tp2 /\ Best(e.side, bar) >= e.tp2
                 THEN [ReplayTake(e, s, Exit.tp2, e.tp2) EXCEPT !.tp2 = TRUE] ELSE s
  <1> DEFINE s == Mirrored(p, None)
             part == PartialClose(p, Exit.tp2, p.tp2)
             q == [part EXCEPT !.tp2Taken = TRUE]
             partS == ReplayTake(e, s, Exit.tp2, e.tp2)
             r == [partS EXCEPT !.tp2 = TRUE]
  <1>1. p \in Positions /\ p.tp2 \in Int /\ stop <= p.tp2 /\ Exit.tp2 \in Nat
    BY BacktestAssumption DEF AboveStop, Positions, BacktestAssumption
  <1>2. part \in Positions
    BY <1>1, PartialCloseAbove DEF AboveStop
  <1>3. partS = Mirrored(part, None)
    BY <1>1, TakeMirrors DEF Agrees
  <1>4. TakeSecond(p, bar) = IF ~p.tp2Taken /\ Best(p.side, bar) >= p.tp2 THEN q ELSE p
    BY DEF TakeSecond
  <1>5. /\ s.tp2 = p.tp2Taken /\ e.side = p.side /\ e.tp2 = p.tp2
    BY DEF Mirrored, Agrees
  <1> HIDE DEF part, partS
  <1>6. r = Mirrored(q, None)
    <2>1. SecondMark(partS, TRUE) = Mirrored(SecondFlag(part, TRUE), None)
      BY <1>2, <1>3, FlagsMirror
    <2> QED BY <2>1 DEF SecondMark, SecondFlag
  <1> HIDE DEF q, r, s
  <1>8. CASE ~p.tp2Taken /\ Best(p.side, bar) >= p.tp2
    <2>1. TakeSecond(p, bar) = q /\ (~s.tp2 /\ Best(e.side, bar) >= e.tp2)
      BY <1>4, <1>5, <1>8
    <2> QED BY <1>6, <2>1 DEF r, partS, s
  <1>9. CASE ~(~p.tp2Taken /\ Best(p.side, bar) >= p.tp2)
    <2>1. TakeSecond(p, bar) = p /\ ~(~s.tp2 /\ Best(e.side, bar) >= e.tp2)
      BY <1>4, <1>5, <1>9
    <2> QED BY <2>1 DEF s
  <1> QED BY <1>8, <1>9

\* What a bar that closes nothing does to the state of the replay
Retrailed(e, s, bar) ==
    LET best == Best(e.side, bar)
        peak == Max({s.peak, best})
        risk == IF e.price = e.sl THEN 1 ELSE Distance(e.price, e.sl)
        armed == s.armed \/ (Exit.activate > 0 /\ best - e.price >= Exit.activate * risk)
        floor == s.tp1 \/ (Exit.be > 0 /\ peak - e.price >= Exit.be * risk)
        swing == IF bar.swings[e.side] = None THEN None ELSE Signed(e.side, bar.swings[e.side])
    IN  [s EXCEPT !.peak = peak, !.armed = armed,
                  !.sl = IF armed THEN Trail(@, e.price, peak, swing, bar.atr, floor, Exit) ELSE @]

LEMMA RatchetMirrors ==
    ASSUME NEW p, NEW stop \in Int, AboveStop(p, stop), NEW e, Agrees(e, p), NEW bar \in Shapes
    PROVE  Retrailed(e, Mirrored(p, None), bar) = Mirrored(Ratchet(p, bar), None)
  <1> DEFINE s == Mirrored(p, None)
             best == Best(e.side, bar)
             peak == Max({s.peak, best})
             risk == IF e.price = e.sl THEN 1 ELSE Distance(e.price, e.sl)
             armed == s.armed \/ (Exit.activate > 0 /\ best - e.price >= Exit.activate * risk)
             floor == s.tp1 \/ (Exit.be > 0 /\ peak - e.price >= Exit.be * risk)
             swing == IF bar.swings[e.side] = None THEN None ELSE Signed(e.side, bar.swings[e.side])
             sl == IF armed THEN Trail(s.sl, e.price, peak, swing, bar.atr, floor, Exit) ELSE s.sl
             higher == [p EXCEPT !.peak = peak]
             ready == [higher EXCEPT !.armed = armed]
             higherS == [s EXCEPT !.peak = peak]
             readyS == [higherS EXCEPT !.armed = armed]
  <1>1. /\ p.side = e.side /\ p.entry = e.price /\ p.dist = risk
        /\ p.peak = s.peak /\ p.armed = s.armed /\ p.tp1Taken = s.tp1 /\ p.sl = s.sl
    BY DEF Agrees, Mirrored
  <1>2. Ratchet(p, bar) = [ready EXCEPT !.sl = sl]
    <2> HIDE DEF s, risk
    <2> QED BY <1>1 DEF Ratchet
  <1>3. [s EXCEPT !.peak = peak, !.armed = armed,
                  !.sl = IF armed THEN Trail(@, e.price, peak, swing, bar.atr, floor, Exit) ELSE @]
            = [readyS EXCEPT !.sl = sl]
    OBVIOUS
  <1> HIDE DEF peak, armed, floor, swing, sl
  <1>4. p \in Positions
    BY DEF AboveStop
  <1>5. higher = [side |-> p.side, entry |-> p.entry, sl |-> p.sl, tp1 |-> p.tp1, tp2 |-> p.tp2, tp3 |-> p.tp3,
                  volume |-> p.volume, initial |-> p.initial, dist |-> p.dist, peak |-> peak,
                  tp1Taken |-> p.tp1Taken, tp2Taken |-> p.tp2Taken, armed |-> p.armed, realized |-> p.realized]
    BY <1>4 DEF Positions
  <1>6. higherS = [sl |-> p.sl, volume |-> p.volume, realized |-> p.realized, peak |-> peak, tp1 |-> p.tp1Taken,
                   tp2 |-> p.tp2Taken, armed |-> p.armed, exit |-> None]
    BY DEF Mirrored
  <1> HIDE DEF higher, higherS
  <1>7. ready = [side |-> p.side, entry |-> p.entry, sl |-> p.sl, tp1 |-> p.tp1, tp2 |-> p.tp2, tp3 |-> p.tp3,
                 volume |-> p.volume, initial |-> p.initial, dist |-> p.dist, peak |-> peak,
                 tp1Taken |-> p.tp1Taken, tp2Taken |-> p.tp2Taken, armed |-> armed, realized |-> p.realized]
    BY <1>5
  <1>8. readyS = [sl |-> p.sl, volume |-> p.volume, realized |-> p.realized, peak |-> peak, tp1 |-> p.tp1Taken,
                  tp2 |-> p.tp2Taken, armed |-> armed, exit |-> None]
    BY <1>6
  <1> HIDE DEF ready, readyS
  <1> DEFINE q == [ready EXCEPT !.sl = sl]
  <1>9. /\ q.sl = sl /\ q.volume = p.volume /\ q.realized = p.realized /\ q.peak = peak
        /\ q.tp1Taken = p.tp1Taken /\ q.tp2Taken = p.tp2Taken /\ q.armed = armed
    BY <1>7
  <1>10. [readyS EXCEPT !.sl = sl] =
            [sl |-> sl, volume |-> p.volume, realized |-> p.realized, peak |-> peak, tp1 |-> p.tp1Taken,
             tp2 |-> p.tp2Taken, armed |-> armed, exit |-> None]
    BY <1>8
  <1> HIDE DEF q
  <1>11. Mirrored(q, None) = [readyS EXCEPT !.sl = sl]
    BY <1>9, <1>10 DEF Mirrored
  <1> QED BY <1>2, <1>3, <1>11 DEF Retrailed, q, s, peak, armed, floor, swing, sl

LEMMA ExitMirrors ==
    ASSUME NEW p, NEW exit
    PROVE  [Mirrored(p, None) EXCEPT !.exit = exit] = Mirrored(p, exit)
  BY DEF Mirrored

LEMMA SameTradeAgrees == ASSUME NEW p, NEW q, NEW e, Agrees(e, p), SameTrade(p, q) PROVE Agrees(e, q)
  BY DEF Agrees, SameTrade

\* The replay of a bar does to its state what the engine does to the position.
LEMMA WalkMirrors ==
    ASSUME NEW p, NEW stop \in Int, AboveStop(p, stop), NEW e, Agrees(e, p), NEW bar \in Shapes
    PROVE  LET w == WalkPosition(p, bar)
           IN  ReplayBar(e, Mirrored(p, None), bar) = Mirrored(w.position, w.exit) /\ Agrees(e, w.position)
  <1> DEFINE s == Mirrored(p, None)
             best == Best(e.side, bar)
             close == Signed(e.side, bar.close)
             one == IF ~s.tp1 /\ best >= e.tp1
                    THEN [ReplayTake(e, s, Exit.tp1, e.tp1) EXCEPT !.tp1 = TRUE, !.armed = TRUE] ELSE s
             two == IF ~one.tp2 /\ best >= e.tp2
                    THEN [ReplayTake(e, one, Exit.tp2, e.tp2) EXCEPT !.tp2 = TRUE] ELSE one
             peak == Max({s.peak, best})
             risk == IF e.price = e.sl THEN 1 ELSE Distance(e.price, e.sl)
             armed == two.armed \/ (Exit.activate > 0 /\ best - e.price >= Exit.activate * risk)
             floor == two.tp1 \/ (Exit.be > 0 /\ peak - e.price >= Exit.be * risk)
             swing == IF bar.swings[e.side] = None THEN None ELSE Signed(e.side, bar.swings[e.side])
             moved == [two EXCEPT !.peak = peak, !.armed = armed,
                         !.sl = IF armed THEN Trail(@, e.price, peak, swing, bar.atr, floor, Exit) ELSE @]
             q1 == TakeFirst(p, bar)
             q == TakeSecond(q1, bar)
             r == Ratchet(q, bar)
             w == WalkPosition(p, bar)
  <1>1. AboveStop(q1, stop) /\ SameTrade(p, q1) /\ q1.peak = p.peak /\ Agrees(e, q1)
    <2>1. AboveStop(q1, stop) /\ SameTrade(p, q1) /\ q1.peak = p.peak
      BY TakeFirstAbove
    <2> HIDE DEF q1
    <2> QED BY <2>1, SameTradeAgrees
  <1>2. AboveStop(q, stop) /\ SameTrade(p, q) /\ q.peak = p.peak /\ Agrees(e, q)
    <2> HIDE DEF q1
    <2>1. AboveStop(q, stop) /\ SameTrade(q1, q) /\ q.peak = q1.peak
      BY <1>1, TakeSecondAbove
    <2>2. SameTrade(p, q)
      BY <1>1, <2>1 DEF SameTrade
    <2> HIDE DEF q
    <2> QED BY <1>1, <2>1, <2>2, SameTradeAgrees
  <1>3. SameTrade(p, r) /\ Agrees(e, r)
    <2> HIDE DEF q
    <2>1. SameTrade(q, r)
      BY <1>2, RatchetAbove
    <2>2. SameTrade(p, r)
      BY <1>2, <2>1 DEF SameTrade
    <2> HIDE DEF r
    <2> QED BY <2>2, SameTradeAgrees
  <1>4. one = Mirrored(q1, None)
    BY TakeFirstMirrors
  <1>5. two = Mirrored(q, None)
    <2> HIDE DEF one, q1
    <2> QED BY <1>1, <1>4, TakeSecondMirrors
  <1>6. s.peak = two.peak
    <2> HIDE DEF two, q
    <2> QED BY <1>2, <1>5 DEF Mirrored
  <1>7. moved = Mirrored(r, None)
    <2> HIDE DEF two, q, s
    <2>1. moved = Retrailed(e, two, bar)
      BY <1>6 DEF Retrailed
    <2> HIDE DEF moved
    <2> QED BY <1>2, <1>5, <2>1, RatchetMirrors
  <1>8. ReplayBar(e, s, bar) =
            IF s.exit # None THEN s
            ELSE IF Worst(e.side, bar) <= s.sl THEN [s EXCEPT !.exit = s.sl]
            ELSE IF bar.weekend THEN [s EXCEPT !.exit = close]
            ELSE IF best >= e.tp3 THEN [two EXCEPT !.exit = e.tp3]
            ELSE IF two.armed /\ ShouldCloseRunner(e.side, e.tp3, close, bar.event)
                 THEN [two EXCEPT !.exit = close]
            ELSE moved
    BY DEF ReplayBar
  <1>9. w = IF Worst(p.side, bar) <= p.sl THEN Leaves(p, p.sl)
            ELSE IF bar.weekend THEN Leaves(p, Signed(p.side, bar.close))
            ELSE IF Best(p.side, bar) >= p.tp3 THEN Leaves(q, p.tp3)
            ELSE IF q.armed /\ ShouldCloseRunner(p.side, p.tp3, Signed(p.side, bar.close), bar.event)
                 THEN Leaves(q, Signed(p.side, bar.close))
            ELSE Leaves(r, None)
    BY DEF WalkPosition
  <1>10. /\ s.exit = None /\ s.sl = p.sl /\ e.side = p.side /\ e.tp3 = p.tp3
    BY DEF Mirrored, Agrees
  <1>11. two.armed = q.armed
    <2> HIDE DEF two, q
    <2> QED BY <1>5 DEF Mirrored
  <1>12. /\ \A x : [s EXCEPT !.exit = x] = Mirrored(p, x)
         /\ \A x : [two EXCEPT !.exit = x] = Mirrored(q, x)
    <2> HIDE DEF two, q
    <2> QED BY <1>5, ExitMirrors
  <1> HIDE DEF s, one, two, moved, q1, q, r, w, close, best
  <1>13. Agrees(e, p)
    OBVIOUS
  <1>14. \A a, x : Leaves(a, x).position = a /\ Leaves(a, x).exit = x
    BY DEF Leaves
  <1>15. CASE Worst(p.side, bar) <= p.sl
    <2>1. ReplayBar(e, s, bar) = [s EXCEPT !.exit = p.sl] /\ w = Leaves(p, p.sl)
      BY <1>8, <1>9, <1>10, <1>15
    <2> QED BY <1>12, <1>13, <1>14, <2>1 DEF s, w
  <1>16. CASE ~(Worst(p.side, bar) <= p.sl)
    <2>1. CASE bar.weekend
      <3>1. ReplayBar(e, s, bar) = [s EXCEPT !.exit = close] /\ w = Leaves(p, close)
        BY <1>8, <1>9, <1>10, <1>16, <2>1 DEF close
      <3> QED BY <1>12, <1>13, <1>14, <3>1 DEF s, w
    <2>2. CASE ~bar.weekend /\ best >= e.tp3
      <3>1. ReplayBar(e, s, bar) = [two EXCEPT !.exit = e.tp3] /\ w = Leaves(q, e.tp3)
        BY <1>8, <1>9, <1>10, <1>16, <2>2 DEF best
      <3> QED BY <1>2, <1>12, <1>14, <3>1 DEF s, w
    <2>3. CASE ~bar.weekend /\ ~(best >= e.tp3)
      <3>1. CASE two.armed /\ ShouldCloseRunner(e.side, e.tp3, close, bar.event)
        <4>1. ReplayBar(e, s, bar) = [two EXCEPT !.exit = close] /\ w = Leaves(q, close)
          BY <1>8, <1>9, <1>10, <1>11, <1>16, <2>3, <3>1 DEF best, close
        <4> QED BY <1>2, <1>12, <1>14, <4>1 DEF s, w
      <3>2. CASE ~(two.armed /\ ShouldCloseRunner(e.side, e.tp3, close, bar.event))
        <4>1. ReplayBar(e, s, bar) = moved /\ w = Leaves(r, None)
          BY <1>8, <1>9, <1>10, <1>11, <1>16, <2>3, <3>2 DEF best, close
        <4> QED BY <1>3, <1>7, <1>14, <4>1 DEF s, w
      <3> QED BY <3>1, <3>2
    <2> QED BY <2>1, <2>2, <2>3
  <1> QED BY <1>15, <1>16

\* The states of the replay over n bars: g[k] is the one after the first k.
Steps(e, n, after, g) == g[0] = ReplayStart(e) /\ \A k \in 1..n : g[k] = ReplayBar(e, g[k - 1], after[k])

LEMMA ReplayStateIsLastStep ==
    ASSUME NEW e, NEW n \in Nat, NEW after, Len(after) = n
    PROVE  \E g : Steps(e, n, after, g) /\ ReplayState(e, after) = g[n]
  <1> DEFINE Upto(g, k) == g = [i \in 0..k |-> IF i = 0 THEN ReplayStart(e) ELSE ReplayBar(e, g[i - 1], after[i])]
             Bad == {k \in 0..n : ~ \E g : Upto(g, k)}
  <1>1. ASSUME NEW k \in Bad PROVE k # 0 /\ k - 1 \in Bad
    <2>1. k # 0
      <3> DEFINE g == [i \in 0..0 |-> ReplayStart(e)]
      <3>1. Upto(g, 0)
        OBVIOUS
      <3> HIDE DEF g
      <3> QED BY <1>1, <3>1
    <2>2. k - 1 \in 0..n
      BY <2>1
    <2>3. ASSUME NEW g, Upto(g, k - 1) PROVE FALSE
      <3> DEFINE h == [i \in 0..k |-> IF i = k THEN ReplayBar(e, g[k - 1], after[k]) ELSE g[i]]
      <3>1. ASSUME NEW i \in 0..k
            PROVE  h[i] = IF i = 0 THEN ReplayStart(e) ELSE ReplayBar(e, h[i - 1], after[i])
        <4>1. CASE i = k
          <5>1. h[k] = ReplayBar(e, g[k - 1], after[k]) /\ h[k - 1] = g[k - 1]
            BY <2>1
          <5> HIDE DEF h
          <5> QED BY <2>1, <4>1, <5>1
        <4>2. CASE i # k
          <5>1. i \in 0..(k - 1) /\ h[i] = g[i]
            BY <4>2
          <5>2. g[i] = IF i = 0 THEN ReplayStart(e) ELSE ReplayBar(e, g[i - 1], after[i])
            <6> HIDE DEF h
            <6> QED BY <2>3, <5>1
          <5>3. i # 0 => h[i - 1] = g[i - 1]
            BY <4>2
          <5> HIDE DEF h
          <5> QED BY <5>1, <5>2, <5>3
        <4> QED BY <4>1, <4>2
      <3>2. h = [i \in 0..k |-> h[i]]
        OBVIOUS
      <3> HIDE DEF h
      <3>3. Upto(h, k)
        BY <3>1, <3>2
      <3> QED BY <1>1, <3>3
    <2> QED BY <2>1, <2>2, <2>3
  <1>2. Bad = {}
    <2>1. Bad \subseteq 0..n
      OBVIOUS
    <2> HIDE DEF Bad
    <2> QED BY <1>1, <2>1, NoLeast
  <1>3. \E g : g = [i \in 0..n |-> IF i = 0 THEN ReplayStart(e) ELSE ReplayBar(e, g[i - 1], after[i])]
    <2>1. n \in 0..n
      OBVIOUS
    <2>2. \E g : Upto(g, n)
      <3> HIDE DEF Upto
      <3> QED BY <1>2, <2>1
    <2> QED BY <2>2
  <1> DEFINE s == CHOOSE g : g = [i \in 0..Len(after) |-> IF i = 0 THEN ReplayStart(e)
                                                          ELSE ReplayBar(e, g[i - 1], after[i])]
  <1>4. s = [i \in 0..n |-> IF i = 0 THEN ReplayStart(e) ELSE ReplayBar(e, s[i - 1], after[i])]
    BY <1>3
  <1>5. ReplayState(e, after) = s[Len(after)]
    BY DEF ReplayState
  <1> HIDE DEF s
  <1>6. \A k \in 0..n : s[k] = IF k = 0 THEN ReplayStart(e) ELSE ReplayBar(e, s[k - 1], after[k])
    BY <1>4
  <1>7. Steps(e, n, after, s)
    BY <1>6 DEF Steps
  <1> QED BY <1>5, <1>7

LEMMA ReplayOfNothing == ASSUME NEW e, NEW after, Len(after) = 0 PROVE ReplayState(e, after) = ReplayStart(e)
  <1>1. PICK n \in Nat : n = 0
    OBVIOUS
  <1>2. PICK g : Steps(e, n, after, g) /\ ReplayState(e, after) = g[n]
    BY <1>1, ReplayStateIsLastStep
  <1> QED BY <1>1, <1>2 DEF Steps

\* One bar more is one step more.
LEMMA ReplayOfOneMore ==
    ASSUME NEW e, NEW n \in Nat, NEW m \in Nat, m = n + 1, NEW before, Len(before) = n,
           NEW after, Len(after) = m, \A k \in 1..n : after[k] = before[k]
    PROVE  ReplayState(e, after) = ReplayBar(e, ReplayState(e, before), after[m])
  <1>1. PICK g : Steps(e, n, before, g) /\ ReplayState(e, before) = g[n]
    BY ReplayStateIsLastStep
  <1>2. PICK h : Steps(e, m, after, h) /\ ReplayState(e, after) = h[m]
    BY ReplayStateIsLastStep
  <1>3. /\ g[0] = ReplayStart(e) /\ \A k \in 1..n : g[k] = ReplayBar(e, g[k - 1], before[k])
        /\ h[0] = ReplayStart(e) /\ \A k \in 1..m : h[k] = ReplayBar(e, h[k - 1], after[k])
    BY <1>1, <1>2 DEF Steps
  <1> DEFINE Bad == {k \in 0..n : h[k] # g[k]}
  <1>4. ASSUME NEW k \in Bad PROVE k # 0 /\ k - 1 \in Bad
    <2>1. k # 0
      BY <1>3
    <2>2. k - 1 \in 0..n /\ k \in 1..n /\ k \in 1..m
      BY <2>1
    <2>3. h[k] = ReplayBar(e, h[k - 1], after[k]) /\ g[k] = ReplayBar(e, g[k - 1], before[k])
      BY <1>3, <2>2
    <2>4. after[k] = before[k]
      BY <2>2
    <2> QED BY <1>4, <2>1, <2>2, <2>3, <2>4
  <1>5. Bad = {}
    <2>1. Bad \subseteq 0..n
      OBVIOUS
    <2> HIDE DEF Bad
    <2> QED BY <1>4, <2>1, NoLeast
  <1>6. h[n] = g[n]
    BY <1>5
  <1>7. m \in 1..m /\ m - 1 = n
    OBVIOUS
  <1>8. h[m] = ReplayBar(e, h[m - 1], after[m])
    BY <1>3, <1>7
  <1> QED BY <1>1, <1>2, <1>6, <1>7, <1>8

\* The bars after an entry
After(e) == SubSeq(bars, e.bar + 1, Len(bars))

LEMMA SubSeqFrom ==
    ASSUME NEW s \in Seq(Shapes), NEW n \in Nat, n = Len(s), NEW from \in 1..(n + 1)
    PROVE  LET t == SubSeq(s, from, n)
           IN  t \in Seq(Shapes) /\ Len(t) = n + 1 - from /\ \A k \in 1..(n + 1 - from) : t[k] = s[from + k - 1]
  <1>1. \A i \in from..n : s[i] \in Shapes
    BY ElementTyped
  <1>2. /\ SubSeq(s, from, n) \in Seq(Shapes)
        /\ Len(SubSeq(s, from, n)) = IF from <= n THEN n - from + 1 ELSE 0
        /\ \A i \in 1..(n - from + 1) : SubSeq(s, from, n)[i] = s[from + i - 1]
    BY <1>1, SubSeqProperties
  <1>3. n - from + 1 = n + 1 - from /\ (~(from <= n) => n + 1 - from = 0)
    OBVIOUS
  <1> QED BY <1>2, <1>3

LEMMA AfterOneMore ==
    ASSUME bars \in Seq(Shapes), NEW bar \in Shapes, bars' = Append(bars, bar), NEW e, e.bar \in 1..Len(bars)
    PROVE  ReplayState(e, After(e)') = ReplayBar(e, ReplayState(e, After(e)), bar)
  <1> DEFINE nb == Len(bars)
             at == e.bar
             new == nb + 1
             from == at + 1
             n == nb - at
             m == n + 1
             before == SubSeq(bars, from, nb)
             after == SubSeq(bars', from, new)
  <1>1. /\ nb \in Nat /\ new \in Nat /\ n \in Nat /\ m \in Nat /\ from \in 1..(nb + 1) /\ from \in 1..(new + 1)
        /\ nb + 1 - from = n /\ new + 1 - from = m /\ from + m - 1 = new /\ m = n + 1 /\ 1 <= m
        /\ \A k \in 1..n : k \in 1..m /\ from + k - 1 \in 1..nb
    <2>1. nb \in Nat /\ at \in 1..nb
      OBVIOUS
    <2> HIDE DEF nb, at
    <2>2. at \in Int /\ 1 <= at /\ at <= nb
      BY <2>1
    <2> QED BY <2>1, <2>2
  <1>2. /\ bars' \in Seq(Shapes) /\ new = Len(bars') /\ nb = Len(bars)
        /\ bars'[new] = bar /\ \A i \in 1..nb : bars'[i] = bars[i]
    OBVIOUS
  <1>3. After(e) = before /\ After(e)' = after
    BY <1>2 DEF After
  <1> HIDE DEF nb, at, new, from, n, m
  <1>4. Len(before) = n /\ \A k \in 1..n : before[k] = bars[from + k - 1]
    <2>1. Len(before) = nb + 1 - from /\ \A k \in 1..(nb + 1 - from) : before[k] = bars[from + k - 1]
      BY <1>1, <1>2, SubSeqFrom, SMTT(30)
    <2> HIDE DEF before
    <2> QED BY <1>1, <2>1
  <1>5. Len(after) = m /\ \A k \in 1..m : after[k] = bars'[from + k - 1]
    <2>1. Len(after) = new + 1 - from /\ \A k \in 1..(new + 1 - from) : after[k] = bars'[from + k - 1]
      BY <1>1, <1>2, SubSeqFrom
    <2> HIDE DEF after
    <2> QED BY <1>1, <2>1
  <1> HIDE DEF before, after
  <1>7. \A k \in 1..n : after[k] = before[k]
    BY <1>1, <1>2, <1>4, <1>5
  <1>8. after[m] = bar
    <2>1. m \in 1..m
      BY <1>1
    <2> QED BY <1>1, <1>2, <1>5, <2>1
  <1>9. ReplayState(e, after) = ReplayBar(e, ReplayState(e, before), after[m])
    BY <1>1, <1>4, <1>5, <1>7, ReplayOfOneMore
  <1> QED BY <1>3, <1>8, <1>9

TapeEntries ==
    [trade : Nat, side : Sides, price : Int, sl : Int, tp1 : Int, tp2 : Int, tp3 : Int, volume : Nat,
     risk : Nat, bar : Nat]

\* The replay is where the position of the entry is, and where it was when the
\* position was closed.
Retraced(e) ==
    /\ e.trade \in DOMAIN journal /\ e.bar \in 1..Len(bars)
    /\ journal[e.trade].pnl = None =>
            /\ phase = "run" /\ e.trade \in DOMAIN open
            /\ Agrees(e, open[e.trade]) /\ ReplayState(e, After(e)) = Mirrored(open[e.trade], None)
    /\ journal[e.trade].pnl # None =>
            /\ journal[e.trade].pnl = ReplayResult(e, ReplayState(e, After(e)), Last(bars))
            /\ phase = "run" => ReplayState(e, After(e)).exit # None

OnTape(e) == \E k \in DOMAIN entries : entries[k] = e
ReplayInv == entries \in Seq(TapeEntries) /\ \A e \in TapeEntries : OnTape(e) => Retraced(e)

LEMMA RetracedBar ==
    ASSUME TradesInv, NEW bar \in Shapes, NEW walks, NEW entry, BooksBar(bar, walks, entry),
           phase = "run", phase' = "run", NEW e, Retraced(e)
    PROVE  Retraced(e)'
  <1> DEFINE t == e.trade
             s == ReplayState(e, After(e))
             r == ReplayState(e, After(e)')
             J == Journaled(walks)
             staying == Staying(walks)
             w == walks[t]
  <1>0. PICK n \in Nat : n = Len(journal) /\ DOMAIN journal = 1..n
    BY DEF TradesInv
  <1>1. t \in 1..n /\ e.bar \in 1..Len(bars)
    BY <1>0 DEF Retraced
  <1>2. /\ DOMAIN walks = DOMAIN open /\ Book(bar, walks, entry) /\ bars' = Append(bars, bar)
        /\ \A x \in DOMAIN open : walks[x] = WalkPosition(open[x], bar)
        /\ \A x \in DOMAIN open : Walked(x, walks[x], bar)
    BY DEF BooksBar
  <1>3. bars \in Seq(Shapes)
    BY DEF TradesInv
  <1>4. r = ReplayBar(e, s, bar)
    BY <1>1, <1>2, <1>3, AfterOneMore
  <1>5. e.bar \in 1..Len(bars')
    BY <1>1, <1>2, <1>3
  <1>6. BookedAs(n, bar, walks, entry)
    BY <1>0, <1>2, Booked
  <1>7. /\ journal'[t] = J[t] /\ t \in DOMAIN journal'
        /\ \A x \in staying : open'[x] = walks[x].position /\ x \in DOMAIN open'
    BY <1>0, <1>1, <1>6 DEF BookedAs
  <1>8. /\ t \notin DOMAIN walks \/ w.exit = None => J[t] = journal[t]
        /\ t \in DOMAIN walks /\ w.exit # None => J[t].pnl = w.position.realized + LastLeg(w) /\ J[t].pnl # None
    BY <1>0, <1>1, <1>2, JournaledSound
  <1>9. t \in DOMAIN walks /\ w.exit = None => t \in staying
    BY DEF Staying
  <1> DEFINE After2 == After(e)'
             last == Last(bars')
  <1>10. SUFFICES /\ journal'[t].pnl = None =>
                        t \in DOMAIN open' /\ Agrees(e, open'[t]) /\ r = Mirrored(open'[t], None)
                  /\ journal'[t].pnl # None => journal'[t].pnl = ReplayResult(e, r, last) /\ r.exit # None
    BY <1>5, <1>7 DEF Retraced
  <1> HIDE DEF r, s, J, staying, last
  <1>11. CASE t \notin DOMAIN walks
    <2>1. journal[t].pnl # None
      BY <1>2, <1>11 DEF Retraced
    <2>2. journal[t].pnl = ReplayResult(e, s, Last(bars)) /\ s.exit # None
      BY <2>1 DEF Retraced, s
    <2>3. journal'[t] = journal[t]
      BY <1>7, <1>8, <1>11
    <2>4. r = s
      BY <1>4, <2>2 DEF ReplayBar
    <2>5. ReplayResult(e, s, Last(bars)) = ReplayResult(e, s, last)
      BY <2>2 DEF ReplayResult
    <2> QED BY <2>1, <2>2, <2>3, <2>4, <2>5
  <1>12. CASE t \in DOMAIN walks
    <2>1. Followed(t) /\ w = WalkPosition(open[t], bar)
      BY <1>2, <1>12 DEF TradesInv
    <2>2. journal[t].pnl = None /\ AboveStop(open[t], journal[t].sl)
      BY <2>1 DEF Followed
    <2>3. journal[t].sl \in Int
      <3>1. journal[t] \in Trades
        BY <1>0, <1>1 DEF TradesInv
      <3> QED BY <3>1 DEF Trades
    <2>4. Agrees(e, open[t]) /\ s = Mirrored(open[t], None)
      BY <2>2 DEF Retraced, s
    <2>5. r = Mirrored(w.position, w.exit) /\ Agrees(e, w.position)
      BY <1>4, <2>1, <2>2, <2>3, <2>4, WalkMirrors
    <2>6. CASE w.exit = None
      <3>1. journal'[t].pnl = None /\ t \in DOMAIN open' /\ open'[t] = w.position
        BY <1>7, <1>8, <1>9, <1>12, <2>2, <2>6
      <3> QED BY <2>5, <2>6, <3>1
    <2>7. CASE w.exit # None
      <3>1. journal'[t].pnl = w.position.realized + LastLeg(w) /\ journal'[t].pnl # None
        BY <1>7, <1>8, <1>12, <2>7
      <3>2. /\ r.exit = w.exit /\ r.realized = w.position.realized /\ r.volume = w.position.volume
            /\ e.price = w.position.entry
        BY <2>5 DEF Mirrored, Agrees
      <3>3. LastLeg(w) = (w.exit - w.position.entry) * w.position.volume * Contract
        BY <2>7 DEF LastLeg
      <3>4. ReplayResult(e, r, last) = r.realized + (r.exit - e.price) * r.volume * Contract
        BY <2>7, <3>2 DEF ReplayResult
      <3> QED BY <2>7, <3>1, <3>2, <3>3, <3>4
    <2> QED BY <2>6, <2>7
  <1> QED BY <1>11, <1>12

LEMMA RetracedLast ==
    ASSUME TradesInv, NEW bar, NEW walks, BooksLast(bar, walks), phase' = "done", NEW e, Retraced(e)
    PROVE  Retraced(e)'
  <1> DEFINE t == e.trade
             s == ReplayState(e, After(e))
             J == Journaled(walks)
             w == walks[t]
             last == Last(bars)
  <1>0. PICK n \in Nat : n = Len(journal) /\ DOMAIN journal = 1..n
    BY DEF TradesInv
  <1>1. t \in 1..n /\ e.bar \in 1..Len(bars)
    BY <1>0 DEF Retraced
  <1>2. /\ DOMAIN walks = DOMAIN open /\ Book(bar, walks, None) /\ bars' = bars /\ bar \in Shapes /\ bar = last
        /\ \A x \in DOMAIN open : walks[x] = Leaves(open[x], Signed(open[x].side, bar.close))
        /\ \A x \in DOMAIN open : Walked(x, walks[x], bar)
    BY DEF BooksLast
  <1>3. BookedAs(n, bar, walks, None)
    BY <1>0, <1>2, Booked
  <1>4. journal'[t] = J[t] /\ t \in DOMAIN journal'
    BY <1>0, <1>1, <1>3 DEF BookedAs
  <1>5. /\ t \notin DOMAIN walks \/ w.exit = None => J[t] = journal[t]
        /\ t \in DOMAIN walks /\ w.exit # None => J[t].pnl = w.position.realized + LastLeg(w) /\ J[t].pnl # None
    BY <1>0, <1>1, <1>2, JournaledSound
  <1>6. After(e)' = After(e)
    BY <1>2 DEF After
  <1>7. SUFFICES journal'[t].pnl # None /\ journal'[t].pnl = ReplayResult(e, s, last)
    BY <1>1, <1>2, <1>4, <1>6 DEF Retraced
  <1> HIDE DEF s, J
  <1>8. CASE t \notin DOMAIN walks
    <2>1. journal[t].pnl # None
      BY <1>2, <1>8 DEF Retraced
    <2>2. journal[t].pnl = ReplayResult(e, s, last)
      BY <2>1 DEF Retraced, s
    <2> QED BY <1>4, <1>5, <1>8, <2>1, <2>2
  <1>9. CASE t \in DOMAIN walks
    <2> DEFINE close == Signed(open[t].side, bar.close)
    <2>1. Followed(t) /\ w.position = open[t] /\ w.exit = close
      BY <1>2, <1>9 DEF TradesInv, Leaves
    <2>2. journal[t].pnl = None
      BY <2>1 DEF Followed
    <2>3. Agrees(e, open[t]) /\ s = Mirrored(open[t], None)
      BY <2>2 DEF Retraced, s
    <2>4. close \in Int /\ None \notin Int
      BY <1>2, WorstToBest, PlanAssumption DEF PlanAssumption
    <2>5. /\ s.exit = None /\ s.realized = open[t].realized /\ s.volume = open[t].volume
          /\ e.price = open[t].entry /\ e.side = open[t].side
      BY <2>3 DEF Mirrored, Agrees
    <2>6. ReplayResult(e, s, last) = open[t].realized + (close - open[t].entry) * open[t].volume * Contract
      BY <1>2, <2>5 DEF ReplayResult
    <2> HIDE DEF close
    <2>7. journal'[t].pnl = w.position.realized + LastLeg(w) /\ journal'[t].pnl # None
      BY <1>4, <1>5, <1>9, <2>1, <2>4
    <2>8. LastLeg(w) = (close - open[t].entry) * open[t].volume * Contract
      BY <2>1, <2>4 DEF LastLeg
    <2> QED BY <2>1, <2>6, <2>7, <2>8
  <1> QED BY <1>8, <1>9

\* The entry of the tape for the position opened as trade new by the bar at
TapeEntry(p, new, at) ==
    [trade |-> new, side |-> p.side, price |-> p.entry, sl |-> p.sl, tp1 |-> p.tp1, tp2 |-> p.tp2,
     tp3 |-> p.tp3, volume |-> p.initial, risk |-> Budget, bar |-> at]

LEMMA RetracedEntry ==
    ASSUME TradesInv, NEW bar \in Shapes, NEW walks, NEW entry, BooksBar(bar, walks, entry), entry # None,
           phase' = "run", NEW n \in Nat, n = Len(journal), NEW at \in Nat, at = Len(bars) + 1
    PROVE  LET e == TapeEntry(entry, n + 1, at) IN e \in TapeEntries /\ Retraced(e)'
  <1> DEFINE new == n + 1
             e == TapeEntry(entry, new, at)
  <1>1. /\ e.trade = new /\ e.side = entry.side /\ e.price = entry.entry /\ e.sl = entry.sl
        /\ e.tp1 = entry.tp1 /\ e.tp2 = entry.tp2 /\ e.tp3 = entry.tp3 /\ e.volume = entry.initial
        /\ e.bar = at
    BY DEF TapeEntry
  <1>2. /\ Enters(entry, bar) /\ Fresh(entry) /\ Book(bar, walks, entry) /\ bars' = Append(bars, bar)
        /\ DOMAIN walks = DOMAIN open /\ \A t \in DOMAIN open : Walked(t, walks[t], bar)
    BY DEF BooksBar
  <1>3. entry \in Positions
    BY <1>2 DEF Enters, AboveStop
  <1>4. Budget \in Nat
    BY BacktestAssumption DEF BacktestAssumption
  <1>5. e \in TapeEntries
    <2>1. new \in Nat
      OBVIOUS
    <2> HIDE DEF new
    <2> QED BY <1>3, <1>4, <2>1 DEF TapeEntry, TapeEntries, Positions
  <1>6. BookedAs(n, bar, walks, entry)
    BY <1>2, Booked
  <1>7. /\ DOMAIN journal' = 1..new /\ new \in DOMAIN open' /\ open'[new] = entry
        /\ journal'[new] = OpeningTrade(entry, bar)
    BY <1>6 DEF BookedAs
  <1>8. new \in DOMAIN journal' /\ journal'[new].pnl = None
    BY <1>7 DEF OpeningTrade
  <1>9. Len(bars') = at /\ bars' \in Seq(Shapes) /\ at \in 1..at
    BY <1>2 DEF TradesInv
  <1>10. ReplayState(e, After(e)') = ReplayStart(e)
    <2> DEFINE after == SubSeq(bars', at + 1, at)
    <2>1. After(e)' = after
      BY <1>1, <1>9 DEF After
    <2>2. at + 1 \in 1..(at + 1) /\ at + 1 - (at + 1) = 0
      OBVIOUS
    <2>3. Len(after) = at + 1 - (at + 1)
      BY <1>9, <2>2, SubSeqFrom
    <2> HIDE DEF after, e
    <2> QED BY <2>1, <2>2, <2>3, ReplayOfNothing
  <1> HIDE DEF e, new
  <1>11. Agrees(e, entry)
    BY <1>1, <1>2 DEF Agrees, Fresh
  <1>12. ReplayStart(e) = Mirrored(entry, None)
    <2>1. /\ e.sl = entry.sl /\ e.volume = entry.volume /\ entry.realized = 0 /\ e.price = entry.peak
          /\ entry.tp1Taken = FALSE /\ entry.tp2Taken = FALSE /\ entry.armed = FALSE
      BY <1>1, <1>2 DEF Fresh
    <2> QED BY <2>1 DEF ReplayStart, Mirrored
  <1>13. Retraced(e)'
    BY <1>1, <1>7, <1>8, <1>9, <1>10, <1>11, <1>12 DEF Retraced
  <1> QED BY <1>5, <1>13 DEF e, new

LEMMA BookEntries ==
    ASSUME NEW bar, NEW walks, NEW entry, Book(bar, walks, entry), NEW n \in Nat, n = Len(journal),
           NEW at \in Nat, at = Len(bars) + 1
    PROVE  /\ entry = None => entries' = entries
           /\ entry # None => entries' = Append(entries, TapeEntry(entry, n + 1, at))
  BY DEF Book, TapeEntry

LEMMA ReplayInvHolds == BacktestSpec => []ReplayInv
  <1>1. BacktestInit => ReplayInv
    BY DEF BacktestInit, ReplayInv, OnTape
  <1>2. ReplayInv /\ TradesInv /\ [BacktestNext]_backtestVars => ReplayInv'
    <2> SUFFICES ASSUME ReplayInv, TradesInv, [BacktestNext]_backtestVars PROVE ReplayInv'
      OBVIOUS
    <2>1. entries \in Seq(TapeEntries) /\ \A e \in TapeEntries : OnTape(e) => Retraced(e)
      BY DEF ReplayInv
    <2>2. PICK n \in Nat : n = Len(journal)
      BY DEF TradesInv
    <2>3. PICK at \in Nat : at = Len(bars) + 1
      BY DEF TradesInv
    <2>4. ASSUME NEW bar \in Shapes, NEW signal \in Sides \cup {None}, RunBar(bar, signal) PROVE ReplayInv'
      <3>1. PICK walks, entry : BooksBar(bar, walks, entry)
        BY <2>4, RunBarBooks
      <3>2. phase = "run" /\ phase' = "run"
        BY <2>4 DEF RunBar
      <3>3. ASSUME NEW e \in TapeEntries, OnTape(e) PROVE Retraced(e)'
        BY <2>1, <3>1, <3>2, <3>3, RetracedBar
      <3>4. Book(bar, walks, entry)
        BY <3>1 DEF BooksBar
      <3>5. CASE entry = None
        <4>1. entries' = entries
          BY <2>2, <2>3, <3>4, <3>5, BookEntries
        <4> QED BY <2>1, <3>3, <4>1 DEF ReplayInv, OnTape
      <3>6. CASE entry # None
        <4>1. PICK e : e = TapeEntry(entry, n + 1, at)
          OBVIOUS
        <4>2. entries' = Append(entries, e)
          BY <2>2, <2>3, <3>4, <3>6, <4>1, BookEntries
        <4>3. e \in TapeEntries /\ Retraced(e)'
          BY <2>2, <2>3, <3>1, <3>2, <3>6, <4>1, RetracedEntry
        <4>4. entries' \in Seq(TapeEntries)
          BY <2>1, <4>2, <4>3
        <4>5. ASSUME NEW x \in TapeEntries, OnTape(x)' PROVE x = e \/ OnTape(x)
          <5>1. PICK k \in DOMAIN entries' : entries'[k] = x
            BY <4>5 DEF OnTape
          <5>2. (k \in DOMAIN entries /\ entries[k] = x) \/ x = e
            BY <2>1, <4>2, <5>1
          <5> QED BY <5>2 DEF OnTape
        <4> QED BY <3>3, <4>3, <4>4, <4>5 DEF ReplayInv
      <3> QED BY <3>5, <3>6
    <2>5. CASE Finish
      <3>1. PICK bar, walks : BooksLast(bar, walks)
        BY <2>5, FinishBooks
      <3>2. phase' = "done"
        BY <2>5 DEF Finish
      <3>3. ASSUME NEW e \in TapeEntries, OnTape(e) PROVE Retraced(e)'
        BY <2>1, <3>1, <3>2, <3>3, RetracedLast
      <3>4. Book(bar, walks, None)
        BY <3>1 DEF BooksLast
      <3>5. entries' = entries
        BY <2>2, <2>3, <3>4, BookEntries
      <3> QED BY <2>1, <3>3, <3>5 DEF ReplayInv, OnTape
    <2>6. CASE UNCHANGED backtestVars
      BY <2>6 DEF backtestVars, ReplayInv, OnTape, Retraced, After
    <2> QED BY <2>4, <2>5, <2>6 DEF BacktestNext
  <1> QED BY <1>1, <1>2, TradesInvHolds, PTL DEF BacktestSpec

\* Replaying the recorded tape with the settings of the run gives every trade
\* the very result the engine has booked for it, whatever the bars, the entries,
\* the settings and the cost models: the two walks, written twice in the code,
\* never part (exit_replay.py: replay_entry; engine.py: _walk_open_positions).
THEOREM BacktestReplayMirrorsEngine == BacktestSpec => []ReplayMirrorsEngine
  <1>1. ReplayInv /\ TradesInv => ReplayMirrorsEngine
    <2> SUFFICES ASSUME ReplayInv, TradesInv, phase = "done", NEW k \in DOMAIN entries,
                        entries[k].bar < Len(bars)
                 PROVE  ReplayTape[k] = journal[entries[k].trade].pnl
      BY DEF ReplayMirrorsEngine
    <2> DEFINE e == entries[k]
               nb == Len(bars)
               at == e.bar
               tape == SubSeq(bars, at, nb)
    <2>1. entries \in Seq(TapeEntries) /\ bars \in Seq(Shapes)
      BY DEF ReplayInv, TradesInv
    <2>2. e \in TapeEntries /\ OnTape(e)
      BY <2>1, ElementTyped DEF OnTape
    <2>3. Retraced(e)
      BY <2>2 DEF ReplayInv
    <2>4. journal[e.trade].pnl = ReplayResult(e, ReplayState(e, After(e)), Last(bars))
      BY <2>3 DEF Retraced
    <2>5. nb \in Nat /\ at \in 1..nb /\ at < nb
      BY <2>1, <2>3 DEF Retraced
    <2>6. ReplayTape[k] = Replay(e, tape)
      BY DEF ReplayTape
    <2>7. After(e) = SubSeq(bars, at + 1, nb)
      BY DEF After
    <2> HIDE DEF e, at
    <2>8. nb = Len(bars)
      OBVIOUS
    <2> HIDE DEF nb
    <2>9. at \in 1..(nb + 1) /\ nb \in at..nb /\ nb + 1 - at \in Nat /\ nb + 1 - at # 1 /\ nb + 1 - at # 0
          /\ at + (nb + 1 - at) - 1 = nb /\ nb + 1 - at \in 1..(nb + 1 - at)
      BY <2>5
    <2>10. /\ Len(tape) = nb + 1 - at
           /\ \A i \in 1..(nb + 1 - at) : tape[i] = bars[at + i - 1]
      BY <2>1, <2>5, <2>8, <2>9, SubSeqFrom
    <2>11. Tail(tape) = SubSeq(bars, at + 1, nb)
      <3>1. at \in 1..Len(bars) /\ nb \in at..Len(bars)
        BY <2>5, <2>8, <2>9
      <3> QED BY <2>1, <3>1, HeadTailOfSubSeq
    <2> HIDE DEF tape
    <2>12. Last(tape) = Last(bars)
      <3>1. tape[nb + 1 - at] = bars[nb]
        BY <2>9, <2>10
      <3> QED BY <2>8, <2>10, <3>1 DEF Last
    <2>13. Replay(e, tape) = ReplayResult(e, ReplayState(e, Tail(tape)), Last(tape))
      BY <2>9, <2>10 DEF Replay
    <2> QED BY <2>4, <2>6, <2>7, <2>11, <2>12, <2>13 DEF e
  <1> QED BY <1>1, ReplayInvHolds, TradesInvHolds, PTL

-----------------------------------------------------------------------------
\* The backtest: its report

\* it[s] for every subset s of S: the fold of the members of s, taken one by one
\* as c takes them, each joined by G to what the rest gives.
FoldedBy(S, base, c, G, it) ==
    \A s \in SUBSET S : it[s] = IF s = {} THEN base ELSE G[<<c[s], it[s \ {c[s]}]>>]

\* c takes a member of every subset of S that has one.
Takes(S, c) == \A s \in SUBSET S : s # {} => c[s] \in s
Joins(S, A, G) == \A x \in S, a \in A : G[<<x, a>>] \in A

LEMMA FoldExists ==
    ASSUME NEW S, IsFiniteSet(S), NEW A, NEW base, base \in A, NEW c, Takes(S, c), NEW G, Joins(S, A, G)
    PROVE  \E it \in [SUBSET S -> A] : FoldedBy(S, base, c, G, it)
  <1> USE DEF Takes, Joins
  <1> DEFINE Small(k) == {s \in SUBSET S : Cardinality(s) <= k}
             Step(it, s) == IF s = {} THEN base ELSE G[<<c[s], it[s \ {c[s]}]>>]
             Upto(it, k) == it \in [Small(k) -> A] /\ \A s \in Small(k) : it[s] = Step(it, s)
             n == Cardinality(S)
             Bad == {k \in 0..n : ~ \E it : Upto(it, k)}
  <1>1. n \in Nat /\ \A s \in SUBSET S : IsFiniteSet(s) /\ Cardinality(s) \in Nat /\ Cardinality(s) <= n
    BY FS_Subset, FS_CardinalityType
  <1>2. ASSUME NEW s \in SUBSET S, s # {}
        PROVE  s \ {c[s]} \in SUBSET S /\ Cardinality(s \ {c[s]}) = Cardinality(s) - 1
    <2>1. c[s] \in s /\ IsFiniteSet(s)
      BY <1>1, <1>2
    <2> QED BY <2>1, FS_RemoveElement
  <1>3. ASSUME NEW k \in Bad PROVE k # 0 /\ k - 1 \in Bad
    <2>1. k # 0
      <3> DEFINE g == [s \in Small(0) |-> base]
      <3>1. ASSUME NEW s \in Small(0) PROVE s = {}
        <4>1. s \in SUBSET S /\ Cardinality(s) = 0
          BY <1>1
        <4> QED BY <1>1, <4>1, FS_EmptySet
      <3>2. g \in [Small(0) -> A] /\ \A s \in Small(0) : g[s] = Step(g, s)
        BY <3>1
      <3> HIDE DEF g, Small, Step
      <3>3. Upto(g, 0)
        BY <3>2
      <3> HIDE DEF Upto
      <3> QED BY <1>3, <3>3
    <2>2. k - 1 \in 0..n
      BY <1>1, <2>1
    <2>3. ASSUME NEW g, Upto(g, k - 1) PROVE FALSE
      <3> DEFINE h == [s \in Small(k) |-> IF Cardinality(s) = k THEN Step(g, s) ELSE g[s]]
      <3>1. ASSUME NEW s \in Small(k) PROVE h[s] = Step(h, s) /\ h[s] \in A
        <4>1. CASE s = {}
          <5>1. Cardinality(s) = 0 /\ s \in Small(k - 1)
            BY <2>2, <4>1, FS_EmptySet
          <5>2. h[s] = g[s]
            BY <2>1, <3>1, <5>1
          <5> HIDE DEF h, Small
          <5> QED BY <2>3, <4>1, <5>1, <5>2
        <4>2. CASE s # {}
          <5> DEFINE r == s \ {c[s]}
          <5>1. r \in SUBSET S /\ Cardinality(r) = Cardinality(s) - 1 /\ Cardinality(r) \in Nat
            BY <1>1, <1>2, <4>2
          <5>2. Cardinality(s) \in Nat /\ Cardinality(s) <= k
            BY <1>1
          <5>3. r \in Small(k - 1) /\ r \in Small(k) /\ Cardinality(r) # k
            BY <2>2, <5>1, <5>2
          <5>4. h[r] = g[r]
            BY <5>3
          <5>5. h[s] = Step(g, s)
            <6>1. CASE Cardinality(s) = k
              BY <6>1
            <6>2. CASE Cardinality(s) # k
              <7>1. s \in Small(k - 1) /\ h[s] = g[s]
                BY <2>2, <5>2, <6>2
              <7> HIDE DEF h, Small
              <7> QED BY <2>3, <7>1
            <6> QED BY <6>1, <6>2
          <5>6. g[r] \in A /\ c[s] \in S
            <6> HIDE DEF h, Small
            <6> QED BY <2>3, <3>1, <4>2, <5>3 DEF Small
          <5> HIDE DEF h, Small
          <5> QED BY <4>2, <5>4, <5>5, <5>6
        <4> QED BY <4>1, <4>2
      <3>2. DOMAIN h = Small(k) /\ h = [s \in Small(k) |-> h[s]]
        OBVIOUS
      <3> HIDE DEF h, Small, Step
      <3>3. Upto(h, k)
        BY <3>1, <3>2
      <3> HIDE DEF Upto
      <3> QED BY <1>3, <3>3
    <2> HIDE DEF Upto
    <2> QED BY <2>1, <2>2, <2>3
  <1>4. Bad = {}
    <2>1. Bad \subseteq 0..n
      OBVIOUS
    <2> HIDE DEF Bad, n
    <2> QED BY <1>1, <1>3, <2>1, NoLeast
  <1>5. \E it : Upto(it, n)
    <2>1. n \in 0..n
      BY <1>1
    <2> HIDE DEF Upto
    <2> QED BY <1>4, <2>1
  <1>6. Small(n) = SUBSET S
    BY <1>1
  <1> HIDE DEF Small
  <1>7. PICK it : Upto(it, n)
    BY <1>5
  <1>8. it \in [SUBSET S -> A] /\ \A s \in SUBSET S : it[s] = Step(it, s)
    BY <1>6, <1>7
  <1> QED BY <1>8 DEF FoldedBy

\* it[T] is the sum of f over T, for every subset T of S.
Adds(S, f, it) ==
    /\ it \in [SUBSET S -> Int] /\ it[{}] = 0
    /\ \A T \in SUBSET S, x \in S : x \in T => it[T] = f[x] + it[T \ {x}]

Grows(S, f, h) ==
    /\ h[{}] = 0
    /\ \A T \in SUBSET S, x \in S : x \in T => h[T] = f[x] + h[T \ {x}]

\* Two functions of the subsets of a finite set that start at the same number
\* and grow alike with every member are the same.
LEMMA SameSums ==
    ASSUME NEW S, IsFiniteSet(S), NEW f, f \in [S -> Int], NEW it, Adds(S, f, it), NEW h, Grows(S, f, h)
    PROVE  it[S] = h[S]
  <1> USE DEF Grows
  <1> DEFINE n == Cardinality(S)
             Bad == {k \in 0..n : \E T \in SUBSET S : Cardinality(T) = k /\ it[T] # h[T]}
  <1>1. n \in Nat /\ \A s \in SUBSET S : IsFiniteSet(s) /\ Cardinality(s) \in Nat /\ Cardinality(s) <= n
    BY FS_Subset, FS_CardinalityType
  <1>2. ASSUME NEW k \in Bad PROVE k # 0 /\ k - 1 \in Bad
    <2>1. PICK T \in SUBSET S : Cardinality(T) = k /\ it[T] # h[T]
      OBVIOUS
    <2>2. T # {}
      BY <2>1 DEF Adds
    <2>3. PICK x \in T : TRUE
      BY <2>2
    <2> DEFINE R == T \ {x}
    <2>4. R \in SUBSET S /\ Cardinality(R) = k - 1 /\ k # 0
      <3>1. IsFiniteSet(T) /\ k \in Nat
        BY <1>1, <2>1
      <3>2. k # 0
        BY <2>1, <2>2, <3>1, FS_EmptySet
      <3> QED BY <2>1, <2>3, <3>1, <3>2, FS_RemoveElement
    <2>5. it[T] = f[x] + it[R] /\ h[T] = f[x] + h[R]
      BY <2>3 DEF Adds
    <2>6. it[R] # h[R]
      BY <2>1, <2>5
    <2>7. k - 1 \in 0..n
      BY <1>1, <2>4
    <2> HIDE DEF R
    <2> QED BY <2>4, <2>6, <2>7
  <1>3. Bad = {}
    <2>1. Bad \subseteq 0..n
      OBVIOUS
    <2> HIDE DEF Bad, n
    <2> QED BY <1>1, <1>2, <2>1, NoLeast
  <1>4. n \in 0..n
    BY <1>1
  <1>5. ~ (it[S] # h[S])
    BY <1>3, <1>4
  <1> QED BY <1>5

SumsUp(S, f, c, it) == \A s \in SUBSET S : it[s] = IF s = {} THEN 0 ELSE f[c[s]] + it[s \ {c[s]}]

\* The order in which the members are taken does not matter.
LEMMA FoldAdds ==
    ASSUME NEW S, IsFiniteSet(S), NEW f, f \in [S -> Int], NEW c, Takes(S, c), NEW it, SumsUp(S, f, c, it)
    PROVE  \A T \in SUBSET S : it[T] \in Int /\ \A x \in T : it[T] = f[x] + it[T \ {x}]
  <1> USE DEF Takes, SumsUp
  <1> DEFINE n == Cardinality(S)
             Good(T) == it[T] \in Int /\ \A x \in T : it[T] = f[x] + it[T \ {x}]
             Bad == {k \in 0..n : \E T \in SUBSET S : Cardinality(T) <= k /\ ~ Good(T)}
  <1>1. n \in Nat /\ \A s \in SUBSET S : IsFiniteSet(s) /\ Cardinality(s) \in Nat /\ Cardinality(s) <= n
    BY FS_Subset, FS_CardinalityType
  <1>2. ASSUME NEW s \in SUBSET S, NEW x \in s
        PROVE  s \ {x} \in SUBSET S /\ Cardinality(s \ {x}) = Cardinality(s) - 1
    <2>1. IsFiniteSet(s)
      BY <1>1
    <2> QED BY <2>1, FS_RemoveElement
  <1>3. Good({})
    <2>1. {} \in SUBSET S
      OBVIOUS
    <2>2. it[{}] = 0
      BY <2>1
    <2> QED BY <2>2
  <1>4. ASSUME NEW k \in Bad PROVE k # 0 /\ k - 1 \in Bad
    <2>1. PICK T \in SUBSET S : Cardinality(T) <= k /\ ~ Good(T)
      OBVIOUS
    <2>2. T # {}
      <3> HIDE DEF Good
      <3> QED BY <1>3, <2>1
    <2> DEFINE y == c[T]
               R == T \ {y}
    <2>3. y \in T /\ y \in S /\ f[y] \in Int /\ it[T] = f[y] + it[R]
      BY <2>2
    <2>4. R \in SUBSET S /\ Cardinality(R) = Cardinality(T) - 1 /\ Cardinality(T) \in Nat /\ Cardinality(T) # 0
      <3> HIDE DEF y
      <3>1. Cardinality(T) \in Nat /\ IsFiniteSet(T)
        BY <1>1
      <3>2. Cardinality(T) # 0
        BY <2>2, <3>1, FS_EmptySet
      <3> QED BY <1>2, <2>3, <3>1, <3>2
    <2>5. k # 0 /\ k - 1 \in 0..n /\ k \in Nat /\ k - 1 \in Nat
      BY <1>1, <2>1, <2>4
    <2>6. ASSUME k - 1 \notin Bad PROVE FALSE
      <3>1. \A U \in SUBSET S : Cardinality(U) <= k - 1 => Good(U)
        <4> HIDE DEF Good, n
        <4> QED BY <2>5, <2>6
      <3>2. Good(R)
        <4>1. Cardinality(R) <= k - 1
          BY <2>1, <2>4, <2>5
        <4> HIDE DEF Good, R
        <4> QED BY <2>4, <3>1, <4>1
      <3>3. it[T] \in Int
        BY <2>3, <3>2
      <3>4. ASSUME NEW x \in T PROVE it[T] = f[x] + it[T \ {x}]
        <4>1. CASE x = y
          BY <2>3, <4>1
        <4>2. CASE x # y
          <5> DEFINE V == T \ {x}
                     W == R \ {x}
          <5>1. x \in R /\ y \in V /\ W = V \ {y} /\ x \in S /\ f[x] \in Int
            <6> HIDE DEF y
            <6> QED BY <2>3, <4>2
          <5>2. it[R] = f[x] + it[W]
            BY <3>2, <5>1
          <5>3. V \in SUBSET S /\ Cardinality(V) <= k - 1
            <6>1. V \in SUBSET S /\ Cardinality(V) = Cardinality(T) - 1
              BY <1>2
            <6> HIDE DEF V, R
            <6> QED BY <2>1, <2>4, <2>5, <6>1
          <5>4. Good(V)
            <6> HIDE DEF Good, V
            <6> QED BY <3>1, <5>3
          <5>5. it[V] = f[y] + it[W]
            <6>1. it[V] = f[y] + it[V \ {y}]
              <7> HIDE DEF V, y
              <7> QED BY <5>1, <5>4
            <6> HIDE DEF V, W, y
            <6> QED BY <5>1, <6>1
          <5>6. it[W] \in Int
            <6>1. W \in SUBSET S /\ Cardinality(W) = Cardinality(R) - 1
              <7> HIDE DEF R
              <7> QED BY <1>2, <2>4, <5>1
            <6>2. Cardinality(W) <= k - 1
              <7> HIDE DEF W, R
              <7> QED BY <2>1, <2>4, <2>5, <6>1
            <6>3. Good(W)
              <7> HIDE DEF Good, W
              <7> QED BY <3>1, <6>1, <6>2
            <6> QED BY <6>3
          <5>7. V = T \ {x}
            OBVIOUS
          <5> HIDE DEF V, W, y, R, Good
          <5> QED BY <2>3, <5>1, <5>2, <5>5, <5>6, <5>7
        <4> QED BY <4>1, <4>2
      <3> HIDE DEF n, y, R
      <3> QED BY <2>1, <3>3, <3>4
    <2> HIDE DEF Bad
    <2> QED BY <2>5, <2>6
  <1>5. Bad = {}
    <2>1. Bad \subseteq 0..n
      OBVIOUS
    <2> HIDE DEF Bad, n
    <2> QED BY <1>1, <1>4, <2>1, NoLeast
  <1>6. ASSUME NEW T \in SUBSET S PROVE Good(T)
    <2>1. Cardinality(T) \in 0..n /\ Cardinality(T) <= Cardinality(T)
      BY <1>1
    <2> HIDE DEF Good, n
    <2> QED BY <1>5, <2>1
  <1> QED BY <1>6

\* How FoldFunction and MapThenSumSet add the members of f over S up
Summed(S, f, it) ==
    it = [s \in SUBSET S |-> IF s = {} THEN 0
                            ELSE f[CHOOSE x \in s : TRUE] + it[s \ {CHOOSE x \in s : TRUE}]]

LEMMA FoldIsSum ==
    ASSUME NEW S, IsFiniteSet(S), NEW f, f \in [S -> Int]
    PROVE  (\E it : Summed(S, f, it)) /\ \A it : Summed(S, f, it) => Adds(S, f, it)
  <1> DEFINE c == [s \in SUBSET S |-> CHOOSE x \in s : TRUE]
             G == [q \in S \X Int |-> f[q[1]] + q[2]]
  <1>1. \A s \in SUBSET S : s # {} => (c[s] \in s /\ c[s] = CHOOSE x \in s : TRUE)
    OBVIOUS
  <1>2. \A x \in S, a \in Int : G[<<x, a>>] \in Int /\ G[<<x, a>>] = f[x] + a
    OBVIOUS
  <1>0. Takes(S, c)
    BY <1>1 DEF Takes
  <1> HIDE DEF c, G
  <1>3. PICK h \in [SUBSET S -> Int] : FoldedBy(S, 0, c, G, h)
    <2>1. Joins(S, Int, G) /\ 0 \in Int
      BY <1>2 DEF Joins
    <2> QED BY <1>0, <2>1, FoldExists
  <1>4. h = [s \in SUBSET S |-> IF s = {} THEN 0 ELSE f[CHOOSE x \in s : TRUE] + h[s \ {CHOOSE x \in s : TRUE}]]
    <2>1. ASSUME NEW s \in SUBSET S, s # {} PROVE h[s] = f[CHOOSE x \in s : TRUE] + h[s \ {CHOOSE x \in s : TRUE}]
      <3>1. h[s] = G[<<c[s], h[s \ {c[s]}]>>]
        BY <1>3, <2>1 DEF FoldedBy
      <3>2. c[s] \in S /\ h[s \ {c[s]}] \in Int
        BY <1>1, <2>1
      <3>3. h[s] = f[c[s]] + h[s \ {c[s]}]
        BY <1>2, <3>1, <3>2
      <3> QED BY <1>1, <2>1, <3>3
    <2>2. h[{}] = 0
      BY <1>3 DEF FoldedBy
    <2> QED BY <2>1, <2>2
  <1>5. ASSUME NEW it, Summed(S, f, it) PROVE Adds(S, f, it)
    <2>1. it = [s \in SUBSET S |-> IF s = {} THEN 0 ELSE f[CHOOSE x \in s : TRUE] + it[s \ {CHOOSE x \in s : TRUE}]]
      BY <1>5 DEF Summed
    <2>2. \A s \in SUBSET S : it[s] = IF s = {} THEN 0 ELSE f[c[s]] + it[s \ {c[s]}]
      BY <1>1, <2>1
    <2>3. \A T \in SUBSET S : it[T] \in Int /\ \A x \in T : it[T] = f[x] + it[T \ {x}]
      <3>1. SumsUp(S, f, c, it)
        BY <2>2 DEF SumsUp
      <3> QED BY <1>0, <3>1, FoldAdds
    <2>4. it \in [SUBSET S -> Int] /\ it[{}] = 0
      BY <2>1, <2>3
    <2> QED BY <2>3, <2>4 DEF Adds
  <1> QED BY <1>4, <1>5 DEF Summed

LEMMA SumOverAdds ==
    ASSUME NEW S, IsFiniteSet(S), NEW f, f \in [S -> Int]
    PROVE  \E it : Adds(S, f, it) /\ SumOver(f) = it[S]
  <1> DEFINE it == CHOOSE g : g = [s \in SUBSET S |-> IF s = {} THEN 0
                                       ELSE f[CHOOSE x \in s : TRUE] + g[s \ {CHOOSE x \in s : TRUE}]]
  <1>1. Adds(S, f, it)
    <2>1. \E g : g = [s \in SUBSET S |-> IF s = {} THEN 0
                                       ELSE f[CHOOSE x \in s : TRUE] + g[s \ {CHOOSE x \in s : TRUE}]]
      <3>1. \E g : Summed(S, f, g)
        BY FoldIsSum
      <3> QED BY <3>1 DEF Summed
    <2>2. it = [s \in SUBSET S |-> IF s = {} THEN 0
                                       ELSE f[CHOOSE x \in s : TRUE] + it[s \ {CHOOSE x \in s : TRUE}]]
      BY <2>1
    <2> HIDE DEF it
    <2>3. Summed(S, f, it)
      BY <2>2 DEF Summed
    <2> QED BY <2>3, FoldIsSum
  <1>2. DOMAIN f = S
    OBVIOUS
  <1>3. SumOver(f) = it[S]
    BY <1>2 DEF SumOver, FoldFunction, FoldFunctionOnSet, MapThenFoldSet
  <1> HIDE DEF it
  <1> QED BY <1>1, <1>3

\* The members of f at the places of T, nothing elsewhere
Only(n, T, f) == [i \in 1..n |-> IF i \in T THEN f[i] ELSE 0]

LEMMA TotalOfNothing ==
    ASSUME NEW n \in Nat, NEW s \in [1..n -> Int], \A i \in 1..n : s[i] = 0
    PROVE  Total(s) = 0
  <1>1. Total(s) = Total(s) + Total(s) /\ Total(s) \in Int
    <2>1. n \in {n, n + 1} /\ (n = n + 1 => s[n] = 0)
      OBVIOUS
    <2>2. \A i \in 1..n : s[i] = s[i] + s[i]
      OBVIOUS
    <2> QED BY <2>1, <2>2, TotalAdds
  <1> QED BY <1>1

LEMMA TotalOfOne ==
    ASSUME NEW n \in Nat, NEW s \in [1..n -> Int], NEW x \in 1..n, \A i \in 1..n : i # x => s[i] = 0
    PROVE  Total(s) = s[x]
  <1>1. PICK g : Sums(n, s, g) /\ Total(s) = g[n]
    BY TotalIsLastSum
  <1>2. g[0] = 0 /\ \A k \in 1..n : g[k] = g[k - 1] + s[k]
    BY <1>1 DEF Sums
  <1> DEFINE Good(k) == g[k] = IF k < x THEN 0 ELSE s[x]
             Bad == {k \in 0..n : ~ Good(k)}
  <1>3. ASSUME NEW k \in Bad PROVE k # 0 /\ k - 1 \in Bad
    <2>1. k # 0
      BY <1>2
    <2>2. k \in 1..n /\ k - 1 \in 0..n
      BY <2>1
    <2>3. g[k] = g[k - 1] + s[k] /\ s[k] \in Int /\ s[x] \in Int
      BY <1>2, <2>2
    <2>4. ASSUME Good(k - 1) PROVE Good(k)
      <3>1. CASE k < x
        BY <2>2, <2>3, <2>4, <3>1
      <3>2. CASE k = x
        <4>1. g[k - 1] = 0
          BY <2>2, <2>4, <3>2
        <4> QED BY <2>3, <3>2, <4>1
      <3>3. CASE k > x
        <4>1. g[k - 1] = s[x] /\ s[k] = 0
          BY <2>2, <2>4, <3>3
        <4> QED BY <2>3, <3>3, <4>1
      <3> QED BY <2>2, <3>1, <3>2, <3>3
    <2> QED BY <1>3, <2>1, <2>2, <2>4
  <1>4. Bad = {}
    <2>1. Bad \subseteq 0..n
      OBVIOUS
    <2> HIDE DEF Bad
    <2> QED BY <1>3, <2>1, NoLeast
  <1>5. Good(n)
    BY <1>4
  <1> QED BY <1>1, <1>5

LEMMA TotalOfOnly ==
    ASSUME NEW n \in Nat, NEW f \in [1..n -> Int], NEW T \in SUBSET (1..n)
    PROVE  /\ Only(n, T, f) \in [1..n -> Int] /\ Total(Only(n, T, f)) \in Int
           /\ T = {} => Total(Only(n, T, f)) = 0
           /\ \A x \in T : Total(Only(n, T, f)) = f[x] + Total(Only(n, T \ {x}, f))
  <1>1. ASSUME NEW U \in SUBSET (1..n) PROVE Only(n, U, f) \in [1..n -> Int]
    BY DEF Only
  <1>2. Total(Only(n, T, f)) \in Int
    <2>1. PICK z \in [1..n -> Int] : \A i \in 1..n : z[i] = 2 * Only(n, T, f)[i]
      <3> DEFINE d == [i \in 1..n |-> 2 * Only(n, T, f)[i]]
      <3>1. d \in [1..n -> Int] /\ \A i \in 1..n : d[i] = 2 * Only(n, T, f)[i]
        BY <1>1
      <3> QED BY <3>1
    <2>2. \A i \in 1..n : z[i] = Only(n, T, f)[i] + Only(n, T, f)[i]
      <3>1. Only(n, T, f) \in [1..n -> Int]
        BY <1>1
      <3> HIDE DEF Only
      <3> QED BY <2>1, <3>1
    <2>3. n \in {n, n + 1} /\ (n = n + 1 => z[n] = 0)
      OBVIOUS
    <2> QED BY <1>1, <2>2, <2>3, TotalAdds, ZenonT(60)
  <1>3. ASSUME T = {} PROVE Total(Only(n, T, f)) = 0
    <2>1. \A i \in 1..n : Only(n, T, f)[i] = 0
      BY <1>3 DEF Only
    <2> QED BY <1>1, <2>1, TotalOfNothing
  <1>4. ASSUME NEW x \in T PROVE Total(Only(n, T, f)) = f[x] + Total(Only(n, T \ {x}, f))
    <2> DEFINE a == Only(n, {x}, f)
               b == Only(n, T \ {x}, f)
               c == Only(n, T, f)
    <2>1. a \in [1..n -> Int] /\ b \in [1..n -> Int] /\ c \in [1..n -> Int]
      BY <1>1
    <2>2. \A i \in 1..n : c[i] = a[i] + b[i]
      BY DEF Only
    <2>3. x \in 1..n /\ a[x] = f[x] /\ \A i \in 1..n : i # x => a[i] = 0
      BY DEF Only
    <2>4. n \in {n, n + 1} /\ (n = n + 1 => c[n] = 0)
      OBVIOUS
    <2> HIDE DEF a, b, c
    <2>5. Total(a) = f[x]
      BY <2>1, <2>3, TotalOfOne
    <2>6. Total(c) = Total(a) + Total(b)
      BY <2>1, <2>2, <2>4, TotalAdds
    <2> QED BY <2>5, <2>6 DEF a, b, c
  <1> QED BY <1>1, <1>2, <1>3, <1>4

\* A number of places is a total of ones.
LEMMA CardinalityIsTotal ==
    ASSUME NEW n \in Nat, NEW T \in SUBSET (1..n)
    PROVE  /\ Cardinality(T) = Total([i \in 1..n |-> IF i \in T THEN 1 ELSE 0])
           /\ IsFiniteSet(T) /\ Cardinality(T) \in Nat
  <1> DEFINE one == [i \in 1..n |-> 1]
             f == [i \in T |-> 1]
             it == [U \in SUBSET T |-> Cardinality(U)]
             h == [U \in SUBSET T |-> Total(Only(n, U, one))]
  <1>1. one \in [1..n -> Int] /\ f \in [T -> Int] /\ \A x \in T : one[x] = 1 /\ f[x] = 1 /\ x \in 1..n
    OBVIOUS
  <1>2. \A U \in SUBSET T : IsFiniteSet(U) /\ Cardinality(U) \in Nat
    <2>1. IsFiniteSet(1..n)
      BY FS_Interval
    <2> QED BY <2>1, FS_Subset, FS_CardinalityType
  <1>3. it \in [SUBSET T -> Int] /\ it[{}] = 0
    BY <1>2, FS_EmptySet
  <1>4. ASSUME NEW U \in SUBSET T, NEW x \in T, x \in U PROVE it[U] = f[x] + it[U \ {x}]
    <2>1. IsFiniteSet(U) /\ Cardinality(U) \in Nat
      BY <1>2
    <2>2. Cardinality(U \ {x}) = Cardinality(U) - 1
      BY <1>4, <2>1, FS_RemoveElement
    <2> QED BY <2>1, <2>2
  <1>5. ASSUME NEW U \in SUBSET T, NEW x \in T, x \in U PROVE h[U] = f[x] + h[U \ {x}]
    <2>1. U \in SUBSET (1..n)
      OBVIOUS
    <2>2. Total(Only(n, U, one)) = one[x] + Total(Only(n, U \ {x}, one))
      <3> HIDE DEF one
      <3> QED BY <1>1, <1>5, <2>1, TotalOfOnly
    <2> QED BY <2>2
  <1>6. h[{}] = 0
    <2>1. {} \in SUBSET (1..n)
      OBVIOUS
    <2>2. Total(Only(n, {}, one)) = 0
      <3> HIDE DEF one
      <3> QED BY <1>1, <2>1, TotalOfOnly
    <2> QED BY <2>2
  <1>7. it[T] = Cardinality(T) /\ h[T] = Total(Only(n, T, one))
    OBVIOUS
  <1>8. Only(n, T, one) = [i \in 1..n |-> IF i \in T THEN 1 ELSE 0]
    BY DEF Only
  <1>9. IsFiniteSet(T) /\ Cardinality(T) \in Nat
    BY <1>2
  <1> HIDE DEF it, h, f, one
  <1>10. Adds(T, f, it)
    BY <1>3, <1>4 DEF Adds
  <1>11. it[T] = h[T]
    <2>1. Grows(T, f, h)
      BY <1>5, <1>6 DEF Grows
    <2>2. IsFiniteSet(T) /\ f \in [T -> Int]
      BY <1>1, <1>9
    <2> QED BY <1>10, <2>1, <2>2, SameSums
  <1> QED BY <1>7, <1>8, <1>9, <1>11

\* The results of some trades, added as the report adds them
LEMMA ResultsAddUp ==
    ASSUME NEW n \in Nat, NEW ts, NEW f \in [1..n -> Int], NEW T \in SUBSET (1..n), \A i \in T : f[i] = ts[i].pnl
    PROVE  MapThenSumSet(LAMBDA i : ts[i].pnl, T) = Total(Only(n, T, f)) /\ Total(Only(n, T, f)) \in Int
  <1> DEFINE g == [i \in T |-> ts[i].pnl]
             h == [U \in SUBSET T |-> Total(Only(n, U, f))]
             it == CHOOSE k : k = [s \in SUBSET T |-> IF s = {} THEN 0
                                ELSE ts[CHOOSE x \in s : TRUE].pnl + k[s \ {CHOOSE x \in s : TRUE}]]
  <1>1. IsFiniteSet(T)
    BY CardinalityIsTotal
  <1>2. g \in [T -> Int] /\ \A x \in T : g[x] = f[x]
    OBVIOUS
  <1>3. MapThenSumSet(LAMBDA i : ts[i].pnl, T) = it[T]
    BY DEF MapThenSumSet, MapThenFoldSet
  <1>7. Adds(T, g, it)
    <2> DEFINE As(k) == k = [s \in SUBSET T |-> IF s = {} THEN 0
                                ELSE ts[CHOOSE x \in s : TRUE].pnl + k[s \ {CHOOSE x \in s : TRUE}]]
    <2>1. \A s \in SUBSET T : s # {} => g[CHOOSE x \in s : TRUE] = ts[CHOOSE x \in s : TRUE].pnl
      OBVIOUS
    <2> HIDE DEF g
    <2>2. ASSUME NEW k PROVE As(k) <=> Summed(T, g, k)
      <3> DEFINE u == [s \in SUBSET T |-> IF s = {} THEN 0
                                ELSE ts[CHOOSE x \in s : TRUE].pnl + k[s \ {CHOOSE x \in s : TRUE}]]
                 v == [s \in SUBSET T |-> IF s = {} THEN 0
                                ELSE g[CHOOSE x \in s : TRUE] + k[s \ {CHOOSE x \in s : TRUE}]]
      <3>1. ASSUME NEW s \in SUBSET T PROVE u[s] = v[s]
        <4> DEFINE x == CHOOSE y \in s : TRUE
        <4>1. u[s] = IF s = {} THEN 0 ELSE ts[x].pnl + k[s \ {x}]
          OBVIOUS
        <4>2. v[s] = IF s = {} THEN 0 ELSE g[x] + k[s \ {x}]
          OBVIOUS
        <4>3. s # {} => g[x] = ts[x].pnl
          BY <2>1
        <4> HIDE DEF u, v, x
        <4> QED BY <4>1, <4>2, <4>3
      <3>2. u = v
        BY <3>1
      <3>3. (As(k) <=> k = u) /\ (Summed(T, g, k) <=> k = v)
        BY DEF Summed
      <3> HIDE DEF As, u, v
      <3> QED BY <3>2, <3>3
    <2>3. \E k : As(k)
      <3> HIDE DEF As
      <3> QED BY <1>1, <1>2, <2>2, FoldIsSum
    <2>4. As(it)
      BY <2>3
    <2> HIDE DEF As, it
    <2> QED BY <1>1, <1>2, <2>2, <2>4, FoldIsSum
  <1>4. ASSUME NEW U \in SUBSET T, NEW x \in T, x \in U PROVE h[U] = g[x] + h[U \ {x}]
    <2>1. U \in SUBSET (1..n)
      OBVIOUS
    <2>2. Total(Only(n, U, f)) = f[x] + Total(Only(n, U \ {x}, f))
      BY <1>4, <2>1, TotalOfOnly
    <2> HIDE DEF g
    <2> QED BY <1>2, <2>2
  <1>5. h[{}] = 0
    <2>1. {} \in SUBSET (1..n)
      OBVIOUS
    <2>2. Total(Only(n, {}, f)) = 0
      BY <2>1, TotalOfOnly
    <2> QED BY <2>2
  <1>6. h[T] = Total(Only(n, T, f))
    OBVIOUS
  <1> HIDE DEF g, h, it
  <1>8. it[T] = h[T]
    <2>1. Grows(T, g, h)
      BY <1>4, <1>5 DEF Grows
    <2>2. IsFiniteSet(T) /\ g \in [T -> Int]
      BY <1>1, <1>2
    <2> QED BY <1>7, <2>1, <2>2, SameSums, SMTT(30)
  <1>9. Total(Only(n, T, f)) \in Int
    BY TotalOfOnly
  <1> QED BY <1>3, <1>6, <1>8, <1>9

\* g[v] is what w holds at the places of label v.
ByLabel(n, w, V, val, g) ==
    \A v \in V : g[v] = Total([i \in 1..n |-> IF val[i] = v THEN w[i] ELSE 0])

\* What is added up by the value of a label comes to the whole.
LEMMA FibresAddUp ==
    ASSUME NEW n \in Nat, NEW w \in [1..n -> Int], NEW V, IsFiniteSet(V), NEW val \in [1..n -> V],
           NEW g \in [V -> Int], ByLabel(n, w, V, val, g)
    PROVE  SumOver(g) = Total(w)
  <1> USE DEF ByLabel
  <1> DEFINE Places(T) == {i \in 1..n : val[i] \in T}
             h == [T \in SUBSET V |-> Total(Only(n, Places(T), w))]
  <1>1. PICK it : Adds(V, g, it) /\ SumOver(g) = it[V]
    BY SumOverAdds
  <1>2. ASSUME NEW T \in SUBSET V, NEW x \in V, x \in T PROVE h[T] = g[x] + h[T \ {x}]
    <2> DEFINE a == [i \in 1..n |-> IF val[i] = x THEN w[i] ELSE 0]
               b == Only(n, Places(T \ {x}), w)
               c == Only(n, Places(T), w)
    <2>1. a \in [1..n -> Int] /\ b \in [1..n -> Int] /\ c \in [1..n -> Int]
      BY DEF Only
    <2>2. \A i \in 1..n : c[i] = a[i] + b[i]
      BY <1>2 DEF Only
    <2>3. n \in {n, n + 1} /\ (n = n + 1 => c[n] = 0)
      OBVIOUS
    <2>4. g[x] = Total(a)
      OBVIOUS
    <2>5. h[T] = Total(c) /\ h[T \ {x}] = Total(b)
      OBVIOUS
    <2> HIDE DEF a, b, c, h
    <2>6. Total(c) = Total(a) + Total(b)
      BY <2>1, <2>2, <2>3, TotalAdds, ZenonT(60)
    <2> QED BY <2>4, <2>5, <2>6
  <1>3. h[{}] = 0
    <2>1. {} \in SUBSET (1..n) /\ Places({}) = {}
      OBVIOUS
    <2>2. Total(Only(n, {}, w)) = 0
      BY <2>1, TotalOfOnly
    <2> QED BY <2>1, <2>2
  <1>4. h[V] = Total(w)
    <2>1. Places(V) = 1..n
      OBVIOUS
    <2>2. Only(n, 1..n, w) = w
      BY DEF Only
    <2> HIDE DEF Places
    <2> QED BY <2>1, <2>2
  <1> HIDE DEF h
  <1>5. it[V] = h[V]
    <2>1. Grows(V, g, h)
      BY <1>2, <1>3 DEF Grows
    <2> QED BY <1>1, <1>2, <1>3, <2>1, SameSums
  <1> QED BY <1>1, <1>4, <1>5

LEMMA GreatestOfTwo ==
    ASSUME NEW a \in Int, NEW b \in Int
    PROVE  Max({a, b}) \in Int /\ Max({a, b}) = IF a <= b THEN b ELSE a
  <1>1. \E m \in {a, b} : \A x \in {a, b} : m >= x
    <2>1. CASE a <= b  BY <2>1
    <2>2. CASE b <= a  BY <2>2
    <2> QED BY <2>1, <2>2
  <1>2. Max({a, b}) \in {a, b} /\ \A x \in {a, b} : Max({a, b}) >= x
    BY <1>1 DEF Max
  <1> QED BY <1>2

\* The drawdown after each point of the curve: d[k].peak is the highest of the
\* first k points, d[k].worst the worst fall among them.
DrawnDown(n, curve, d) ==
    /\ d[0] = [peak |-> IF n = 0 THEN 0 ELSE curve[1], worst |-> 0]
    /\ \A k \in 1..n : LET peak == Max({d[k - 1].peak, curve[k]})
                       IN  d[k] = [peak |-> peak, worst |-> Max({d[k - 1].worst, peak - curve[k]})]
    /\ \A k \in 0..n : d[k].peak \in Int /\ d[k].worst \in Int

LEMMA DrawdownInSteps ==
    ASSUME NEW n \in Nat, NEW curve \in [1..n -> Int]
    PROVE  \E d : DrawnDown(n, curve, d) /\ MaxDrawdown(curve) = d[n].worst
  <1> DEFINE S == 1..n
             A == [peak : Int, worst : Int]
             base == [peak |-> IF n = 0 THEN 0 ELSE curve[1], worst |-> 0]
             c == [s \in SUBSET S |-> Max(s)]
             Drawn(a, e) == [peak |-> Max({a.peak, e}), worst |-> Max({a.worst, Max({a.peak, e}) - e})]
             G == [q \in S \X A |-> Drawn(q[2], curve[q[1]])]
             it == CHOOSE g : g = [s \in SUBSET S |-> IF s = {} THEN base ELSE Drawn(g[s \ {Max(s)}], curve[Max(s)])]
  <1>1. DOMAIN curve = S /\ IsFiniteSet(S) /\ (curve = <<>> <=> n = 0)
    BY FS_Interval
  <1>2. MaxDrawdown(curve) = it[S].worst
    BY <1>1 DEF MaxDrawdown, FoldLeft, MapThenFoldSet
  <1>3. \A s \in SUBSET S : s # {} => Max(s) \in s /\ \A x \in s : x <= Max(s)
    <2> SUFFICES ASSUME NEW s \in SUBSET S, s # {} PROVE Max(s) \in s /\ \A x \in s : x <= Max(s)
      OBVIOUS
    <2>1. s \subseteq Int /\ n \in Int /\ \A x \in s : x <= n
      OBVIOUS
    <2> QED BY <2>1, GreatestOfBounded
  <1>4. Takes(S, c)
    BY <1>3 DEF Takes
  <1>5. ASSUME NEW a \in A, NEW x \in S PROVE Drawn(a, curve[x]) \in A
    <2>1. a.peak \in Int /\ a.worst \in Int /\ curve[x] \in Int
      OBVIOUS
    <2>2. Max({a.peak, curve[x]}) \in Int
      BY <2>1, GreatestOfTwo
    <2>3. Max({a.peak, curve[x]}) - curve[x] \in Int
      BY <2>1, <2>2
    <2>4. Max({a.worst, Max({a.peak, curve[x]}) - curve[x]}) \in Int
      BY <2>1, <2>3, GreatestOfTwo
    <2> QED BY <2>2, <2>4
  <1>6. base \in A
    OBVIOUS
  <1>7. Joins(S, A, G)
    <2>1. \A x \in S, a \in A : G[<<x, a>>] = Drawn(a, curve[x])
      <3> HIDE DEF Drawn
      <3> QED OBVIOUS
    <2> HIDE DEF Drawn, G, A
    <2> QED BY <1>5, <2>1 DEF Joins
  <1>8. PICK h \in [SUBSET S -> A] : FoldedBy(S, base, c, G, h)
    <2> HIDE DEF S, A, base, c, G
    <2> QED BY <1>1, <1>4, <1>6, <1>7, FoldExists
  <1>9. h = [s \in SUBSET S |-> IF s = {} THEN base ELSE Drawn(h[s \ {Max(s)}], curve[Max(s)])]
    <2>1. ASSUME NEW s \in SUBSET S, s # {} PROVE h[s] = Drawn(h[s \ {Max(s)}], curve[Max(s)])
      <3>1. h[s] = G[<<c[s], h[s \ {c[s]}]>>]
        <4> HIDE DEF S, A, base, c, G
        <4> QED BY <1>8, <2>1 DEF FoldedBy
      <3>2. c[s] = Max(s) /\ Max(s) \in S /\ h[s \ {Max(s)}] \in A
        BY <1>3, <1>8, <2>1
      <3>3. G[<<Max(s), h[s \ {Max(s)}]>>] = Drawn(h[s \ {Max(s)}], curve[Max(s)])
        <4> HIDE DEF Drawn
        <4> QED BY <3>2
      <3> HIDE DEF Drawn, G, c
      <3> QED BY <3>1, <3>2, <3>3
    <2>2. h[{}] = base
      <3> HIDE DEF base, c, G, A
      <3> QED BY <1>8 DEF FoldedBy
    <2> HIDE DEF Drawn, base
    <2> QED BY <1>8, <2>1, <2>2
  <1>10. it = [s \in SUBSET S |-> IF s = {} THEN base ELSE Drawn(it[s \ {Max(s)}], curve[Max(s)])]
    BY <1>9
  <1> DEFINE d == [k \in 0..n |-> it[1..k]]
  <1> HIDE DEF it, G, c
  <1>11. d[0] = base
    <2>1. 1..0 = {} /\ {} \in SUBSET S
      OBVIOUS
    <2>2. it[{}] = base
      <3> HIDE DEF base, Drawn
      <3> QED BY <1>10, <2>1
    <2> HIDE DEF base
    <2> QED BY <2>1, <2>2
  <1>12. ASSUME NEW k \in 1..n PROVE d[k] = Drawn(d[k - 1], curve[k])
    <2> DEFINE s == 1..k
    <2>1. s \in SUBSET S /\ s # {} /\ k \in s /\ s \ {k} = 1..(k - 1) /\ k - 1 \in 0..n /\ k \in 0..n
      <3>1. s \subseteq S /\ k \in s /\ k - 1 \in 0..n /\ k \in 0..n
        OBVIOUS
      <3>2. s \ {k} = 1..(k - 1)
        OBVIOUS
      <3> HIDE DEF s, S
      <3> QED BY <3>1, <3>2
    <2>2. Max(s) = k
      <3>1. Max(s) \in s /\ k <= Max(s)
        BY <1>3, <2>1
      <3> HIDE DEF s
      <3>2. Max(s) \in 1..k
        BY <3>1 DEF s
      <3> QED BY <3>1, <3>2
    <2>3. it[s] = Drawn(it[s \ {Max(s)}], curve[Max(s)])
      <3> HIDE DEF Drawn, base, s
      <3> QED BY <1>10, <2>1
    <2>4. it[s] = Drawn(it[1..(k - 1)], curve[k])
      <3> HIDE DEF Drawn, s
      <3> QED BY <2>1, <2>2, <2>3
    <2>5. d[k] = it[s] /\ d[k - 1] = it[1..(k - 1)]
      BY <2>1
    <2> HIDE DEF Drawn, d, s
    <2> QED BY <2>4, <2>5
  <1>13. ASSUME NEW k \in 0..n PROVE d[k] \in A
    <2> DEFINE Bad == {i \in 0..n : d[i] \notin A}
    <2>1. ASSUME NEW i \in Bad PROVE i # 0 /\ i - 1 \in Bad
      <3> HIDE DEF d
      <3>1. i # 0
        <4> HIDE DEF A, base
        <4> QED BY <1>6, <1>11, <2>1
      <3>2. i \in 1..n /\ i - 1 \in 0..n
        BY <3>1
      <3>3. d[i] = Drawn(d[i - 1], curve[i])
        <4> HIDE DEF Drawn
        <4> QED BY <1>12, <3>2
      <3> HIDE DEF Drawn, A
      <3> QED BY <1>5, <2>1, <3>1, <3>2, <3>3
    <2>2. Bad = {}
      <3>1. Bad \subseteq 0..n
        OBVIOUS
      <3> HIDE DEF Bad
      <3> QED BY <2>1, <3>1, NoLeast
    <2> HIDE DEF d, A
    <2> QED BY <2>2
  <1>14. d[n] = it[S]
    OBVIOUS
  <1> HIDE DEF d
  <1>15. DrawnDown(n, curve, d)
    <2>1. \A k \in 0..n : d[k].peak \in Int /\ d[k].worst \in Int
      BY <1>13
    <2> QED BY <1>11, <1>12, <2>1 DEF DrawnDown
  <1> QED BY <1>2, <1>14, <1>15

\* The drawdown of the report is the worst fall from a point of the curve to a
\* later one, or nothing when it never falls.
LEMMA DrawdownIsWorstFall ==
    ASSUME NEW curve \in Seq(Int)
    PROVE  MaxDrawdown(curve) = Max({0} \cup UNION {{curve[i] - curve[j] : j \in i..Len(curve)} : i \in DOMAIN curve})
  <1>0. PICK n \in Nat : n = Len(curve)
    OBVIOUS
  <1>1. curve \in [1..n -> Int] /\ DOMAIN curve = 1..n
    BY <1>0
  <1> DEFINE Falls == {0} \cup UNION {{curve[i] - curve[j] : j \in i..n} : i \in 1..n}
  <1>2. PICK d : DrawnDown(n, curve, d) /\ MaxDrawdown(curve) = d[n].worst
    BY <1>1, DrawdownInSteps
  <1>3. /\ d[0].peak = (IF n = 0 THEN 0 ELSE curve[1]) /\ d[0].worst = 0
        /\ \A k \in 1..n : /\ d[k].peak = Max({d[k - 1].peak, curve[k]})
                           /\ d[k].worst = Max({d[k - 1].worst, d[k].peak - curve[k]})
        /\ \A k \in 0..n : d[k].peak \in Int /\ d[k].worst \in Int
    <2>1. d[0].peak = (IF n = 0 THEN 0 ELSE curve[1]) /\ d[0].worst = 0
      BY <1>2 DEF DrawnDown
    <2>2. \A k \in 1..n : LET peak == Max({d[k - 1].peak, curve[k]})
                          IN  d[k] = [peak |-> peak, worst |-> Max({d[k - 1].worst, peak - curve[k]})]
      BY <1>2 DEF DrawnDown
    <2>3. ASSUME NEW k \in 1..n
          PROVE  /\ d[k].peak = Max({d[k - 1].peak, curve[k]})
                 /\ d[k].worst = Max({d[k - 1].worst, d[k].peak - curve[k]})
      <3> DEFINE peak == Max({d[k - 1].peak, curve[k]})
      <3>1. d[k] = [peak |-> peak, worst |-> Max({d[k - 1].worst, peak - curve[k]})]
        BY <2>2
      <3> HIDE DEF peak
      <3>2. d[k].peak = peak /\ d[k].worst = Max({d[k - 1].worst, peak - curve[k]})
        BY <3>1
      <3> QED BY <3>2 DEF peak
    <2>4. \A k \in 0..n : d[k].peak \in Int /\ d[k].worst \in Int
      BY <1>2 DEF DrawnDown
    <2> QED BY <2>1, <2>3, <2>4
  <1>4. ASSUME NEW k \in 1..n
        PROVE  /\ curve[k] \in Int
               /\ d[k].peak = IF d[k - 1].peak <= curve[k] THEN curve[k] ELSE d[k - 1].peak
               /\ d[k].worst = IF d[k - 1].worst <= d[k].peak - curve[k] THEN d[k].peak - curve[k] ELSE d[k - 1].worst
    <2>1. k - 1 \in 0..n /\ k \in 0..n /\ curve[k] \in Int
      BY <1>1
    <2>2. d[k - 1].peak \in Int /\ d[k - 1].worst \in Int /\ d[k].peak \in Int
      BY <1>3, <2>1
    <2>3. d[k].peak - curve[k] \in Int
      BY <2>1, <2>2
    <2>4. Max({d[k - 1].peak, curve[k]}) = IF d[k - 1].peak <= curve[k] THEN curve[k] ELSE d[k - 1].peak
      BY <2>1, <2>2, GreatestOfTwo
    <2>5. Max({d[k - 1].worst, d[k].peak - curve[k]})
            = IF d[k - 1].worst <= d[k].peak - curve[k] THEN d[k].peak - curve[k] ELSE d[k - 1].worst
      BY <2>2, <2>3, GreatestOfTwo
    <2> QED BY <1>3, <2>1, <2>4, <2>5
  \* The peak is a point so far, and none so far is higher; the worst is a fall
  \* so far, and none so far is deeper.
  <1> DEFINE Peak(k) == /\ \E i \in 1..n : (i <= k \/ i = 1) /\ d[k].peak = curve[i]
                        /\ \A i \in 1..k : curve[i] <= d[k].peak
             Deepest(k) == /\ d[k].worst = 0 \/ \E i \in 1..n, j \in 1..n : i <= j /\ d[k].worst = curve[i] - curve[j]
                          /\ 0 <= d[k].worst
                          /\ \A j \in 1..k : \A i \in 1..j : curve[i] - curve[j] <= d[k].worst
             Good(k) == n # 0 => Peak(k) /\ Deepest(k)
             Bad == {k \in 0..n : ~ Good(k)}
  <1>5. ASSUME NEW k \in Bad PROVE k # 0 /\ k - 1 \in Bad
    <2>1. Good(0)
      <3> SUFFICES ASSUME n # 0 PROVE Peak(0) /\ Deepest(0)
        OBVIOUS
      <3>1. 1 \in 1..n /\ d[0].peak = curve[1]
        BY <1>3
      <3>2. Peak(0)
        BY <3>1
      <3> QED BY <1>3, <3>2
    <2>2. k # 0
      <3> HIDE DEF Good
      <3> QED BY <1>5, <2>1
    <2>3. k \in 1..n /\ k - 1 \in 0..n
      BY <2>2
    <2>4. ASSUME Good(k - 1) PROVE Good(k)
      <3> HIDE DEF Peak, Deepest
      <3>1. Peak(k - 1) /\ Deepest(k - 1)
        BY <2>3, <2>4
      <3>2. d[k - 1].peak \in Int /\ d[k - 1].worst \in Int /\ d[k].peak \in Int /\ d[k].worst \in Int
            /\ \A i \in 1..n : curve[i] \in Int
        BY <1>1, <1>3, <2>3
      <3>3. Peak(k)
        <4>1. \E i \in 1..n : (i <= k \/ i = 1) /\ d[k].peak = curve[i]
          BY <1>4, <2>3, <3>1 DEF Peak
        <4>2. ASSUME NEW i \in 1..k PROVE curve[i] <= d[k].peak
          <5>1. CASE i = k
            BY <1>4, <2>3, <3>2, <5>1
          <5>2. CASE i # k
            <6>1. i \in 1..(k - 1) /\ i \in 1..n
              BY <2>3, <5>2
            <6>2. curve[i] <= d[k - 1].peak
              BY <3>1, <6>1 DEF Peak
            <6>3. curve[i] \in Int /\ curve[k] \in Int
              BY <2>3, <3>2, <6>1
            <6>4. d[k].peak = IF d[k - 1].peak <= curve[k] THEN curve[k] ELSE d[k - 1].peak
              BY <1>4, <2>3
            <6> QED BY <3>2, <6>2, <6>3, <6>4
          <5> QED BY <5>1, <5>2
        <4> QED BY <4>1, <4>2 DEF Peak
      <3>4. Deepest(k)
        <4>1. PICK i \in 1..n : (i <= k \/ i = 1) /\ d[k].peak = curve[i]
          BY <3>3 DEF Peak
        <4>2. i <= k
          BY <2>3, <4>1
        <4>3. d[k].worst = 0 \/ \E a \in 1..n, b \in 1..n : a <= b /\ d[k].worst = curve[a] - curve[b]
          <5>1. CASE d[k - 1].worst <= d[k].peak - curve[k]
            <6>1. d[k].worst = curve[i] - curve[k]
              BY <1>4, <2>3, <4>1, <5>1
            <6> QED BY <2>3, <4>2, <6>1
          <5>2. CASE ~ (d[k - 1].worst <= d[k].peak - curve[k])
            <6>1. d[k].worst = d[k - 1].worst
              BY <1>4, <2>3, <5>2
            <6> QED BY <3>1, <6>1 DEF Deepest
          <5> QED BY <5>1, <5>2
        <4>4. d[k - 1].worst <= d[k].worst /\ d[k].peak - curve[k] <= d[k].worst
          BY <1>4, <2>3, <3>2
        <4>5. 0 <= d[k].worst
          <5>1. 0 <= d[k - 1].worst
            BY <3>1 DEF Deepest
          <5> QED BY <3>2, <4>4, <5>1
        <4>6. ASSUME NEW j \in 1..k, NEW a \in 1..j PROVE curve[a] - curve[j] <= d[k].worst
          <5>0. a \in 1..n /\ j \in 1..n /\ curve[a] \in Int /\ curve[j] \in Int
            BY <2>3, <3>2
          <5>1. CASE j = k
            <6>1. curve[a] <= d[k].peak
              BY <3>3, <5>1 DEF Peak
            <6> QED BY <3>2, <4>4, <5>0, <5>1, <6>1
          <5>2. CASE j # k
            <6>1. j \in 1..(k - 1)
              BY <2>3, <5>2
            <6>2. curve[a] - curve[j] <= d[k - 1].worst
              BY <3>1, <6>1 DEF Deepest
            <6> QED BY <3>2, <4>4, <5>0, <6>2, SMTT(30)
          <5> QED BY <5>1, <5>2
        <4> QED BY <4>3, <4>5, <4>6 DEF Deepest
      <3> QED BY <3>3, <3>4
    <2> HIDE DEF Good
    <2> QED BY <1>5, <2>2, <2>3, <2>4
  <1>6. Bad = {}
    <2>1. Bad \subseteq 0..n
      OBVIOUS
    <2> HIDE DEF Bad
    <2> QED BY <1>5, <2>1, NoLeast
  <1>7. Good(n)
    <2> HIDE DEF Good
    <2> QED BY <1>6
  <1>8. d[n].worst \in Int
    BY <1>3
  <1>9. d[n].worst \in Falls /\ \A x \in Falls : x <= d[n].worst
    <2>1. CASE n = 0
      <3>1. Falls = {0}
        BY <2>1
      <3> HIDE DEF Falls
      <3> QED BY <1>3, <2>1, <3>1
    <2>2. CASE n # 0
      <3>1. Deepest(n)
        <4> HIDE DEF Deepest, Peak
        <4> QED BY <1>7, <2>2
      <3>2. d[n].worst \in Falls
        <4>1. CASE d[n].worst = 0
          BY <4>1
        <4>2. ASSUME NEW i \in 1..n, NEW j \in 1..n, i <= j, d[n].worst = curve[i] - curve[j]
              PROVE  d[n].worst \in Falls
          <5>1. j \in i..n
            BY <4>2
          <5>2. d[n].worst \in {curve[i] - curve[b] : b \in i..n}
            BY <4>2, <5>1
          <5> QED BY <5>2
        <4> HIDE DEF Falls
        <4> QED BY <3>1, <4>1, <4>2
      <3>3. ASSUME NEW x \in Falls PROVE x <= d[n].worst
        <4>1. CASE x = 0
          BY <3>1, <4>1
        <4>2. CASE x # 0
          <5>0. PICK i \in 1..n : \E j \in i..n : x = curve[i] - curve[j]
            BY <4>2
          <5>1. PICK j \in i..n : x = curve[i] - curve[j]
            BY <5>0
          <5>2. j \in 1..n /\ i \in 1..j
            BY <5>1
          <5> QED BY <3>1, <5>1, <5>2
        <4> QED BY <4>1, <4>2
      <3> QED BY <3>2, <3>3
    <2> QED BY <2>1, <2>2
  <1>10. Falls \subseteq Int
    <2>1. ASSUME NEW i \in 1..n, NEW j \in i..n PROVE curve[i] - curve[j] \in Int
      BY <1>1
    <2> QED BY <2>1
  <1>11. Max(Falls) = d[n].worst
    <2> HIDE DEF Falls
    <2>1. Max(Falls) \in Falls /\ \A x \in Falls : x <= Max(Falls)
      BY <1>8, <1>9, <1>10, GreatestOfBounded
    <2>2. Max(Falls) \in Int
      BY <1>10, <2>1
    <2> QED BY <1>8, <1>9, <2>1, <2>2
  <1> QED BY <1>0, <1>1, <1>2, <1>11

\* Closed trades and what they brought
Closed(n, ts, f) ==
    /\ ts \in Seq(Trades) /\ Len(ts) = n
    /\ f \in [1..n -> Int] /\ \A i \in 1..n : ts[i].pnl = f[i] /\ ts[i].pnl # None

LEMMA OnesAddUp ==
    ASSUME NEW n \in Nat
    PROVE  Total([i \in 1..n |-> 1]) = n
  <1>1. Cardinality(1..n) = n
    BY FS_Interval
  <1>2. Cardinality(1..n) = Total([i \in 1..n |-> IF i \in 1..n THEN 1 ELSE 0])
    BY CardinalityIsTotal
  <1>3. [i \in 1..n |-> IF i \in 1..n THEN 1 ELSE 0] = [i \in 1..n |-> 1]
    OBVIOUS
  <1> QED BY <1>1, <1>2, <1>3

\* Numbers of trades by a label come to the number of the trades.
LEMMA CountsAddUp ==
    ASSUME NEW n \in Nat, NEW V, IsFiniteSet(V), NEW val \in [1..n -> V], NEW g \in [V -> Nat],
           \A v \in V : g[v] = Cardinality({i \in 1..n : val[i] = v})
    PROVE  SumOver(g) = n
  <1> DEFINE w == [i \in 1..n |-> 1]
  <1>1. ASSUME NEW v \in V PROVE g[v] = Total([i \in 1..n |-> IF val[i] = v THEN w[i] ELSE 0])
    <2> DEFINE T == {i \in 1..n : val[i] = v}
    <2>1. Cardinality(T) = Total([i \in 1..n |-> IF i \in T THEN 1 ELSE 0])
      <3>1. T \in SUBSET (1..n)
        OBVIOUS
      <3> HIDE DEF T
      <3> QED BY <3>1, CardinalityIsTotal
    <2>2. [i \in 1..n |-> IF i \in T THEN 1 ELSE 0] = [i \in 1..n |-> IF val[i] = v THEN w[i] ELSE 0]
      OBVIOUS
    <2> QED BY <2>1, <2>2
  <1>2. w \in [1..n -> Int] /\ g \in [V -> Int]
    OBVIOUS
  <1>3. Total(w) = n
    BY OnesAddUp
  <1> HIDE DEF w
  <1>4. SumOver(g) = Total(w)
    <2>1. ByLabel(n, w, V, val, g)
      BY <1>1 DEF ByLabel
    <2> QED BY <1>2, <2>1, FibresAddUp
  <1> QED BY <1>3, <1>4

LEMMA BreakdownAddsUp ==
    ASSUME NEW n \in Nat, NEW ts, NEW f, Closed(n, ts, f), NEW field, NEW values, IsFiniteSet(values),
           \A i \in 1..n : ts[i][field] \in values, NEW g, g = Breakdown(ts, field, values)
    PROVE  /\ SumOver([v \in DOMAIN g |-> g[v].count]) = n
           /\ SumOver([v \in DOMAIN g |-> g[v].total]) = Total(f)
  <1> DEFINE val == [i \in 1..n |-> ts[i][field]]
             counts == [v \in DOMAIN g |-> g[v].count]
             totals == [v \in DOMAIN g |-> g[v].total]
             At(v) == {i \in 1..n : val[i] = v}
  <1>1. DOMAIN ts = 1..n /\ f \in [1..n -> Int] /\ \A i \in 1..n : ts[i].pnl = f[i] /\ ts[i].pnl # None
    BY DEF Closed
  <1>2. val \in [1..n -> values] /\ DOMAIN g = values
    BY DEF Breakdown
  <1>3. ASSUME NEW v \in values
        PROVE  /\ g[v].count = Cardinality(At(v))
               /\ g[v].total = MapThenSumSet(LAMBDA i : ts[i].pnl, At(v))
    <2>1. {i \in DOMAIN ts : ts[i][field] = v /\ ts[i].pnl # None} = At(v)
      BY <1>1
    <2>2. {i \in DOMAIN ts : ts[i][field] = v} = At(v)
      BY <1>1
    <2> HIDE DEF At
    <2>3. g[v].count = Cardinality({i \in DOMAIN ts : ts[i][field] = v})
      BY DEF Breakdown
    <2>4. g[v].total = MapThenSumSet(LAMBDA i : ts[i].pnl, {i \in DOMAIN ts : ts[i][field] = v /\ ts[i].pnl # None})
      BY DEF Breakdown
    <2> QED BY <2>1, <2>2, <2>3, <2>4
  <1>4. SumOver(counts) = n
    <2>1. ASSUME NEW v \in values PROVE counts[v] = Cardinality({i \in 1..n : val[i] = v}) /\ counts[v] \in Nat
      <3>1. counts[v] = Cardinality(At(v))
        <4> HIDE DEF At
        <4> QED BY <1>2, <1>3
      <3>2. At(v) \in SUBSET (1..n)
        OBVIOUS
      <3> HIDE DEF counts
      <3>3. Cardinality(At(v)) \in Nat
        <4> HIDE DEF At
        <4> QED BY <3>2, CardinalityIsTotal
      <3> QED BY <3>1, <3>3
    <2>2. counts \in [values -> Nat]
      BY <1>2, <2>1
    <2> HIDE DEF counts, val
    <2> QED BY <1>2, <2>1, <2>2, CountsAddUp
  <1>5. SumOver(totals) = Total(f)
    <2>1. ASSUME NEW v \in values
          PROVE  totals[v] = Total([i \in 1..n |-> IF val[i] = v THEN f[i] ELSE 0]) /\ totals[v] \in Int
      <3>1. totals[v] = MapThenSumSet(LAMBDA i : ts[i].pnl, At(v))
        <4> HIDE DEF At
        <4> QED BY <1>2, <1>3
      <3>2. At(v) \in SUBSET (1..n) /\ \A i \in At(v) : f[i] = ts[i].pnl
        BY <1>1
      <3>3. Only(n, At(v), f) = [i \in 1..n |-> IF val[i] = v THEN f[i] ELSE 0]
        BY DEF Only
      <3> HIDE DEF totals, At
      <3>4. /\ MapThenSumSet(LAMBDA i : ts[i].pnl, At(v)) = Total(Only(n, At(v), f))
            /\ Total(Only(n, At(v), f)) \in Int
        BY <1>1, <3>2, ResultsAddUp
      <3> HIDE DEF val
      <3> QED BY <3>1, <3>3, <3>4
    <2>2. totals \in [values -> Int]
      BY <1>2, <2>1
    <2> HIDE DEF totals, val
    <2>3. ByLabel(n, f, values, val, totals)
      BY <2>1 DEF ByLabel
    <2> QED BY <1>1, <1>2, <2>2, <2>3, FibresAddUp
  <1> QED BY <1>4, <1>5

LEMMA BucketBounds ==
    ASSUME NEW pnl \in Int, NEW risk \in Nat
    PROVE  Bucket(pnl, risk) \in -3..3
  <1> DEFINE a == 2 * risk
             b == 3 * risk
  <1>1. a \in Nat /\ b \in Nat /\ risk <= a /\ a <= b /\ -3 * risk = -b /\ -2 * risk = -a
    OBVIOUS
  <1> HIDE DEF a, b
  <1>2. \/ pnl <= -b \/ (-b < pnl /\ pnl <= -a) \/ (-a < pnl /\ pnl <= -risk) \/ (-risk < pnl /\ pnl < risk)
        \/ (risk <= pnl /\ pnl < a) \/ (a <= pnl /\ pnl < b) \/ pnl >= b
    BY <1>1
  <1> QED BY <1>1, <1>2 DEF Bucket, a, b

LEMMA DistributionAddsUp ==
    ASSUME NEW n \in Nat, NEW ts, NEW f, Closed(n, ts, f)
    PROVE  SumOver(RDistribution(ts)) = n
  <1> DEFINE V == -3..3
             val == [i \in 1..n |-> Bucket(f[i], ts[i].risk)]
             g == RDistribution(ts)
  <1>1. DOMAIN ts = 1..n /\ f \in [1..n -> Int] /\ \A i \in 1..n : ts[i].pnl = f[i] /\ ts[i].pnl # None
    BY DEF Closed
  <1>2. \A i \in 1..n : ts[i].risk \in Nat
    <2> SUFFICES ASSUME NEW i \in 1..n PROVE ts[i].risk \in Nat
      OBVIOUS
    <2>1. ts[i] \in Trades
      BY DEF Closed
    <2> QED BY <2>1 DEF Trades
  <1>3. val \in [1..n -> V]
    BY <1>1, <1>2, BucketBounds
  <1>4. IsFiniteSet(V)
    <2>1. -3 \in Int /\ 3 \in Int
      OBVIOUS
    <2> QED BY <2>1, FS_Interval
  <1>5. ASSUME NEW v \in V PROVE g[v] = Cardinality({i \in 1..n : val[i] = v}) /\ g[v] \in Nat
    <2>1. {i \in DOMAIN ts : ts[i].pnl # None /\ Bucket(ts[i].pnl, ts[i].risk) = v} = {i \in 1..n : val[i] = v}
      BY <1>1
    <2>2. g[v] = Cardinality({i \in DOMAIN ts : ts[i].pnl # None /\ Bucket(ts[i].pnl, ts[i].risk) = v})
      BY DEF RDistribution
    <2>3. Cardinality({i \in 1..n : val[i] = v}) \in Nat
      <3> HIDE DEF val
      <3> QED BY CardinalityIsTotal
    <2> HIDE DEF g, val
    <2> QED BY <2>1, <2>2, <2>3
  <1>6. DOMAIN g = V /\ g = [v \in V |-> g[v]]
    BY DEF RDistribution
  <1> HIDE DEF g, val
  <1>7. g \in [V -> Nat]
    BY <1>5, <1>6
  <1> HIDE DEF V
  <1> QED BY <1>3, <1>4, <1>5, <1>7, CountsAddUp DEF g

LEMMA CurveTyped ==
    ASSUME NEW n \in Nat, NEW ts, NEW f, Closed(n, ts, f)
    PROVE  EquityCurve(ts) \in Seq(Int)
  <1> DEFINE closed == {i \in DOMAIN ts : ts[i].pnl # None}
             At(k) == {i \in closed : Cardinality({j \in closed : Before(ts, j, i)}) < k}
             Point(k) == MapThenSumSet(LAMBDA i : ts[i].pnl, At(k))
  <1>1. DOMAIN ts = 1..n /\ f \in [1..n -> Int] /\ \A i \in 1..n : ts[i].pnl = f[i] /\ ts[i].pnl # None
    BY DEF Closed
  <1>2. closed = 1..n /\ Cardinality(1..n) = n
    BY <1>1, FS_Interval
  <1>3. ASSUME NEW k \in 1..n PROVE Point(k) \in Int
    <2>1. At(k) \in SUBSET (1..n) /\ \A i \in At(k) : f[i] = ts[i].pnl
      BY <1>1
    <2> HIDE DEF At
    <2>2. /\ MapThenSumSet(LAMBDA i : ts[i].pnl, At(k)) = Total(Only(n, At(k), f))
          /\ Total(Only(n, At(k), f)) \in Int
      BY <1>1, <2>1, ResultsAddUp
    <2> QED BY <2>2
  <1>4. EquityCurve(ts) = [k \in 1..Cardinality(closed) |-> Point(k)]
    BY DEF EquityCurve
  <1> HIDE DEF closed, Point
  <1>5. EquityCurve(ts) = [k \in 1..n |-> Point(k)]
    BY <1>2, <1>4
  <1> QED BY <1>3, <1>5

\* Winners, losers and the rest are all the trades.
LEMMA SignsAddUp ==
    ASSUME NEW n \in Nat, NEW f \in [1..n -> Int]
    PROVE  Cardinality({i \in 1..n : f[i] > 0}) + Cardinality({i \in 1..n : f[i] < 0})
                + Cardinality({i \in 1..n : f[i] = 0}) = n
  <1> DEFINE W == {i \in 1..n : f[i] > 0}
             L == {i \in 1..n : f[i] < 0}
             E == {i \in 1..n : f[i] = 0}
  <1>1. IsFiniteSet(1..n) /\ Cardinality(1..n) = n
    BY FS_Interval
  <1>2. W \in SUBSET (1..n) /\ L \in SUBSET (1..n) /\ E \in SUBSET (1..n)
    OBVIOUS
  <1>3. W \cap L = {} /\ (W \cup L) \cap E = {} /\ (W \cup L) \cup E = 1..n
    OBVIOUS
  <1> HIDE DEF W, L, E
  <1>4. IsFiniteSet(W) /\ IsFiniteSet(L) /\ IsFiniteSet(E) /\ IsFiniteSet(W \cup L)
        /\ Cardinality(W) \in Nat /\ Cardinality(L) \in Nat /\ Cardinality(E) \in Nat
        /\ Cardinality(W \cup L) \in Nat
    <2>1. W \cup L \in SUBSET (1..n)
      BY <1>2
    <2> QED BY <1>1, <1>2, <2>1, FS_Subset, FS_CardinalityType
  <1>5. Cardinality({}) = 0
    BY FS_EmptySet
  <1>6. Cardinality(W \cup L) = Cardinality(W) + Cardinality(L) - Cardinality(W \cap L)
    BY <1>4, FS_Union
  <1>7. Cardinality((W \cup L) \cup E) = Cardinality(W \cup L) + Cardinality(E) - Cardinality((W \cup L) \cap E)
    BY <1>4, FS_Union
  <1>10. Cardinality(W \cap L) = 0 /\ Cardinality((W \cup L) \cap E) = 0
    BY <1>3, <1>5
  <1>8. Cardinality(W \cup L) = Cardinality(W) + Cardinality(L)
    BY <1>4, <1>6, <1>10
  <1>9. n = Cardinality(W \cup L) + Cardinality(E)
    <2>1. Cardinality((W \cup L) \cup E) = n
      BY <1>1, <1>3
    <2> QED BY <1>4, <1>7, <1>10, <2>1
  <1> QED BY <1>4, <1>8, <1>9 DEF W, L, E

\* What the report of closed trades says
ReportSound(r, n, f) ==
    /\ n <= ListLimit => r.equity = Initial + Total(f)
    /\ r.wins + r.losses + r.breakeven = r.trades
    /\ SumOver(r.distribution) = r.trades
    /\ \A g \in r.groups : /\ SumOver([v \in DOMAIN g |-> g[v].count]) = r.trades
                           /\ SumOver([v \in DOMAIN g |-> g[v].total]) = r.equity - Initial
    /\ r.drawdown = Max({0} \cup UNION {{r.curve[i] - r.curve[j] : j \in i..Len(r.curve)} : i \in DOMAIN r.curve})

LEMMA ReportOfClosed ==
    ASSUME NEW n \in Nat, NEW ts, NEW f, Closed(n, ts, f), NEW r, r = ReportOf(ts)
    PROVE  ReportSound(r, n, f)
  <1>1. ListLimit \in Nat /\ Initial \in Int
    BY BacktestAssumption DEF BacktestAssumption
  <1>2. PICK m \in Nat : m = Min({n, ListLimit}) /\ m <= n /\ (n <= ListLimit => m = n)
    <2> DEFINE m == Min({n, ListLimit})
    <2>1. m \in {n, ListLimit} /\ m <= n /\ m <= ListLimit
      BY <1>1, LeastOfTwo
    <2> HIDE DEF m
    <2>2. m \in Nat /\ m <= n /\ (n <= ListLimit => m = n)
      BY <1>1, <2>1
    <2> QED BY <2>2 DEF m
  <1> DEFINE listed == Listed(ts)
             fl == [i \in 1..m |-> f[i]]
             results == [i \in DOMAIN listed |-> listed[i].pnl]
  <1>3. ts \in Seq(Trades) /\ Len(ts) = n /\ f \in [1..n -> Int]
        /\ \A i \in 1..n : ts[i].pnl = f[i] /\ ts[i].pnl # None
    BY DEF Closed
  <1>4. listed \in Seq(Trades) /\ Len(listed) = m /\ \A i \in 1..m : listed[i] = ts[i]
    <2>1. listed = SubSeq(ts, 1, m)
      BY <1>2, <1>3 DEF Listed
    <2>2. \A i \in 1..m : i \in 1..n /\ ts[i] \in Trades
      BY <1>2, <1>3
    <2>3. m - 1 + 1 = m /\ (1 <= m \/ m = 0) /\ 1 \in Int /\ m \in Int /\ \A i \in 1..m : 1 + i - 1 = i
      OBVIOUS
    <2>4. \A i \in 1..m : ts[i] \in Trades
      BY <2>2
    <2>5. /\ SubSeq(ts, 1, m) \in Seq(Trades)
          /\ Len(SubSeq(ts, 1, m)) = IF 1 <= m THEN m - 1 + 1 ELSE 0
          /\ \A i \in 1..(m - 1 + 1) : SubSeq(ts, 1, m)[i] = ts[1 + i - 1]
      BY <2>3, <2>4, SubSeqProperties
    <2> HIDE DEF listed
    <2> QED BY <2>1, <2>3, <2>5
  <1>5. Closed(m, listed, fl)
    <2>1. \A i \in 1..m : i \in 1..n
      BY <1>2
    <2>2. fl \in [1..m -> Int] /\ \A i \in 1..m : fl[i] = f[i]
      BY <1>3, <2>1
    <2> HIDE DEF fl, listed
    <2> QED BY <1>3, <1>4, <2>1, <2>2 DEF Closed
  <1> HIDE DEF listed
  <1>6. DOMAIN listed = 1..m /\ results = fl /\ fl \in [1..m -> Int]
    <2>1. DOMAIN listed = 1..m
      BY <1>4
    <2> HIDE DEF fl
    <2> QED BY <1>5, <2>1 DEF Closed
  <1>7. n <= ListLimit => fl = f
    BY <1>2, <1>3
  <1>8. /\ r.trades = m
        /\ r.wins = Cardinality({i \in 1..m : fl[i] > 0})
        /\ r.losses = Cardinality({i \in 1..m : fl[i] < 0})
        /\ r.breakeven = Cardinality({i \in 1..m : fl[i] = 0})
        /\ r.equity = Initial + Total(fl)
        /\ r.curve = EquityCurve(listed) /\ r.drawdown = MaxDrawdown(EquityCurve(listed))
        /\ r.distribution = RDistribution(listed)
        /\ r.groups = {SetupBreakdown(listed), SessionStats(listed), BandStats(listed)}
    <2> HIDE DEF fl
    <2>1. r = [trades |-> m, wins |-> Cardinality({i \in 1..m : fl[i] > 0}),
               losses |-> Cardinality({i \in 1..m : fl[i] < 0}),
               breakeven |-> Cardinality({i \in 1..m : fl[i] = 0}), equity |-> Initial + Total(fl),
               curve |-> EquityCurve(listed), drawdown |-> MaxDrawdown(EquityCurve(listed)),
               distribution |-> RDistribution(listed),
               groups |-> {SetupBreakdown(listed), SessionStats(listed), BandStats(listed)}]
      <3>1. DOMAIN fl = 1..m
        BY <1>6
      <3> QED BY <1>4, <1>6, <3>1 DEF ReportOf, listed
    <2> QED BY <2>1
  <1> HIDE DEF fl, results
  <1>9. r.wins + r.losses + r.breakeven = r.trades
    BY <1>6, <1>8, SignsAddUp
  <1>10. SumOver(r.distribution) = r.trades
    BY <1>5, <1>8, DistributionAddsUp
  <1>11. Total(fl) \in Int
    <2>1. Only(m, 1..m, fl) = fl
      BY <1>6 DEF Only
    <2>2. 1..m \in SUBSET (1..m)
      OBVIOUS
    <2>3. Total(Only(m, 1..m, fl)) \in Int
      BY <1>6, <2>2, TotalOfOnly
    <2> QED BY <2>1, <2>3
  <1>12. ASSUME NEW g \in r.groups
         PROVE  /\ SumOver([v \in DOMAIN g |-> g[v].count]) = r.trades
                /\ SumOver([v \in DOMAIN g |-> g[v].total]) = r.equity - Initial
    <2>1. ASSUME NEW i \in 1..m
          PROVE  listed[i]["type"] \in EntryTypes /\ listed[i]["session"] \in SessionNames /\ listed[i]["band"] \in ScoreBands
      <3>1. listed[i] \in Trades
        BY <1>4
      <3>2. \A b \in Shapes : b.type \in EntryTypes /\ b.session \in SessionNames /\ b.band \in ScoreBands
        BY BacktestAssumption DEF BacktestAssumption
      <3>3. /\ listed[i]["type"] \in {b.type : b \in Shapes} /\ listed[i]["session"] \in {b.session : b \in Shapes}
            /\ listed[i]["band"] \in {b.band : b \in Shapes}
        BY <3>1 DEF Trades
      <3> QED BY <3>2, <3>3
    <2>2. IsFiniteSet(EntryTypes) /\ IsFiniteSet(SessionNames) /\ IsFiniteSet(ScoreBands)
      <3>1. ASSUME NEW S, IsFiniteSet(S), NEW x PROVE IsFiniteSet(S \cup {x})
        BY <3>1, FS_AddElement
      <3>2. IsFiniteSet({"scout"}) /\ IsFiniteSet({"asia"}) /\ IsFiniteSet({"below"})
        BY FS_Singleton
      <3>3. IsFiniteSet(({"scout"} \cup {"reduced"}) \cup {"full"})
        BY <3>1, <3>2
      <3>4. IsFiniteSet(((({"asia"} \cup {"london"}) \cup {"ny"}) \cup {"overlap"}) \cup {"closed"})
        BY <3>1, <3>2
      <3>5. IsFiniteSet(((({"below"} \cup {"observe"}) \cup {"prepare"}) \cup {"reduced"}) \cup {"full"})
        BY <3>1, <3>2
      <3>6. EntryTypes = ({"scout"} \cup {"reduced"}) \cup {"full"}
        BY DEF EntryTypes
      <3>7. SessionNames = ((({"asia"} \cup {"london"}) \cup {"ny"}) \cup {"overlap"}) \cup {"closed"}
        BY DEF SessionNames
      <3>8. ScoreBands = ((({"below"} \cup {"observe"}) \cup {"prepare"}) \cup {"reduced"}) \cup {"full"}
        BY DEF ScoreBands
      <3> QED BY <3>3, <3>4, <3>5, <3>6, <3>7, <3>8
    <2>3. SumOver([v \in DOMAIN g |-> g[v].count]) = m /\ SumOver([v \in DOMAIN g |-> g[v].total]) = Total(fl)
      <3>1. CASE g = SetupBreakdown(listed)
        <4>1. g = Breakdown(listed, "type", EntryTypes)
          BY <3>1 DEF SetupBreakdown
        <4> QED BY <1>5, <2>1, <2>2, <4>1, BreakdownAddsUp
      <3>2. CASE g = SessionStats(listed)
        <4>1. g = Breakdown(listed, "session", SessionNames)
          BY <3>2 DEF SessionStats
        <4> QED BY <1>5, <2>1, <2>2, <4>1, BreakdownAddsUp
      <3>3. CASE g = BandStats(listed)
        <4>1. g = Breakdown(listed, "band", ScoreBands)
          BY <3>3 DEF BandStats
        <4> QED BY <1>5, <2>1, <2>2, <4>1, BreakdownAddsUp
      <3> QED BY <1>8, <3>1, <3>2, <3>3
    <2> QED BY <1>1, <1>8, <1>11, <2>3
  <1>13. r.drawdown = Max({0} \cup UNION {{r.curve[i] - r.curve[j] : j \in i..Len(r.curve)} : i \in DOMAIN r.curve})
    <2>1. r.curve \in Seq(Int) /\ r.drawdown = MaxDrawdown(r.curve)
      BY <1>5, <1>8, CurveTyped
    <2> QED BY <2>1, DrawdownIsWorstFall
  <1>14. n <= ListLimit => r.equity = Initial + Total(f)
    BY <1>7, <1>8
  <1> QED BY <1>9, <1>10, <1>12, <1>13, <1>14 DEF ReportSound

\* At the end nothing is open, and the report is that of the journal.
DoneInv == phase = "done" => DOMAIN open = {} /\ report = ReportOf(journal)

LEMMA DoneInvHolds == BacktestSpec => []DoneInv
  <1>1. BacktestInit => DoneInv
    BY DEF BacktestInit, DoneInv
  <1>2. DoneInv /\ TradesInv /\ [BacktestNext]_backtestVars => DoneInv'
    <2> SUFFICES ASSUME DoneInv, TradesInv, [BacktestNext]_backtestVars PROVE DoneInv'
      OBVIOUS
    <2>1. ASSUME NEW bar \in Shapes, NEW signal \in Sides \cup {None}, RunBar(bar, signal) PROVE DoneInv'
      BY <2>1 DEF RunBar, DoneInv
    <2>2. CASE Finish
      <3>1. PICK bar, walks : BooksLast(bar, walks)
        BY <2>2, FinishBooks
      <3>2. report' = ReportOf(journal')
        BY <2>2 DEF Finish
      <3>3. Book(bar, walks, None) /\ bar \in Shapes /\ DOMAIN walks = DOMAIN open
            /\ \A t \in DOMAIN open : walks[t] = Leaves(open[t], Signed(open[t].side, bar.close))
        BY <3>1 DEF BooksLast
      <3>4. ASSUME NEW t \in DOMAIN walks PROVE walks[t].exit # None
        <4>1. Signed(open[t].side, bar.close) \in Int
          BY <3>3, WorstToBest
        <4>2. walks[t].exit = Signed(open[t].side, bar.close)
          BY <3>3 DEF Leaves
        <4> QED BY <4>1, <4>2, PlanAssumption DEF PlanAssumption
      <3>5. DOMAIN open' = {}
        <4>1. DOMAIN open' = Staying(walks)
          BY <3>3, BookCloses
        <4> QED BY <3>4, <4>1 DEF Staying
      <3>6. report' = ReportOf(journal)'
        BY <3>2 DEF ReportOf
      <3> QED BY <3>5, <3>6 DEF DoneInv
    <2>3. CASE UNCHANGED backtestVars
      <3>1. UNCHANGED <<phase, open, journal, report>>
        BY <2>3 DEF backtestVars
      <3> QED BY <3>1 DEF DoneInv
    <2> QED BY <2>1, <2>2, <2>3 DEF BacktestNext
  <1> QED BY <1>1, <1>2, TradesInvHolds, PTL DEF BacktestSpec

\* Whatever the bars, the trades and the limit of the listing: the final equity
\* of the report is the balance of the paper account when the listing holds
\* every trade; winners, losers and the rest, the buckets of the distribution
\* and the groups by entry type, session and score band each come to all the
\* trades, the groups' results to the whole result; and the drawdown is the
\* worst fall between two points of the equity curve (engine.py: _build_result;
\* queries.py).
THEOREM BacktestReportAddsUp == BacktestSpec => []ReportAddsUp
  <1>1. DoneInv /\ BalanceInv /\ TradesInv => ReportAddsUp
    <2> SUFFICES ASSUME DoneInv, BalanceInv, TradesInv, phase = "done" PROVE ReportAddsUp
      BY DEF ReportAddsUp
    <2>1. PICK n \in Nat : n = Len(journal) /\ DOMAIN journal = 1..n
      BY DEF TradesInv
    <2> DEFINE f == [t \in 1..n |-> journal[t].pnl]
    <2>2. DOMAIN open = {} /\ report = ReportOf(journal) /\ journal \in Seq(Trades)
      BY DEF DoneInv, TradesInv
    <2>3. ASSUME NEW t \in 1..n PROVE journal[t].pnl # None /\ journal[t].pnl \in Int
      <3>1. journal[t].pnl # None
        BY <2>1, <2>2 DEF BalanceInv, BalanceIsBooked
      <3>2. journal[t] \in Trades
        BY <2>1, <2>2
      <3> QED BY <3>1, <3>2 DEF Trades, Level
    <2>4. Closed(n, journal, f)
      BY <2>1, <2>2, <2>3 DEF Closed
    <2>5. balance - Initial = Total(f) /\ balance \in Int /\ Initial \in Int
      <3>1. [t \in DOMAIN journal |-> IF journal[t].pnl = None THEN open[t].realized ELSE journal[t].pnl] = f
        BY <2>1, <2>3
      <3> HIDE DEF f
      <3> QED BY <3>1, BacktestAssumption DEF BalanceInv, BalanceIsBooked, BacktestAssumption
    <2> HIDE DEF f
    <2>6. ReportSound(report, n, f)
      BY <2>2, <2>4, ReportOfClosed
    <2>7. Len(journal) <= ListLimit => report.equity = balance
      BY <2>1, <2>5, <2>6 DEF ReportSound
    <2> QED BY <2>6, <2>7 DEF ReportSound, ReportAddsUp
  <1> QED BY <1>1, DoneInvHolds, BalanceInvHolds, TradesInvHolds, PTL

-----------------------------------------------------------------------------
\* The calendar of the walk-forward run

\* Years have 365 days, leap years one more.
LEMMA YearStep ==
    ASSUME NEW y \in Int
    PROVE  /\ YearStart(y) \in Int
           /\ YearStart(y + 1) = YearStart(y) + (IF Leap(y) THEN 366 ELSE 365)
  BY DEF YearStart, Leap

\* Months follow each other.
LEMMA MonthStep ==
    ASSUME NEW m \in Int
    PROVE  /\ MonthStart[m] \in Int /\ MonthLength[m] \in 28..31
           /\ MonthStart[m + 1] = MonthStart[m] + MonthLength[m]
  <1> DEFINE y == m \div 12
             r == m % 12
             days == <<0, 31, 59, 90, 120, 151, 181, 212, 243, 273, 304, 334>>
  <1>1. y \in Int /\ r \in 0..11 /\ m = 12 * y + r
    OBVIOUS
  <1>2. /\ MonthStart[m] = YearStart(y) + days[r + 1] + (IF Leap(y) /\ r > 1 THEN 1 ELSE 0)
        /\ MonthLength[m] = IF r = 1 THEN (IF Leap(y) THEN 29 ELSE 28)
                            ELSE IF r \in {3, 5, 8, 10} THEN 30 ELSE 31
    BY DEF MonthStart, MonthLength
  <1>3. MonthStart[m + 1] = YearStart((m + 1) \div 12) + days[((m + 1) % 12) + 1]
                                + (IF Leap((m + 1) \div 12) /\ (m + 1) % 12 > 1 THEN 1 ELSE 0)
    BY DEF MonthStart
  <1>4. YearStart(y) \in Int /\ YearStart(y + 1) = YearStart(y) + (IF Leap(y) THEN 366 ELSE 365)
    BY <1>1, YearStep
  <1> HIDE DEF y, r
  <1>5. CASE r = 11
    <2>1. (m + 1) \div 12 = y + 1 /\ (m + 1) % 12 = 0
      BY <1>1, <1>5
    <2> QED BY <1>1, <1>2, <1>3, <1>4, <1>5, <2>1
  <1>6. CASE r # 11
    <2>1. (m + 1) \div 12 = y /\ (m + 1) % 12 = r + 1
      BY <1>1, <1>6
    <2>2. r \in {0, 1, 2, 3, 4, 5, 6, 7, 8, 9, 10}
      BY <1>1, <1>6
    <2>3. days[r + 1] \in Int /\ days[r + 2] - days[r + 1] = (IF r = 1 THEN 28 ELSE IF r \in {3, 5, 8, 10} THEN 30 ELSE 31)
      BY <2>2
    <2> HIDE DEF days
    <2>4. MonthStart[m + 1] = YearStart(y) + days[r + 2] + (IF Leap(y) /\ r + 1 > 1 THEN 1 ELSE 0)
      <3>1. (r + 1) + 1 = r + 2
        BY <1>1
      <3> QED BY <1>3, <2>1, <3>1
    <2>5. days[r + 2] \in Int /\ YearStart(y) \in Int
      BY <1>4, <2>2 DEF days
    <2>6. CASE r = 1
      BY <1>2, <2>3, <2>4, <2>5, <2>6
    <2>7. CASE r = 0
      BY <1>2, <2>3, <2>4, <2>5, <2>7
    <2>8. CASE r > 1
      BY <1>2, <2>2, <2>3, <2>4, <2>5, <2>8
    <2> QED BY <2>2, <2>6, <2>7, <2>8
  <1> QED BY <1>5, <1>6

\* Days separate months.
LEMMA MonthsApart ==
    ASSUME NEW a \in Int, NEW n \in Nat
    PROVE  MonthStart[a + n] >= MonthStart[a] + 28 * n
  <1> DEFINE Bad == {k \in 0..n : ~ (MonthStart[a + k] >= MonthStart[a] + 28 * k)}
  <1>1. ASSUME NEW k \in Bad PROVE k # 0 /\ k - 1 \in Bad
    <2>1. k # 0
      BY MonthStep
    <2>2. /\ MonthStart[a] \in Int /\ MonthStart[a + (k - 1)] \in Int
          /\ MonthLength[a + (k - 1)] \in 28..31
          /\ MonthStart[(a + (k - 1)) + 1] = MonthStart[a + (k - 1)] + MonthLength[a + (k - 1)]
      BY MonthStep
    <2>3. (a + (k - 1)) + 1 = a + k
      OBVIOUS
    <2> QED BY <2>1, <2>2, <2>3
  <1>2. Bad = {}
    <2> HIDE DEF Bad
    <2>1. Bad \subseteq 0..n
      BY DEF Bad
    <2> QED BY <1>1, <2>1, NoLeast
  <1> QED BY <1>2

\* A month lies in its year, and years have 365 or 366 days.
LEMMA MonthInYear ==
    ASSUME NEW m \in Nat
    PROVE  365 * (m \div 12) <= MonthStart[m] /\ MonthStart[m + 1] <= 366 * (m \div 12 + 1)
  <1> DEFINE y == m \div 12
  <1>1. y \in Nat /\ m = 12 * y + (m % 12) /\ m % 12 \in 0..11
    OBVIOUS
  <1>2. MonthStart[12 * y] = YearStart(y) /\ MonthStart[12 * (y + 1)] = YearStart(y + 1)
    <2>1. ASSUME NEW x \in Int PROVE MonthStart[12 * x] = YearStart(x)
      <3>1. (12 * x) \div 12 = x /\ (12 * x) % 12 = 0 /\ 12 * x \in Int
        OBVIOUS
      <3>2. YearStart(x) \in Int
        BY YearStep
      <3> QED BY <3>1, <3>2 DEF MonthStart
    <2> QED BY <1>1, <2>1
  <1>3. 365 * y <= YearStart(y) /\ YearStart(y + 1) <= 366 * (y + 1)
    BY <1>1 DEF YearStart
  <1> HIDE DEF y
  <1>4. MonthStart[m] >= MonthStart[12 * y]
    <2> DEFINE n == m - 12 * y
    <2>1. n \in Nat /\ 12 * y + n = m /\ 12 * y \in Int
      BY <1>1
    <2> HIDE DEF n
    <2>2. MonthStart[12 * y + n] >= MonthStart[12 * y] + 28 * n
      BY <2>1, MonthsApart
    <2> QED BY <2>1, <2>2, MonthStep
  <1>5. MonthStart[12 * (y + 1)] >= MonthStart[m + 1]
    <2> DEFINE n == 12 * (y + 1) - (m + 1)
    <2>1. n \in Nat /\ (m + 1) + n = 12 * (y + 1) /\ m + 1 \in Int
      BY <1>1
    <2> HIDE DEF n
    <2>2. MonthStart[(m + 1) + n] >= MonthStart[m + 1] + 28 * n
      BY <2>1, MonthsApart
    <2> QED BY <2>1, <2>2, MonthStep
  <1>6. /\ MonthStart[m] \in Int /\ MonthStart[m + 1] \in Int /\ YearStart(y) \in Int /\ YearStart(y + 1) \in Int
    <2>1. y \in Int /\ y + 1 \in Int /\ m + 1 \in Int
      BY <1>1
    <2>2. MonthStart[m] \in Int /\ MonthStart[m + 1] \in Int
      BY <2>1, MonthStep
    <2>3. YearStart(y) \in Int /\ YearStart(y + 1) \in Int
      BY <2>1, YearStep
    <2> QED BY <2>2, <2>3
  <1> QED BY <1>1, <1>2, <1>3, <1>4, <1>5, <1>6 DEF y

\* No day is in two months, and MonthOf is the one it is in.
LEMMA OneMonth ==
    ASSUME NEW t \in Nat, NEW m \in Nat, MonthStart[m] <= t, t < MonthStart[m + 1]
    PROVE  MonthOf[t] = m
  <1> DEFINE In(k) == MonthStart[k] <= t /\ t < MonthStart[k + 1]
  <1>1. m \in 12 * (t \div 366) .. 12 * (t \div 365) + 11
    <2> DEFINE y == m \div 12
    <2>1. y \in Nat /\ 12 * y <= m /\ m <= 12 * y + 11
      OBVIOUS
    <2>2. 365 * y <= t /\ t < 366 * (y + 1)
      <3>1. 365 * y <= MonthStart[m] /\ MonthStart[m + 1] <= 366 * (y + 1)
        BY MonthInYear
      <3>2. MonthStart[m] \in Int /\ MonthStart[m + 1] \in Int
        BY MonthStep
      <3> HIDE DEF y
      <3> QED BY <2>1, <3>1, <3>2
    <2> HIDE DEF y
    <2>3. y <= t \div 365 /\ t \div 366 <= y
      BY <2>1, <2>2
    <2> QED BY <2>1, <2>3
  <1>2. ASSUME NEW j \in Int, NEW k \in Int, In(j), In(k), j < k PROVE FALSE
    <2> DEFINE n == k - (j + 1)
    <2>1. n \in Nat /\ (j + 1) + n = k /\ j + 1 \in Int
      BY <1>2
    <2> HIDE DEF n
    <2>2. MonthStart[(j + 1) + n] >= MonthStart[j + 1] + 28 * n
      BY <2>1, MonthsApart
    <2>3. MonthStart[k] \in Int /\ MonthStart[j + 1] \in Int
      BY <2>1, MonthStep
    <2> QED BY <1>2, <2>1, <2>2, <2>3
  <1>3. MonthOf[t] = CHOOSE k \in 12 * (t \div 366) .. 12 * (t \div 365) + 11 : In(k)
    BY DEF MonthOf
  <1>4. In(m)
    OBVIOUS
  <1>5. \A k \in 12 * (t \div 366) .. 12 * (t \div 365) + 11 : In(k) => k = m
    <2> HIDE DEF In
    <2> QED BY <1>2, <1>4
  <1> HIDE DEF In
  <1> QED BY <1>1, <1>3, <1>4, <1>5

\* Every day is in a month, and has a place in it.
LEMMA EveryDayHasAMonth ==
    ASSUME NEW t \in Nat
    PROVE  /\ MonthOf[t] \in Nat /\ MonthStart[MonthOf[t]] <= t /\ t < MonthStart[MonthOf[t] + 1]
           /\ DayOf[t] \in 1..MonthLength[MonthOf[t]]
           /\ t = MonthStart[MonthOf[t]] + DayOf[t] - 1
  <1>0. MonthStart[0] = 0
    BY DEF MonthStart, YearStart
  <1>1. \E m \in 0..t : MonthStart[m] <= t /\ t < MonthStart[m + 1]
    <2> SUFFICES ASSUME \A m \in 0..t : MonthStart[m] <= t => MonthStart[m + 1] <= t PROVE FALSE
      BY MonthStep
    <2> DEFINE Beyond == {m \in 0..t : ~ (MonthStart[m] <= t)}
    <2>1. ASSUME NEW k \in Beyond PROVE k # 0 /\ k - 1 \in Beyond
      <3>1. k # 0
        BY <1>0
      <3>2. k - 1 \in 0..t /\ (k - 1) + 1 = k
        BY <3>1
      <3> QED BY <3>1, <3>2
    <2>2. Beyond = {}
      <3> HIDE DEF Beyond
      <3>1. Beyond \subseteq 0..t
        BY DEF Beyond
      <3> QED BY <2>1, <3>1, NoLeast
    <2>3. MonthStart[t + 1] <= t
      BY <2>2
    <2>4. MonthStart[0 + (t + 1)] >= MonthStart[0] + 28 * (t + 1)
      <3>1. 0 \in Int /\ t + 1 \in Nat
        OBVIOUS
      <3> QED BY <3>1, MonthsApart
    <2>5. MonthStart[t + 1] >= 28 * (t + 1) /\ MonthStart[t + 1] \in Int
      BY <1>0, <2>4, MonthStep
    <2> QED BY <2>3, <2>5
  <1>2. PICK m \in 0..t : MonthStart[m] <= t /\ t < MonthStart[m + 1]
    BY <1>1
  <1>3. MonthOf[t] = m
    BY <1>2, OneMonth
  <1>4. DayOf[t] = t - MonthStart[m] + 1
    BY <1>3 DEF DayOf
  <1>5. MonthStart[m] \in Int /\ MonthLength[m] \in 28..31 /\ MonthStart[m + 1] = MonthStart[m] + MonthLength[m]
    BY MonthStep
  <1> QED BY <1>2, <1>3, <1>4, <1>5

\* Adding months lands in the month counted, on the day or the last before it.
LEMMA MonthsAdded ==
    ASSUME NEW t \in Nat, NEW n \in Nat
    PROVE  /\ AddMonths(t, n) \in Nat /\ MonthOf[AddMonths(t, n)] = MonthOf[t] + n
           /\ DayOf[AddMonths(t, n)] = IF DayOf[t] <= MonthLength[MonthOf[t] + n] THEN DayOf[t]
                                       ELSE MonthLength[MonthOf[t] + n]
           /\ n > 0 => AddMonths(t, n) > t
  <1> DEFINE m == MonthOf[t]
             d == IF DayOf[t] <= MonthLength[m + n] THEN DayOf[t] ELSE MonthLength[m + n]
             u == AddMonths(t, n)
  <1>1. /\ m \in Nat /\ MonthStart[m] <= t /\ t < MonthStart[m + 1] /\ DayOf[t] \in 1..MonthLength[m]
    BY EveryDayHasAMonth
  <1>2. u = MonthStart[m + n] + d - 1
    BY DEF AddMonths
  <1>3. /\ MonthStart[m + n] \in Int /\ MonthLength[m + n] \in 28..31 /\ MonthLength[m] \in 28..31
        /\ MonthStart[(m + n) + 1] = MonthStart[m + n] + MonthLength[m + n]
        /\ MonthStart[m] \in Int /\ MonthStart[m + 1] \in Int
    BY <1>1, MonthStep
  <1>4. d \in 1..MonthLength[m + n]
    BY <1>1, <1>3
  <1>5. MonthStart[m + n] >= 0 /\ m + n \in Nat
    <2>1. MonthStart[0] = 0
      BY DEF MonthStart, YearStart
    <2>2. MonthStart[0 + (m + n)] >= MonthStart[0] + 28 * (m + n)
      <3>1. 0 \in Int /\ m + n \in Nat
        BY <1>1
      <3> QED BY <3>1, MonthsApart
    <2> QED BY <1>1, <1>3, <2>1, <2>2
  <1> HIDE DEF d
  <1>6. u \in Nat /\ MonthStart[m + n] <= u /\ u < MonthStart[(m + n) + 1]
    BY <1>2, <1>3, <1>4, <1>5
  <1>7. MonthOf[u] = m + n
    BY <1>5, <1>6, OneMonth
  <1>8. DayOf[u] = d
    <2>1. DayOf[u] = u - MonthStart[MonthOf[u]] + 1
      BY <1>6 DEF DayOf
    <2> QED BY <1>2, <1>3, <1>4, <1>7, <2>1
  <1>9. ASSUME n > 0 PROVE u > t
    <2> DEFINE k == n - 1
    <2>1. k \in Nat /\ (m + 1) + k = m + n /\ m + 1 \in Int
      BY <1>1, <1>9
    <2> HIDE DEF k
    <2>2. MonthStart[(m + 1) + k] >= MonthStart[m + 1] + 28 * k
      BY <2>1, MonthsApart
    <2> QED BY <1>1, <1>3, <1>6, <2>1, <2>2
  <1> QED BY <1>6, <1>7, <1>8, <1>9 DEF d
-----------------------------------------------------------------------------
\* The loop

\* No length is zero, whatever was left to its default.
LEMMA LengthsArePositive ==
    ASSUME NEW r \in Runs
    PROVE  /\ Lengths(r.knobs).in \in Nat \ {0} /\ Lengths(r.knobs).oos \in Nat \ {0}
           /\ Lengths(r.knobs).step \in Nat \ {0} /\ r.start \in Nat /\ r.end \in Nat
  <1>1. /\ r.knobs.days \in Parts \cup {None} /\ r.knobs.months \in Parts \cup {None}
        /\ r.start \in Nat /\ r.end \in Nat
    BY RunsAssumption
  <1>2. ASSUME NEW k \in Parts
        PROVE  Knobs(k).in \in Nat \ {0} /\ Knobs(k).oos \in Nat \ {0} /\ Knobs(k).step \in Nat \ {0}
    <2>1. k.in \in Nat \ {0} /\ k.oos \in Nat \cup {None} /\ k.step \in Nat \cup {None}
      BY DEF Parts
    <2>2. k.in \div 4 \in Nat
      BY <2>1
    <2>3. ASSUME NEW x \in Nat \cup {None}, NEW d \in Nat
          PROVE  Or(x, d) \in Nat /\ (d # 0 => Or(x, d) # 0)
      BY DEF Or
    <2>4. Or(k.oos, k.in \div 4) \in Nat /\ Or(k.step, k.in \div 4) \in Nat
      BY <2>1, <2>2, <2>3
    <2>5. Or(Or(k.oos, k.in \div 4), 1) \in Nat \ {0} /\ Or(Or(k.step, k.in \div 4), 1) \in Nat \ {0}
      <3>1. ASSUME NEW x \in Nat PROVE Or(x, 1) \in Nat \ {0}
        BY DEF Or
      <3> QED BY <2>4, <3>1
    <2> QED BY <2>1, <2>5 DEF Knobs
  <1>3. CASE InDays(r.knobs)
    BY <1>1, <1>2, <1>3 DEF Lengths, InDays
  <1>4. CASE ~ InDays(r.knobs)
    BY <1>1, <1>2, <1>4 DEF Lengths, InDays, DefaultMonths
  <1> QED BY <1>1, <1>3, <1>4

\* Whatever the unit, adding moves on.
LEMMA LaterMovesOn ==
    ASSUME NEW k, NEW t \in Nat, NEW n \in Nat \ {0}
    PROVE  Later(k, t, n) \in Nat /\ Later(k, t, n) > t
  BY MonthsAdded DEF Later

\* On a day every month has, the months just count.
Plain(k, t) == InDays(k) \/ DayOf[t] <= 28

\* Such a day stays the same day.
LEMMA PlainStays ==
    ASSUME NEW k, NEW t \in Nat, NEW n \in Nat, Plain(k, t)
    PROVE  /\ Plain(k, Later(k, t, n))
           /\ ~ InDays(k) => DayOf[Later(k, t, n)] = DayOf[t] /\ MonthOf[Later(k, t, n)] = MonthOf[t] + n
  <1>1. CASE InDays(k)
    BY <1>1 DEF Plain
  <1>2. CASE ~ InDays(k)
    <2>1. Later(k, t, n) = AddMonths(t, n) /\ DayOf[t] <= 28
      BY <1>2 DEF Later, Plain
    <2>2. MonthOf[t] \in Nat /\ DayOf[t] \in 1..MonthLength[MonthOf[t]]
      BY EveryDayHasAMonth
    <2>3. MonthLength[MonthOf[t] + n] \in 28..31 /\ MonthLength[MonthOf[t]] \in 28..31
      BY <2>2, MonthStep
    <2>4. /\ MonthOf[AddMonths(t, n)] = MonthOf[t] + n
          /\ DayOf[AddMonths(t, n)] = IF DayOf[t] <= MonthLength[MonthOf[t] + n] THEN DayOf[t]
                                       ELSE MonthLength[MonthOf[t] + n]
      BY MonthsAdded
    <2>5. DayOf[AddMonths(t, n)] = DayOf[t]
      BY <2>1, <2>2, <2>3, <2>4
    <2> QED BY <2>1, <2>4, <2>5 DEF Plain
  <1> QED BY <1>1, <1>2

\* And their order does not matter.
LEMMA LaterCommutes ==
    ASSUME NEW k, NEW t \in Nat, NEW a \in Nat, NEW b \in Nat, Plain(k, t)
    PROVE  Later(k, Later(k, t, a), b) = Later(k, Later(k, t, b), a)
  <1>1. CASE InDays(k)
    BY <1>1 DEF Later
  <1>2. CASE ~ InDays(k)
    <2> DEFINE u == Later(k, Later(k, t, a), b)
               v == Later(k, Later(k, t, b), a)
    <2>1. ASSUME NEW x \in Nat, NEW n \in Nat PROVE Later(k, x, n) \in Nat
      BY <1>2, MonthsAdded DEF Later
    <2>2. Later(k, t, a) \in Nat /\ Later(k, t, b) \in Nat /\ u \in Nat /\ v \in Nat
      BY <2>1
    <2>3. Plain(k, Later(k, t, a)) /\ Plain(k, Later(k, t, b))
      BY PlainStays
    <2>4. DayOf[u] = DayOf[t] /\ MonthOf[u] = (MonthOf[t] + a) + b
      BY <1>2, <2>2, <2>3, PlainStays
    <2>5. DayOf[v] = DayOf[t] /\ MonthOf[v] = (MonthOf[t] + b) + a
      BY <1>2, <2>2, <2>3, PlainStays
    <2>6. MonthOf[u] = MonthOf[v]
      <3>1. MonthOf[t] \in Nat
        BY EveryDayHasAMonth
      <3> QED BY <2>4, <2>5, <3>1
    <2>7. u = MonthStart[MonthOf[u]] + DayOf[u] - 1 /\ v = MonthStart[MonthOf[v]] + DayOf[v] - 1
      <3> HIDE DEF u, v
      <3> QED BY <2>2, EveryDayHasAMonth
    <2> QED BY <2>4, <2>5, <2>6, <2>7
  <1> QED BY <1>1, <1>2

\* Each window is the one from its start, and starts one step after the one
\* before. A day every month has is kept from start to start.
Spans == Lengths(run.knobs)
Steady == Spans.step = Spans.oos /\ Plain(run.knobs, run.start)
WalkInv ==
    /\ run \in Runs /\ inStart \in Nat /\ run.start <= inStart
    /\ window # None \/ previous # None =>
        /\ window.from \in Nat /\ run.start <= window.from
        /\ window = WindowFrom(run.knobs, window.from) /\ window.to <= run.end
        /\ inStart = Later(run.knobs, window.from, Spans.step)
        /\ Plain(run.knobs, run.start) => Plain(run.knobs, window.from)
    /\ previous # None => window.from > previous.from
    /\ Steady /\ previous # None => window.oos = previous.to
    /\ Plain(run.knobs, run.start) => Plain(run.knobs, inStart)
    /\ ended => ~ Fits(NextWindow, run.end)

\* A window's parts lie one after the other, the months between them are as asked for.
LEMMA WindowShape ==
    ASSUME NEW r \in Runs, NEW t \in Nat
    PROVE  LET w == WindowFrom(r.knobs, t)
           IN  /\ w.from = t /\ w.oos \in Nat /\ w.to \in Nat /\ t < w.oos /\ w.oos < w.to
               /\ ~ InDays(r.knobs) => MonthOf[w.to] = MonthOf[t] + Lengths(r.knobs).in + Lengths(r.knobs).oos
  <1> DEFINE w == WindowFrom(r.knobs, t)
  <1>1. Lengths(r.knobs).in \in Nat \ {0} /\ Lengths(r.knobs).oos \in Nat \ {0}
    BY LengthsArePositive
  <1>2. /\ w.from = t /\ w.oos = Later(r.knobs, t, Lengths(r.knobs).in)
        /\ w.to = Later(r.knobs, w.oos, Lengths(r.knobs).oos)
    BY DEF WindowFrom
  <1> HIDE DEF w
  <1>3. w.oos \in Nat /\ t < w.oos
    BY <1>1, <1>2, LaterMovesOn
  <1>4. w.to \in Nat /\ w.oos < w.to
    BY <1>1, <1>2, <1>3, LaterMovesOn
  <1>5. ASSUME ~ InDays(r.knobs) PROVE MonthOf[w.to] = MonthOf[t] + Lengths(r.knobs).in + Lengths(r.knobs).oos
    <2>1. w.oos = AddMonths(t, Lengths(r.knobs).in) /\ w.to = AddMonths(w.oos, Lengths(r.knobs).oos)
      BY <1>2, <1>5 DEF Later
    <2>2. MonthOf[AddMonths(t, Lengths(r.knobs).in)] = MonthOf[t] + Lengths(r.knobs).in
      BY <1>1, MonthsAdded
    <2>3. MonthOf[AddMonths(w.oos, Lengths(r.knobs).oos)] = MonthOf[w.oos] + Lengths(r.knobs).oos
      BY <1>1, <1>3, MonthsAdded
    <2> QED BY <2>1, <2>2, <2>3
  <1> QED BY <1>2, <1>3, <1>4, <1>5 DEF w

\* A round of the loop keeps all that.
LEMMA WalkInvInductive == ASSUME WalkInv, [WalkNext]_walkVars PROVE WalkInv'
  <1> DEFINE k == run.knobs
  <1>0. /\ run \in Runs /\ inStart \in Nat /\ run.start <= inStart
    BY DEF WalkInv
  <1>1. /\ Spans.in \in Nat \ {0} /\ Spans.oos \in Nat \ {0} /\ Spans.step \in Nat \ {0}
        /\ run.start \in Nat /\ run.end \in Nat
    BY <1>0, LengthsArePositive DEF Spans
  <1>2. CASE TestWindow
    <2>1. /\ run' = run /\ ended' = ended /\ ~ ended /\ previous' = window /\ window' = WindowFrom(k, inStart)
          /\ inStart' = Later(k, inStart, Spans.step) /\ Fits(WindowFrom(k, inStart), run.end)
      BY <1>2 DEF TestWindow, NextWindow, Spans
    <2>2. /\ window'.from = inStart /\ window'.oos = Later(k, inStart, Spans.in)
          /\ window'.to = Later(k, window'.oos, Spans.oos) /\ window'.to <= run.end
      BY <2>1 DEF WindowFrom, Fits, Spans
    <2>3. inStart' \in Nat /\ inStart' > inStart
      BY <1>0, <1>1, <2>1, LaterMovesOn
    <2>4. ASSUME Plain(k, run.start) PROVE Plain(k, inStart) /\ Plain(k, inStart')
      <3>1. Plain(k, inStart)
        BY <2>4 DEF WalkInv
      <3> QED BY <1>0, <1>1, <2>1, <3>1, PlainStays
    <2>5. ASSUME window # None PROVE window'.from > window.from
      <3>1. window.from \in Nat /\ inStart = Later(k, window.from, Spans.step)
        BY <2>5 DEF WalkInv
      <3>2. inStart > window.from
        BY <1>1, <3>1, LaterMovesOn
      <3> QED BY <2>2, <3>2
    <2>6. ASSUME Steady, window # None PROVE window'.oos = window.to
      <3>1. /\ window.from \in Nat /\ inStart = Later(k, window.from, Spans.step) /\ Plain(k, window.from)
            /\ window = WindowFrom(k, window.from) /\ Spans.step = Spans.oos
        BY <2>6 DEF WalkInv, Steady
      <3>2. window.to = Later(k, Later(k, window.from, Spans.in), Spans.oos)
        BY <3>1 DEF WindowFrom, Spans
      <3>3. window'.oos = Later(k, Later(k, window.from, Spans.oos), Spans.in)
        BY <2>2, <3>1
      <3> QED BY <1>1, <3>1, <3>2, <3>3, LaterCommutes
    <2>7. window' = WindowFrom(k, window'.from)
      BY <2>1, <2>2
    <2>8. ASSUME Steady', previous' # None PROVE window'.oos = previous'.to
      BY <2>1, <2>6, <2>8 DEF Steady, Spans
    <2>9. inStart' = Later(k, window'.from, Spans.step) /\ run.start <= inStart' /\ inStart' \in Nat
      BY <1>0, <1>1, <2>1, <2>2, <2>3
    <2> QED BY <1>0, <2>1, <2>2, <2>4, <2>5, <2>7, <2>8, <2>9 DEF WalkInv, Spans
  <1>3. CASE LeaveLoop
    BY <1>0, <1>3 DEF LeaveLoop, WalkInv, NextWindow, Spans, Steady
  <1>4. CASE UNCHANGED walkVars
    BY <1>4 DEF walkVars, WalkInv, NextWindow, Spans, Steady
  <1> QED BY <1>2, <1>3, <1>4 DEF WalkNext
(* The windows of a walk-forward run move on, stay in its range and in      *)
(* their months and, where the step is the part tested and no day is        *)
(* clamped, tile the range, for any lengths, start and end                  *)
(* (WalkForwardEngine.run, _add_months).                                    *)
THEOREM WalkForwardSound == WalkSpec => []WindowsAreSound
  <1>1. WalkInit => WalkInv
    <2> SUFFICES ASSUME WalkInit PROVE WalkInv
      OBVIOUS
    <2>1. run \in Runs /\ inStart = run.start /\ window = None /\ previous = None /\ ended = FALSE
      BY DEF WalkInit
    <2>2. run.start \in Nat
      BY <2>1, LengthsArePositive
    <2> QED BY <2>1, <2>2 DEF WalkInv
  <1>2. WalkInv => WindowsAreSound
    <2> SUFFICES ASSUME WalkInv PROVE WindowsAreSound
      OBVIOUS
    <2>1. run \in Runs /\ inStart \in Nat
      BY DEF WalkInv
    <2>2. Spans.oos \in Nat \ {0} /\ Spans.in \in Nat \ {0} /\ Spans.step \in Nat \ {0} /\ run.end \in Nat
      BY <2>1, LengthsArePositive DEF Spans
    <2>3. MovesOn
      <3>1. ASSUME window # None
            PROVE  /\ run.start <= window.from /\ window.from < window.oos /\ window.oos < window.to
                   /\ window.to <= run.end
                   /\ ~ InDays(run.knobs) => MonthOf[window.to] = MonthOf[window.from] + Spans.in + Spans.oos
        <4>1. /\ window.from \in Nat /\ window = WindowFrom(run.knobs, window.from)
              /\ run.start <= window.from /\ window.to <= run.end
          BY <3>1 DEF WalkInv
        <4> QED BY <2>1, <4>1, WindowShape DEF Spans
      <3> QED BY <3>1 DEF MovesOn, WalkInv, Spans
    <2>4. Tiles
      <3> SUFFICES ASSUME window # None, Spans.step = Spans.oos, Plain(run.knobs, run.start)
                   PROVE  /\ previous # None => window.oos = previous.to
                          /\ ended => Later(run.knobs, window.to, Spans.oos) > run.end
        BY DEF Tiles, Spans, Plain
      <3>1. previous # None => window.oos = previous.to
        BY DEF WalkInv, Steady
      <3>2. ASSUME ended PROVE Later(run.knobs, window.to, Spans.oos) > run.end
        <4>1. /\ window.from \in Nat /\ window = WindowFrom(run.knobs, window.from)
              /\ inStart = Later(run.knobs, window.from, Spans.oos) /\ Plain(run.knobs, window.from)
              /\ ~ Fits(WindowFrom(run.knobs, inStart), run.end)
          BY <3>2 DEF WalkInv, NextWindow
        <4> DEFINE next == WindowFrom(run.knobs, inStart)
        <4>2. /\ next.from = inStart /\ next.oos = Later(run.knobs, inStart, Spans.in)
              /\ next.to = Later(run.knobs, next.oos, Spans.oos)
              /\ window.to = Later(run.knobs, Later(run.knobs, window.from, Spans.in), Spans.oos)
          BY <4>1 DEF WindowFrom, Spans
        <4>3. window.to = next.oos
          BY <2>2, <4>1, <4>2, LaterCommutes
        <4>4. next.oos \in Nat /\ next.to \in Nat /\ inStart < next.oos /\ next.oos < next.to
          BY <2>1, WindowShape
        <4>5. next.to > run.end
          BY <2>1, <2>2, <4>1, <4>2, <4>4 DEF Fits
        <4> QED BY <4>2, <4>3, <4>5
      <3> QED BY <3>1, <3>2
    <2> QED BY <2>3, <2>4 DEF WindowsAreSound
  <1>3. WalkInv /\ [WalkNext]_walkVars => WalkInv'
    BY WalkInvInductive
  <1> QED BY <1>1, <1>2, <1>3, PTL DEF WalkSpec
=============================================================================
