---------------------------- MODULE SwitchProofs ----------------------------
(***************************************************************************)
(* The operator's two switches: the kill switch in front of the orders,    *)
(* and the AI toggle in the decision service, with what that service may   *)
(* decide. For any number of orders, commands, bars and crashes. And its   *)
(* scores, which tell a market from its mirror image by a known lead only. *)
(***************************************************************************)
EXTENDS KillSwitch, DecisionEngine, FiniteSetTheorems, FunctionTheorems, TLAPS

\* The entry that is past the gate counts as sent: past the gate while the
\* switch is engaged can only be a handler that read "off" before.
InFlight == stage \in {"gated", "approve", "check", "send"}

LateBudget == engaged => late + (IF InFlight THEN 1 ELSE 0) <= 1

\* A handler that was started still has an order left to send.
Room == stage # "idle" => orders < MaxOrders

KillInv == KillTypeOK /\ Room /\ LateBudget

LEMMA InitKill == KillInit => KillInv
  <1> SUFFICES ASSUME KillInit PROVE KillInv
    OBVIOUS
  <1>1. /\ orders \in 0..MaxOrders /\ commands \in 0..MaxCommands
        /\ crashes \in 0..MaxCrashes /\ late \in 0..orders
    BY KillAssumption DEF KillAssumption, KillInit
  <1>2. KillTypeOK
    BY <1>1 DEF KillInit, KillTypeOK, SyncStates, EntryStages
  <1> QED BY <1>2 DEF KillInit, KillInv, Room, LateBudget

LEMMA NextKillTypeOK == KillTypeOK /\ Room /\ [KillNext]_killVars => KillTypeOK'
  <1> SUFFICES ASSUME KillTypeOK, Room, [KillNext]_killVars PROVE KillTypeOK'
    OBVIOUS
  <1> USE DEF SyncStates, EntryStages
  <1>1. CASE Engage \/ Release
    <2>1. /\ commands < MaxCommands /\ commands' = commands + 1
          /\ commands \in 0..MaxCommands /\ MaxCommands \in Nat
      BY <1>1, KillAssumption DEF KillAssumption, Engage, Release, KillTypeOK
    <2>2. commands' \in 0..MaxCommands
      BY <2>1
    <2>3. late' \in 0..orders'
      <3>1. late' \in {0, late} /\ orders' = orders
        BY <1>1 DEF Engage, Release
      <3>2. orders \in Nat /\ late \in 0..orders
        BY DEF KillTypeOK
      <3> QED BY <3>1, <3>2
    <2>4. /\ engaged' \in BOOLEAN
          /\ UNCHANGED <<active, until, sync, seenFlag, stage, orders, open,
                         doomed, up, crashes>>
      BY <1>1 DEF Engage, Release
    <2> QED BY <2>2, <2>3, <2>4 DEF KillTypeOK
  <1>2. CASE Elapse \/ StartEntry \/ Gate \/ Resume \/ ReadActive
    <2>1. /\ stage' \in {stage, "gate", "idle", "gated", "approve", "check", "send"}
          /\ until' \in {"past", until}
          /\ UNCHANGED <<engaged, active, sync, seenFlag, orders, open, doomed,
                         up, commands, crashes, late>>
      BY <1>2 DEF Elapse, StartEntry, Gate, Resume, ReadActive
    <2> QED BY <2>1 DEF KillTypeOK
  <1>3. CASE ReadUntil \/ Veto \/ PauseUntil
    BY <1>3 DEF ReadUntil, Veto, PauseUntil, KillTypeOK
  <1>4. CASE Send
    <2>1. /\ orders < MaxOrders /\ orders \in Nat /\ late \in Nat
          /\ late <= orders /\ orders' = orders + 1
      BY <1>4 DEF Send, Room, KillTypeOK
    <2>2. late' \in 0..orders'
      BY <1>4, <2>1 DEF Send
    <2>3. orders' \in 0..MaxOrders
      BY <2>1, KillAssumption DEF KillAssumption
    <2>4. /\ \A p \in 1..orders : p \in 1..orders'
          /\ orders + 1 \in 1..orders'
      BY <2>1
    <2>5. open' \subseteq 1..orders' /\ doomed' \subseteq 1..orders'
      BY <1>4, <2>4 DEF Send, KillTypeOK
    <2> QED BY <1>4, <2>2, <2>3, <2>5 DEF Send, KillTypeOK
  <1>5. CASE ReadFlag \/ Decide \/ Arm \/ Date
    BY <1>5 DEF ReadFlag, Decide, IsActive, Arm, Date, KillTypeOK
  <1>6. CASE Flatten \/ ClearActive \/ ClearUntil \/ ClosePosition
    <2>1. /\ doomed' \subseteq open \cup doomed /\ open' \subseteq open
          /\ UNCHANGED <<engaged, seenFlag, stage, orders, up, commands, crashes, late>>
          /\ active' \in BOOLEAN /\ until' \in {"none", until}
          /\ sync' \in {"sleep", "undate", sync}
      BY <1>6 DEF Flatten, ClearActive, ClearUntil, ClosePosition, KillTypeOK
    <2> QED BY <2>1 DEF KillTypeOK
  <1>7. CASE KillCrash \/ Restart
    <2>1. crashes' \in 0..MaxCrashes
      BY <1>7, KillAssumption DEF KillAssumption, KillCrash, Restart, KillTypeOK
    <2>2. /\ UNCHANGED <<engaged, seenFlag, orders, open, commands, late>>
          /\ active' \in BOOLEAN /\ up' \in BOOLEAN
          /\ until' \in {"none", until} /\ doomed' \subseteq doomed
          /\ stage' \in {"idle", stage} /\ sync' \in {"sleep", sync}
      BY <1>7 DEF KillCrash, Restart, KillTypeOK
    <2> QED BY <2>1, <2>2 DEF KillTypeOK
  <1>8. CASE UNCHANGED killVars
    BY <1>8 DEF killVars, KillTypeOK
  <1> QED
    BY <1>1, <1>2, <1>3, <1>4, <1>5, <1>6, <1>7, <1>8 DEF KillNext, KillHandler, Sync

\* Only StartEntry leaves "idle", and only Send uses up an order.
LEMMA NextRoom == KillTypeOK /\ Room /\ [KillNext]_killVars => Room'
  BY DEF Room, KillNext, KillHandler, Sync, killVars, Engage, Release, Elapse, StartEntry,
     Gate, Resume, ReadActive, ReadUntil, Veto, PauseUntil, Send, ReadFlag,
     Decide, Arm, Date, Flatten, ClearActive, ClearUntil, ClosePosition, KillCrash, Restart,
     KillTypeOK, EntryStages

LEMMA NextLateBudget == KillTypeOK /\ LateBudget /\ [KillNext]_killVars => LateBudget'
  <1> SUFFICES ASSUME KillTypeOK, LateBudget, [KillNext]_killVars PROVE LateBudget'
    OBVIOUS
  <1>1. late \in Nat
    BY DEF KillTypeOK
  \* Engaging starts the count; at most the entry in flight is ahead of it.
  <1>2. CASE Engage
    BY <1>2 DEF Engage, LateBudget, InFlight
  \* Nobody passes the gate while the switch is engaged.
  <1>3. CASE Gate
    BY <1>3 DEF Gate, LateBudget, InFlight
  \* Within the entry the budget is held, and at Send it is spent.
  <1>4. CASE Resume \/ ReadActive \/ ReadUntil \/ Veto
    <2>1. InFlight /\ engaged' = engaged /\ late' = late
      BY <1>4 DEF Resume, ReadActive, ReadUntil, Veto, InFlight
    <2> QED BY <1>1, <2>1 DEF LateBudget
  <1>5. CASE Send
    BY <1>1, <1>5 DEF Send, LateBudget, InFlight
  <1>6. CASE Release \/ Elapse \/ StartEntry \/ PauseUntil \/ ClosePosition \/ Restart
    BY <1>6 DEF Release, Elapse, StartEntry, PauseUntil, ClosePosition,
                Restart, LateBudget, InFlight
  <1>7. CASE Sync
    BY <1>7 DEF Sync, ReadFlag, Decide, Arm, Date, Flatten, ClearActive,
                ClearUntil, LateBudget, InFlight
  <1>8. CASE KillCrash
    BY <1>1, <1>8 DEF KillCrash, LateBudget, InFlight
  <1>9. CASE UNCHANGED killVars
    BY <1>9 DEF killVars, LateBudget, InFlight
  <1> QED
    BY <1>2, <1>3, <1>4, <1>5, <1>6, <1>7, <1>8, <1>9 DEF KillNext, KillHandler

LEMMA KillInvHolds == KillSpec => []KillInv
  <1>1. KillInv /\ [KillNext]_killVars => KillInv'
    BY NextKillTypeOK, NextRoom, NextLateBudget DEF KillInv
  <1> QED BY <1>1, InitKill, PTL DEF KillSpec

\* The switch, the manager, the two tasks and the book keep their types.
THEOREM KillTypesHold == KillSpec => []KillTypeOK
  <1>1. KillInv => KillTypeOK
    BY DEF KillInv
  <1> QED BY <1>1, KillInvHolds, PTL

\* An engaged switch lets out at most the one order whose handler had read
\* "off" before.
THEOREM KillAtMostOneLateOrder == KillSpec => []AtMostOneLateOrder
  <1>1. KillInv => AtMostOneLateOrder
    BY DEF KillInv, KillTypeOK, LateBudget, AtMostOneLateOrder, InFlight
  <1> QED BY <1>1, KillInvHolds, PTL















-----------------------------------------------------------------------------
\* What stands behind a decision to enter, before qualification
Backed(d, b, score, rule, answer, note) ==
    d.action # "no_trade" =>
        /\ ~Blackout(b)
        /\ IF d.source = "rule"
           THEN /\ score.band \in {"prepare", "reduced", "full"}
                /\ d.action = Entry(score.dir)
           ELSE /\ answer # None /\ Enters(answer)
                /\ d.action = Entry(answer.side) \/ answer.side = None
                /\ ~(score.total < Threshold)
                /\ Allows(FromSettings(Settings), b.ts, b.offset)
                /\ ZoneWithinSnapshot(answer, b)
                /\ rule.action # d.action => note # None

\* The handler's locals
Aggs == {[Aggregate(Bundles[i]) EXCEPT !.subs = None] : i \in DOMAIN Bundles}
Scores == {Score(Aggregate(Bundles[i])) : i \in DOMAIN Bundles}
Reasons == Objections \cup LLMErrors \cup
    {"timeout", "llm_no_trade", "llm_watch_or_prepare", "risk_limit_reached",
     "spread_too_wide", "band_below_55_no_entry", "band_observe_no_entry",
     "no_clear_direction", "neutral_direction"}
Decision == [action : Actions, type : {"scout", "reduced", "full", None},
             reason : Reasons \cup {None}, source : {"rule", "ai"}]
Locals == [bar : Nat, b : DOMAIN Bundles \cup {None}, agg : Aggs \cup {None},
           score : Scores \cup {None}, rule : Decision \cup {None},
           useAi : BOOLEAN, attempt : Nat, age : Nat,
           answer : Answers \cup {None}, decision : Decision \cup {None},
           note : Notes \cup {None}, offFor : Nat \cup {None}, misread : BOOLEAN]
Cached == [value : BOOLEAN, age : 0..FlagTtl, misread : BOOLEAN]
LocalsOK == /\ flag \in BOOLEAN \cup {None} /\ ai \in Cached /\ cur \in Locals
            /\ bars \in Nat /\ offFor \in 0..FlagTtl \cup {None}

\* The rules' word, which is kept for the record
RulesSpoke ==
    pc # "idle" =>
        /\ cur.b \in DOMAIN Bundles /\ cur.rule \in Decision
        /\ cur.rule.source = "rule"
        /\ \A answer, note : Backed(cur.rule, Bundle, cur.score, cur.rule, answer, note)

\* Nobody waits for the LLM whom a gate would have held up.
PastTheGates ==
    pc \in {"call", "backoff"} =>
        GateReason(Bundle, cur.score) = None

\* The decision about to be published is backed by what the handler holds.
DecisionBacked ==
    pc = "publish" =>
        /\ cur.decision \in Decision
        /\ Backed(cur.decision, Bundle, cur.score, cur.rule, cur.answer, cur.note)

JustifiedInv == LocalsOK /\ RulesSpoke /\ PastTheGates /\ DecisionBacked /\ EntriesAreJustified

\* The cached toggle is no staler than its age says, and whoever is on the way
\* to the LLM, or has its word, asked in time.
Prompt(off) == off \in 0..(FlagTtl - 1) \cup {None}
OffSince == offFor = None <=> FlagValue = TRUE
CacheFresh ==
    ai.value = TRUE /\ ai.misread = FALSE /\ offFor # None => offFor <= ai.age
AskedInTime ==
    /\ \/ pc \in {"call", "backoff"}
       \/ pc = "publish" /\ cur.decision.source = "ai"
    /\ cur.misread = FALSE
    => Prompt(cur.offFor)
ToggleInv == OffSince /\ CacheFresh /\ AskedInTime /\ AiOffTakesEffect

LEMMA BandOfScore == ASSUME NEW agg PROVE Score(agg).band \in {"below", "observe", "prepare", "reduced", "full"}
  <1>1. \A total : Band(total) \in {"below", "observe", "prepare", "reduced", "full"}
    BY DEF Band
  <1> QED BY <1>1 DEF Score

LEMMA RulesAreSound ==
    ASSUME NEW agg, NEW b, agg.blackout = Blackout(b)
    PROVE  LET d == RuleDecide(Score(agg), agg, None)
           IN  /\ d \in Decision /\ d.source = "rule"
               /\ \A rule, answer, note : Backed(d, b, Score(agg), rule, answer, note)
  <1> DEFINE d == RuleDecide(Score(agg), agg, None)
  <1>1. \/ \E reason \in Reasons : d = NoTrade(reason)
        \/ /\ ~agg.blackout /\ Score(agg).band \notin {"below", "observe"}
           /\ d = [action |-> Entry(Score(agg).dir), type |-> EntryType(Score(agg).band),
                   reason |-> None, source |-> "rule"]
    BY DEF RuleDecide, Reasons, Objections
  <1>2. CASE \E reason \in Reasons : d = NoTrade(reason)
    BY <1>2 DEF NoTrade, Decision, Actions, Backed
  <1>3. CASE \A reason \in Reasons : d # NoTrade(reason)
    <2>1. Score(agg).band \in {"prepare", "reduced", "full"} /\ ~Blackout(b)
      BY <1>1, <1>3, BandOfScore
    <2>2. d.action = Entry(Score(agg).dir) /\ d.source = "rule"
      BY <1>1, <1>3
    <2>3. Entry(Score(agg).dir) \in Actions
      BY DEF Entry, Actions
    <2>4. EntryType(Score(agg).band) \in {"scout", "reduced", "full"}
      BY DEF EntryType
    <2>5. d \in Decision
      BY <1>1, <1>3, <2>3, <2>4 DEF Decision
    <2> QED BY <2>1, <2>2, <2>5 DEF Backed
  <1> QED BY <1>2, <1>3

LEMMA AnswersAreBacked ==
    ASSUME NEW ans \in Answers, NEW b, NEW score, NEW rule \in Decision,
           GateReason(b, score) = None, Violation(ans, b) = None
    PROVE  LET final == FromAnswer(ans)
               note == IF rule.action = final.action THEN None
                       ELSE Discrepancy(rule, final, Resolution(rule, final))
           IN  /\ final \in Decision /\ note \in Notes \cup {None}
               /\ Backed(final, b, score, rule, ans, note)
  <1> DEFINE final == FromAnswer(ans)
             note == IF rule.action = final.action THEN None
                     ELSE Discrepancy(rule, final, Resolution(rule, final))
  <1>1. /\ Allows(FromSettings(Settings), b.ts, b.offset)
        /\ ~(score.total < Threshold) /\ ~Blackout(b)
    BY NoneAssumption DEF NoneAssumption, Objections, GateReason
  <1>2. ZoneWithinSnapshot(ans, b)
    BY NoneAssumption DEF NoneAssumption, Objections, Violation
  <1>3. final \in Decision
    <2>1. CASE ~Enters(ans)
      <3>1. PICK n \in Decision : final = [n EXCEPT !.source = "ai"] /\ n.action = "no_trade"
        <4>1. \A reason \in Reasons : NoTrade(reason) \in Decision /\ NoTrade(reason).action = "no_trade"
          BY DEF NoTrade, Decision, Actions
        <4> QED BY <2>1, <4>1 DEF FromAnswer, Reasons
      <3> QED BY <3>1 DEF Decision
    <2> QED BY <2>1 DEF FromAnswer, Decision, Actions
  <1>4. rule.action # final.action => note \in Notes /\ note # None
    BY <1>3, NoneAssumption DEF NoneAssumption, Discrepancy, Resolution, Resolutions, Notes, Decision
  <1>5. ~Enters(ans) => final.action = "no_trade"
    <2>1. \A reason \in Reasons : NoTrade(reason) \in Decision /\ NoTrade(reason).action = "no_trade"
      BY DEF NoTrade, Decision, Actions
    <2>2. \A n \in Decision : [n EXCEPT !.source = "ai"].action = n.action
      BY DEF Decision
    <2> QED BY <2>1, <2>2 DEF FromAnswer, Reasons
  <1>6. final.action # "no_trade" =>
           /\ Enters(ans) /\ final.source = "ai"
           /\ final.action = Entry(ans.side) \/ ans.side = None
    BY <1>5, DecisionAssumption DEF DecisionAssumption, FromAnswer, Entry
  <1>7. ans # None
    BY NoneAssumption DEF NoneAssumption
  <1> QED BY <1>1, <1>2, <1>3, <1>4, <1>6, <1>7 DEF Backed

\* A read of the toggle gives the cached one, a fresh one or a misread one.
LEMMA FlagReadsOK ==
    ASSUME LocalsOK, NEW a \in FlagReads
    PROVE  /\ a \in Cached
           /\ \/ a.misread = TRUE
              \/ CachedFlag /\ a = ai
              \/ a.value = FlagValue /\ a.age = 0
  <1>1. CASE CachedFlag
    <2>1. a = ai
      BY <1>1 DEF FlagReads
    <2>2. a \in Cached
      BY <2>1 DEF LocalsOK
    <2> QED BY <1>1, <2>1, <2>2
  <1>2. CASE a = [value |-> FlagValue, age |-> 0, misread |-> FALSE]
    BY <1>2, DecisionAssumption DEF DecisionAssumption, LocalsOK, Cached, FlagValue
  <1>3. CASE a = [ai EXCEPT !.age = 0, !.misread = TRUE]
    <2> DEFINE x == [ai EXCEPT !.age = 0]
    <2>1. x \in Cached
      BY DecisionAssumption DEF DecisionAssumption, LocalsOK, Cached
    <2>2. a = [x EXCEPT !.misread = TRUE]
      BY <1>3
    <2> HIDE DEF x
    <2>3. /\ [x EXCEPT !.misread = TRUE] \in Cached
          /\ [x EXCEPT !.misread = TRUE].misread = TRUE
      BY <2>1 DEF Cached
    <2> QED BY <2>2, <2>3
  <1> QED BY <1>1, <1>2, <1>3 DEF FlagReads

LEMMA IdleLocals == Idle \in Locals
  BY DEF Locals, Idle

LEMMA LocalsUpdate ==
    ASSUME NEW l \in Locals
    PROVE  /\ \A v \in Nat : [l EXCEPT !.bar = v] \in Locals
           /\ \A v \in DOMAIN Bundles : [l EXCEPT !.b = v] \in Locals
           /\ \A v \in Aggs : [l EXCEPT !.agg = v] \in Locals
           /\ \A v \in Scores : [l EXCEPT !.score = v] \in Locals
           /\ \A v \in Decision : [l EXCEPT !.rule = v] \in Locals
           /\ \A v \in BOOLEAN : [l EXCEPT !.useAi = v] \in Locals
           /\ \A v \in Nat : [l EXCEPT !.attempt = v] \in Locals
           /\ \A v \in Nat : [l EXCEPT !.age = v] \in Locals
           /\ \A v \in Answers : [l EXCEPT !.answer = v] \in Locals
           /\ \A v \in Decision : [l EXCEPT !.decision = v] \in Locals
           /\ \A v \in Notes \cup {None} : [l EXCEPT !.note = v] \in Locals
           /\ \A v \in Nat \cup {None} : [l EXCEPT !.offFor = v] \in Locals
           /\ \A v \in BOOLEAN : [l EXCEPT !.misread = v] \in Locals
  BY DEF Locals

\* The bar in hand, its score and the rules' word stay what they are.
SameBar == cur'.b = cur.b /\ cur'.score = cur.score /\ cur'.rule = cur.rule

LEMMA StartJustified ==
    ASSUME JustifiedInv, NEW b \in DOMAIN Bundles, Start(b)
    PROVE  JustifiedInv'
  <1> DEFINE agg == Aggregate(Bundles[b])
             score == Score(agg)
             rule == RuleDecide(score, agg, None)
  <1>1. /\ pc' = "flag" /\ bars' = bars + 1 /\ UNCHANGED <<event, offFor, ai, flag>>
        /\ cur' = [Idle EXCEPT !.bar = bars + 1, !.b = b,
                     !.agg = [agg EXCEPT !.subs = None], !.score = score, !.rule = rule]
    <2>1. \E x \in {agg} : \E y \in {Score(x)} :
            cur' = [Idle EXCEPT !.bar = bars + 1, !.b = b, !.agg = [x EXCEPT !.subs = None],
                      !.score = y, !.rule = RuleDecide(y, x, None)]
      BY DEF Start
    <2> QED BY <2>1 DEF Start
  <1>2. agg.blackout = Blackout(Bundles[b])
    BY DEF Aggregate
  <1>3. /\ rule \in Decision /\ rule.source = "rule"
        /\ \A r, answer, note : Backed(rule, Bundles[b], score, r, answer, note)
    BY <1>2, RulesAreSound
  <1>4. [agg EXCEPT !.subs = None] \in Aggs /\ score \in Scores
    BY DEF Aggs, Scores
  <1>5. bars + 1 \in Nat
    BY DEF JustifiedInv, LocalsOK
  <1> HIDE DEF agg, score, rule
  <1>6. cur' \in Locals /\ cur'.b = b /\ cur'.score = score /\ cur'.rule = rule
    <2> DEFINE l1 == [Idle EXCEPT !.bar = bars + 1]
               l2 == [l1 EXCEPT !.b = b]
               l3 == [l2 EXCEPT !.agg = [agg EXCEPT !.subs = None]]
               l4 == [l3 EXCEPT !.score = score]
               l5 == [l4 EXCEPT !.rule = rule]
    <2>1. cur' = l5
      BY <1>1
    <2>2. l1 \in Locals
      BY <1>5, IdleLocals, LocalsUpdate
    <2> HIDE DEF l1
    <2>3. l2 \in Locals /\ l2.b = b
      BY <2>2, LocalsUpdate DEF Locals
    <2> HIDE DEF l2
    <2>4. l3 \in Locals /\ l3.b = b
      BY <1>4, <2>3, LocalsUpdate DEF Locals
    <2> HIDE DEF l3
    <2>5. l4 \in Locals /\ l4.b = b /\ l4.score = score
      BY <1>4, <2>4, LocalsUpdate DEF Locals
    <2> HIDE DEF l4
    <2>6. l5 \in Locals /\ l5.b = b /\ l5.score = score /\ l5.rule = rule
      BY <1>3, <2>5, LocalsUpdate DEF Locals
    <2> QED BY <2>1, <2>6
  <1>7. LocalsOK'
    BY <1>1, <1>5, <1>6 DEF JustifiedInv, LocalsOK
  <1>8. RulesSpoke'
    BY <1>3, <1>6 DEF RulesSpoke, Bundle
  <1> QED BY <1>1, <1>7, <1>8 DEF JustifiedInv, PastTheGates, DecisionBacked, EntriesAreJustified

\* Whatever a gate or a failure leaves is no trade, which needs no backing.
LEMMA FallenBackIsBacked ==
    ASSUME NEW reason \in Reasons
    PROVE  /\ FallenBack(reason) \in Decision /\ FallenBack(reason).action = "no_trade"
           /\ FallenBack(reason).source = "rule"
           /\ \A rule \in Decision, resolution \in Resolutions :
                 Discrepancy(rule, FallenBack(reason), resolution) \in Notes
           /\ \A b, score, rule, answer, note :
                 Backed(FallenBack(reason), b, score, rule, answer, note)
  BY DEF FallenBack, NoTrade, Decision, Actions, Discrepancy, Notes, Backed

LEMMA RouteJustified == ASSUME JustifiedInv, Route PROVE JustifiedInv'
  <1>1. PICK a \in FlagReads :
          LET viaAi == a.value /\ HasKey
              gate == GateReason(Bundle, cur.score)
              then == [cur EXCEPT !.useAi = a.value, !.offFor = offFor, !.misread = a.misread]
          IN  /\ ai' = a
              /\ \/ /\ ~viaAi
                    /\ pc' = "publish" /\ cur' = [then EXCEPT !.decision = cur.rule]
                 \/ /\ viaAi /\ gate # None
                    /\ pc' = "publish"
                    /\ cur' = [then EXCEPT !.decision = FallenBack(gate),
                         !.note = Discrepancy(NoTrade(gate), NoTrade(gate), "agreement")]
                 \/ /\ viaAi /\ gate = None
                    /\ pc' = "call"
                    /\ cur' = [then EXCEPT !.attempt = 1]
    BY DEF Route
  <1>2. pc = "flag" /\ UNCHANGED <<bars, event, offFor, flag>>
    BY DEF Route
  <1>3. a \in Cached
    BY FlagReadsOK DEF JustifiedInv
  <1> DEFINE then == [cur EXCEPT !.useAi = a.value, !.offFor = offFor, !.misread = a.misread]
             gate == GateReason(Bundle, cur.score)
  <1>4. /\ then \in Locals /\ then.b = cur.b /\ then.score = cur.score /\ then.rule = cur.rule
    <2>1. a.value \in BOOLEAN /\ a.misread \in BOOLEAN
      BY <1>3 DEF Cached
    <2>2. cur \in Locals /\ offFor \in Nat \cup {None}
      BY DecisionAssumption DEF DecisionAssumption, JustifiedInv, LocalsOK
    <2> DEFINE l1 == [cur EXCEPT !.useAi = a.value]
               l2 == [l1 EXCEPT !.offFor = offFor]
    <2>3. l1 \in Locals /\ l1.b = cur.b /\ l1.score = cur.score /\ l1.rule = cur.rule
      BY <2>1, <2>2, LocalsUpdate DEF Locals
    <2> HIDE DEF l1
    <2>4. l2 \in Locals /\ l2.b = cur.b /\ l2.score = cur.score /\ l2.rule = cur.rule
      BY <2>2, <2>3, LocalsUpdate DEF Locals
    <2>5. then = [l2 EXCEPT !.misread = a.misread]
      BY DEF l1
    <2> HIDE DEF l2, then
    <2> QED BY <2>1, <2>4, <2>5, LocalsUpdate DEF Locals
  <1>5. gate \in Objections \cup {None}
    BY DEF GateReason, Objections
  <1>6. /\ cur.b \in DOMAIN Bundles /\ cur.rule \in Decision
        /\ cur.rule.source = "rule"
        /\ \A answer, note : Backed(cur.rule, Bundle, cur.score, cur.rule, answer, note)
    BY <1>2 DEF JustifiedInv, RulesSpoke
  <1> HIDE DEF then, gate
  <1>7. CASE pc' = "publish" /\ cur' = [then EXCEPT !.decision = cur.rule]
    <2>1. cur' \in Locals /\ cur'.decision = cur.rule /\ SameBar
      BY <1>4, <1>6, <1>7, LocalsUpdate DEF Locals, SameBar
    <2> QED BY <1>1, <1>2, <1>3, <1>6, <1>7, <2>1
            DEF JustifiedInv, LocalsOK, RulesSpoke, SameBar, Bundle, PastTheGates, DecisionBacked,
                EntriesAreJustified
  <1>8. CASE /\ gate # None /\ pc' = "publish"
             /\ cur' = [then EXCEPT !.decision = FallenBack(gate),
                  !.note = Discrepancy(NoTrade(gate), NoTrade(gate), "agreement")]
    <2>1. gate \in Reasons
      BY <1>5, <1>8 DEF Reasons
    <2>2. NoTrade(gate) = FallenBack(gate) /\ "agreement" \in Resolutions
      BY DEF FallenBack, Resolutions
    <2>3. FallenBack(gate) \in Decision
          /\ Discrepancy(NoTrade(gate), NoTrade(gate), "agreement") \in Notes
      BY <2>1, <2>2, FallenBackIsBacked
    <2>4. cur' \in Locals
      BY <1>4, <1>8, <2>3, LocalsUpdate
    <2>5. cur'.decision = FallenBack(gate) /\ SameBar
      BY <1>4, <1>8 DEF Locals, SameBar
    <2> QED BY <1>1, <1>2, <1>3, <1>6, <1>8, <2>1, <2>3, <2>4, <2>5, FallenBackIsBacked
            DEF JustifiedInv, LocalsOK, RulesSpoke, SameBar, Bundle, PastTheGates, DecisionBacked,
                EntriesAreJustified
  <1>9. CASE gate = None /\ pc' = "call" /\ cur' = [then EXCEPT !.attempt = 1]
    <2>1. cur' \in Locals /\ SameBar
      BY <1>4, <1>9, LocalsUpdate DEF Locals, SameBar
    <2>2. GateReason(Bundle, cur.score)' = None
      BY <1>9, <2>1 DEF gate, SameBar, Bundle
    <2> QED BY <1>1, <1>2, <1>3, <1>6, <1>9, <2>1, <2>2
            DEF JustifiedInv, LocalsOK, RulesSpoke, SameBar, Bundle, PastTheGates, DecisionBacked,
                EntriesAreJustified
  <1> QED BY <1>1, <1>7, <1>8, <1>9 DEF then, gate

\* A failed call is retried with nothing lost, or ends in no trade.
LEMMA FailedJustified ==
    ASSUME JustifiedInv, pc = "call", NEW reason \in Reasons, Failed(reason),
           UNCHANGED <<flag, ai, bars, event, offFor>>
    PROVE  JustifiedInv'
  <1>1. cur \in Locals /\ LocalsOK
    BY DEF JustifiedInv, LocalsOK
  <1>2. /\ cur.b \in DOMAIN Bundles /\ cur.rule \in Decision
        /\ cur.rule.source = "rule"
        /\ \A answer, note : Backed(cur.rule, Bundle, cur.score, cur.rule, answer, note)
    BY DEF JustifiedInv, RulesSpoke
  <1>3. CASE pc' = "backoff" /\ cur' = cur
    BY <1>1, <1>3 DEF JustifiedInv, LocalsOK, RulesSpoke, Bundle, PastTheGates,
                      DecisionBacked, EntriesAreJustified
  <1>4. CASE /\ pc' = "publish"
             /\ cur' = [cur EXCEPT !.decision = FallenBack(reason),
                  !.note = Discrepancy(cur.rule, FallenBack(reason), "agreement")]
    <2> DEFINE d == FallenBack(reason)
               note == Discrepancy(cur.rule, d, "agreement")
               l1 == [cur EXCEPT !.decision = d]
    <2>1. /\ d \in Decision /\ note \in Notes
          /\ \A b, score, rule, answer, n : Backed(d, b, score, rule, answer, n)
      BY <1>2, FallenBackIsBacked DEF Resolutions
    <2>2. cur' = [l1 EXCEPT !.note = note]
      BY <1>4
    <2> HIDE DEF d, note
    <2>3. l1 \in Locals /\ l1.b = cur.b /\ l1.score = cur.score /\ l1.rule = cur.rule
          /\ l1.decision = d
      BY <1>1, <2>1, LocalsUpdate DEF Locals
    <2> HIDE DEF l1
    <2>4. cur' \in Locals /\ SameBar /\ cur'.decision = d
      BY <2>1, <2>2, <2>3, LocalsUpdate DEF Locals, SameBar
    <2> QED BY <1>1, <1>2, <1>4, <2>1, <2>4
            DEF JustifiedInv, LocalsOK, RulesSpoke, SameBar, Bundle, PastTheGates, DecisionBacked,
                EntriesAreJustified
  <1> QED BY <1>3, <1>4 DEF Failed

LEMMA ReplyJustified ==
    ASSUME JustifiedInv, NEW ans \in Answers, Reply(ans)
    PROVE  JustifiedInv'
  <1>1. pc = "call" /\ UNCHANGED <<flag, ai, bars, event, offFor>>
    BY DEF Reply
  <1>2. CASE Violation(ans, Bundle) # None
    <2>1. Violation(ans, Bundle) \in Reasons
      BY <1>2 DEF Violation, Reasons, Objections
    <2>2. Failed(Violation(ans, Bundle))
      BY <1>2 DEF Reply
    <2> QED BY <1>1, <2>1, <2>2, FailedJustified
  <1>3. CASE Violation(ans, Bundle) = None
    <2> DEFINE final == FromAnswer(ans)
               note == IF cur.rule.action = final.action THEN None
                       ELSE Discrepancy(cur.rule, final, Resolution(cur.rule, final))
               l1 == [cur EXCEPT !.decision = final]
               l2 == [l1 EXCEPT !.answer = ans]
    <2>1. pc' = "publish" /\ cur' = [l2 EXCEPT !.note = note]
      BY <1>3 DEF Reply
    <2>2. /\ cur.b \in DOMAIN Bundles /\ cur.rule \in Decision /\ cur.rule.source = "rule"
          /\ \A answer, n : Backed(cur.rule, Bundle, cur.score, cur.rule, answer, n)
      BY <1>1 DEF JustifiedInv, RulesSpoke
    <2>3. GateReason(Bundle, cur.score) = None
      BY <1>1 DEF JustifiedInv, PastTheGates
    <2>4. /\ final \in Decision /\ note \in Notes \cup {None}
          /\ Backed(final, Bundle, cur.score, cur.rule, ans, note)
      BY <1>3, <2>2, <2>3, AnswersAreBacked
    <2> HIDE DEF final, note
    <2>5. cur \in Locals
      BY DEF JustifiedInv, LocalsOK
    <2>6. l1 \in Locals /\ l1.b = cur.b /\ l1.score = cur.score /\ l1.rule = cur.rule
          /\ l1.decision = final
      BY <2>4, <2>5, LocalsUpdate DEF Locals
    <2> HIDE DEF l1
    <2>7. l2 \in Locals /\ l2.b = cur.b /\ l2.score = cur.score /\ l2.rule = cur.rule
          /\ l2.decision = final /\ l2.answer = ans
      BY <2>6, LocalsUpdate DEF Locals
    <2> HIDE DEF l2
    <2>8. cur' \in Locals /\ SameBar
          /\ cur'.decision = final /\ cur'.answer = ans /\ cur'.note = note
      BY <2>1, <2>4, <2>7, LocalsUpdate DEF Locals, SameBar
    <2> QED BY <1>1, <2>1, <2>2, <2>4, <2>8
            DEF JustifiedInv, LocalsOK, RulesSpoke, SameBar, Bundle, PastTheGates, DecisionBacked,
                EntriesAreJustified
  <1> QED BY <1>2, <1>3

\* A step that keeps the event, and the handler's locals unless it is idle
LEMMA KeptJustified ==
    ASSUME JustifiedInv, LocalsOK', event' = event,
           pc' # "idle" => (\/ pc' = pc
                            \/ pc = "backoff" /\ pc' = "call"
                            \/ pc = "publish" /\ pc' = "journal")
                           /\ SameBar /\ cur'.decision = cur.decision
                           /\ cur'.answer = cur.answer /\ cur'.note = cur.note
    PROVE  JustifiedInv'
  <1>1. RulesSpoke'
    BY DEF JustifiedInv, RulesSpoke, SameBar, Bundle
  <1>2. PastTheGates'
    BY DEF JustifiedInv, PastTheGates, SameBar, Bundle
  <1>3. DecisionBacked'
    BY DEF JustifiedInv, DecisionBacked, SameBar, Bundle
  <1>4. EntriesAreJustified'
    BY DEF JustifiedInv, EntriesAreJustified
  <1> QED BY <1>1, <1>2, <1>3, <1>4 DEF JustifiedInv

LEMMA QualifiedOnlyIf ==
    ASSUME NEW d, NEW score, NEW agg, NEW b, Qualify(d, score, agg, b).qualified
    PROVE  /\ d.action # "no_trade" /\ Qualify(d, score, agg, b).action = d.action
           /\ ~StructureAgainst(b, d.action)
  BY DEF Qualify, Vetoes

LEMMA PublishJustified == ASSUME JustifiedInv, Publish PROVE JustifiedInv'
  <1>1. /\ pc = "publish" /\ pc' = "journal" /\ UNCHANGED <<cur, flag, ai, bars, offFor>>
        /\ event'.b = cur.b /\ event'.score = cur.score /\ event'.decision = cur.decision
        /\ event'.answer = cur.answer /\ event'.rule = cur.rule.action /\ event'.note = cur.note
        /\ event'.out = Qualify(cur.decision, cur.score, cur.agg, Bundle)
    BY DEF Publish
  <1>2. Backed(cur.decision, Bundle, cur.score, cur.rule, cur.answer, cur.note)
    BY <1>1 DEF JustifiedInv, DecisionBacked
  <1>3. event'.out.qualified =>
          /\ cur.decision.action # "no_trade" /\ event'.out.action = cur.decision.action
          /\ ~StructureAgainst(Bundle, cur.decision.action)
    BY <1>1, QualifiedOnlyIf
  <1>4. EntriesAreJustified'
    BY <1>1, <1>2, <1>3 DEF EntriesAreJustified, Backed, Bundle
  <1> QED BY <1>1, <1>4 DEF JustifiedInv, LocalsOK, RulesSpoke, Bundle, PastTheGates, DecisionBacked

\* Ages stop at their limit, and grow together.
LEMMA OlderKeeps ==
    ASSUME NEW limit \in Nat, NEW a \in 0..limit, NEW b \in 0..limit
    PROVE  /\ Older(a, limit) \in 0..limit
           /\ a <= b => Older(a, limit) <= Older(b, limit)
  BY DEF Older

LEMMA NextJustified == JustifiedInv /\ [Next]_vars => JustifiedInv'
  <1> SUFFICES ASSUME JustifiedInv, [Next]_vars PROVE JustifiedInv'
    OBVIOUS
  <1>1. LocalsOK /\ cur \in Locals /\ Idle \in Locals
    BY IdleLocals DEF JustifiedInv, LocalsOK
  <1>2. ASSUME NEW b \in DOMAIN Bundles, Start(b) PROVE JustifiedInv'
    BY <1>2, StartJustified
  <1>3. CASE Route
    BY <1>3, RouteJustified
  <1>4. ASSUME NEW ans \in Answers, Reply(ans) PROVE JustifiedInv'
    BY <1>4, ReplyJustified
  <1>5. ASSUME NEW r \in LLMErrors, ReplyBad(r) PROVE JustifiedInv'
    BY <1>5, FailedJustified DEF ReplyBad, Reasons
  <1>6. CASE TimeOut
    BY <1>6, FailedJustified DEF TimeOut, Reasons
  <1>7. CASE Publish
    BY <1>7, PublishJustified
  <1>8. CASE Retry
    <2> DEFINE l1 == [cur EXCEPT !.attempt = cur.attempt + 1]
    <2>1. /\ pc = "backoff" /\ pc' = "call" /\ UNCHANGED <<flag, ai, bars, event, offFor>>
          /\ cur' = [l1 EXCEPT !.age = 0]
      BY <1>8 DEF Retry
    <2>2. cur.attempt + 1 \in Nat
      BY <1>1 DEF Locals
    <2>3. /\ l1 \in Locals /\ l1.b = cur.b /\ l1.score = cur.score /\ l1.rule = cur.rule
          /\ l1.decision = cur.decision /\ l1.answer = cur.answer /\ l1.note = cur.note
      BY <1>1, <2>2, LocalsUpdate DEF Locals
    <2> HIDE DEF l1
    <2>4. /\ cur' \in Locals /\ SameBar
          /\ cur'.decision = cur.decision /\ cur'.answer = cur.answer /\ cur'.note = cur.note
      BY <2>1, <2>3, LocalsUpdate DEF Locals, SameBar
    <2>5. LocalsOK'
      BY <1>1, <2>1, <2>4 DEF LocalsOK
    <2> QED BY <2>1, <2>4, <2>5, KeptJustified
  <1>9. CASE Tick
    <2>1. /\ UNCHANGED <<flag, pc, bars, event>>
          /\ ai' = [ai EXCEPT !.age = Older(ai.age, FlagTtl)]
          /\ cur' = cur \/ cur' = [cur EXCEPT !.age = Older(cur.age, CallTimeout)]
          /\ offFor' = IF offFor = None THEN None ELSE Older(offFor, FlagTtl)
      BY <1>9 DEF Tick
    <2>2. \A n \in 0..FlagTtl : Older(n, FlagTtl) \in 0..FlagTtl
      BY OlderKeeps, DecisionAssumption DEF DecisionAssumption
    <2>3. Older(cur.age, CallTimeout) \in Nat
      BY <1>1 DEF Locals, Older
    <2>4. /\ cur' \in Locals /\ SameBar
          /\ cur'.decision = cur.decision /\ cur'.answer = cur.answer /\ cur'.note = cur.note
      BY <1>1, <2>1, <2>3, LocalsUpdate DEF Locals, SameBar
    <2>5. offFor' \in 0..FlagTtl \cup {None}
      BY <1>1, <2>1, <2>2 DEF LocalsOK
    <2>6. ai' \in Cached
      BY <1>1, <2>1, <2>2 DEF LocalsOK, Cached
    <2>7. LocalsOK'
      BY <1>1, <2>1, <2>4, <2>5, <2>6 DEF LocalsOK
    <2> QED BY <2>1, <2>4, <2>7, KeptJustified
  <1>10. ASSUME NEW v \in BOOLEAN, Toggle(v) PROVE JustifiedInv'
    <2>1. /\ UNCHANGED <<ai, pc, cur, bars, event>> /\ flag' \in BOOLEAN
          /\ offFor' \in {0, None}
      BY <1>10 DEF Toggle
    <2>2. LocalsOK'
      BY <1>1, <2>1, DecisionAssumption DEF DecisionAssumption, LocalsOK
    <2> QED BY <2>1, <2>2, KeptJustified DEF SameBar
  <1>11. CASE PublishFails \/ Journal \/ Crash
    <2>1. /\ pc' = "idle" /\ cur' = Idle /\ UNCHANGED <<flag, bars, event, offFor>>
          /\ ai' \in {ai, [value |-> AiEnabled, age |-> FlagTtl, misread |-> FALSE]}
      BY <1>11 DEF PublishFails, Journal, Crash
    <2>2. ai' \in Cached
      <3>1. [value |-> AiEnabled, age |-> FlagTtl, misread |-> FALSE] \in Cached
        BY DecisionAssumption DEF DecisionAssumption, Cached
      <3> QED BY <1>1, <2>1, <3>1 DEF LocalsOK
    <2>3. LocalsOK'
      BY <1>1, <2>1, <2>2 DEF LocalsOK
    <2> QED BY <2>1, <2>3, KeptJustified
  <1>12. CASE DropVersion
    <2>1. UNCHANGED <<flag, ai, pc, cur, event, offFor>> /\ bars' = bars + 1
      BY <1>12 DEF DropVersion
    <2>2. LocalsOK'
      BY <1>1, <2>1 DEF LocalsOK
    <2> QED BY <2>1, <2>2, KeptJustified DEF SameBar
  <1>13. CASE UNCHANGED vars
    <2>1. UNCHANGED <<flag, ai, pc, cur, bars, event, offFor>>
      BY <1>13 DEF vars
    <2>2. LocalsOK'
      BY <1>1, <2>1 DEF LocalsOK
    <2> QED BY <2>1, <2>2, KeptJustified DEF SameBar
  <1> QED BY <1>2, <1>3, <1>4, <1>5, <1>6, <1>7, <1>8, <1>9, <1>10, <1>11, <1>12, <1>13
          DEF Next, Handler

LEMMA InitJustified == Init => JustifiedInv
  <1> SUFFICES ASSUME Init PROVE JustifiedInv
    OBVIOUS
  <1>1. LocalsOK
    <2>1. ai \in Cached
      BY DecisionAssumption DEF DecisionAssumption, Cached, Init
    <2>2. offFor \in Nat \cup {None}
      BY DecisionAssumption DEF DecisionAssumption, Init
    <2> QED BY <2>1, <2>2, IdleLocals DEF Init, LocalsOK
  <1> QED BY <1>1 DEF Init, JustifiedInv, RulesSpoke, PastTheGates, DecisionBacked,
                     EntriesAreJustified

\* Whatever the bundles, the answers and the thresholds, a published entry is
\* justified by the rules or by an answer for its own bar.
THEOREM DecisionEntriesJustified == Spec => []EntriesAreJustified
  <1>1. JustifiedInv => EntriesAreJustified
    BY DEF JustifiedInv
  <1> QED BY <1>1, InitJustified, NextJustified, PTL DEF Spec

-----------------------------------------------------------------------------

LEMMA RouteToggle == ASSUME JustifiedInv, ToggleInv, Route PROVE ToggleInv'
  <1>1. PICK a \in FlagReads :
          LET viaAi == a.value /\ HasKey
              gate == GateReason(Bundle, cur.score)
              then == [cur EXCEPT !.useAi = a.value, !.offFor = offFor, !.misread = a.misread]
          IN  /\ ai' = a
              /\ \/ /\ ~viaAi
                    /\ pc' = "publish" /\ cur' = [then EXCEPT !.decision = cur.rule]
                 \/ /\ viaAi /\ gate # None
                    /\ pc' = "publish"
                    /\ cur' = [then EXCEPT !.decision = FallenBack(gate),
                         !.note = Discrepancy(NoTrade(gate), NoTrade(gate), "agreement")]
                 \/ /\ viaAi /\ gate = None
                    /\ pc' = "call"
                    /\ cur' = [then EXCEPT !.attempt = 1]
    BY DEF Route
  <1>2. pc = "flag" /\ UNCHANGED <<flag, event, offFor>>
    BY DEF Route
  <1>3. LocalsOK /\ cur \in Locals
    BY DEF JustifiedInv, LocalsOK
  <1>4. /\ a \in Cached
        /\ \/ a.misread = TRUE
           \/ CachedFlag /\ a = ai
           \/ a.value = FlagValue /\ a.age = 0
    BY <1>3, FlagReadsOK
  \* A toggle that was read, or cached, as "on" was off for no longer than this.
  <1>5. ASSUME a.value = TRUE, a.misread = FALSE, offFor # None
        PROVE  offFor <= a.age /\ Prompt(offFor)
    <2>1. offFor \in 0..FlagTtl /\ ai.age \in 0..FlagTtl /\ FlagTtl \in Nat
      BY <1>3, <1>5, DecisionAssumption DEF DecisionAssumption, LocalsOK, Cached
    <2>2. CachedFlag /\ a = ai
      BY <1>4, <1>5 DEF ToggleInv, OffSince
    <2>3. offFor <= ai.age
      BY <1>5, <2>2 DEF ToggleInv, CacheFresh
    <2> QED BY <2>1, <2>2, <2>3 DEF CachedFlag, Prompt
  <1>6. OffSince'
    BY <1>2 DEF ToggleInv, OffSince, FlagValue
  <1>7. CacheFresh'
    BY <1>1, <1>2, <1>5 DEF CacheFresh
  <1>8. AiOffTakesEffect'
    BY <1>2 DEF ToggleInv, AiOffTakesEffect
  <1>9. AskedInTime'
    <2> DEFINE l1 == [cur EXCEPT !.useAi = a.value]
               l2 == [l1 EXCEPT !.offFor = offFor]
               then == [l2 EXCEPT !.misread = a.misread]
               gate == GateReason(Bundle, cur.score)
    <2>1. /\ a.value \in BOOLEAN /\ a.misread \in BOOLEAN /\ offFor \in Nat \cup {None}
      BY <1>3, <1>4, DecisionAssumption DEF DecisionAssumption, Cached, LocalsOK
    <2>2. \/ pc' = "publish" /\ cur' = [then EXCEPT !.decision = cur.rule]
          \/ \E note : gate # None /\ pc' = "publish"
                 /\ cur' = [[then EXCEPT !.decision = FallenBack(gate)] EXCEPT !.note = note]
          \/ a.value = TRUE /\ pc' = "call" /\ cur' = [then EXCEPT !.attempt = 1]
      BY <1>1, <2>1
    <2> HIDE DEF gate
    <2>3. l1 \in Locals
      BY <1>3, <2>1, LocalsUpdate
    <2> HIDE DEF l1
    <2>4. l2 \in Locals /\ l2.offFor = offFor
      BY <2>1, <2>3, LocalsUpdate DEF Locals
    <2> HIDE DEF l2
    <2>5. then \in Locals /\ then.offFor = offFor /\ then.misread = a.misread
      BY <2>1, <2>4, LocalsUpdate DEF Locals
    <2> HIDE DEF then
    <2>6. CASE pc' = "publish" /\ cur' = [then EXCEPT !.decision = cur.rule]
      <3>1. cur'.decision = cur.rule
        BY <2>5, <2>6 DEF Locals
      <3>2. cur.rule.source = "rule"
        BY <1>2 DEF JustifiedInv, RulesSpoke
      <3> QED BY <2>6, <3>1, <3>2 DEF AskedInTime
    <2>7. ASSUME NEW note, gate # None, pc' = "publish",
                 cur' = [[then EXCEPT !.decision = FallenBack(gate)] EXCEPT !.note = note]
          PROVE  AskedInTime'
      <3> DEFINE l3 == [then EXCEPT !.decision = FallenBack(gate)]
      <3>1. cur'.decision = l3.decision
        <4>1. l3.decision = FallenBack(gate) /\ "decision" \in DOMAIN l3
          BY <2>5 DEF Locals
        <4>2. cur' = [l3 EXCEPT !.note = note]
          BY <2>7
        <4> HIDE DEF l3
        <4> QED BY <4>1, <4>2
      <3>2. l3.decision.source = "rule"
        BY <2>5 DEF Locals, FallenBack, NoTrade
      <3> QED BY <2>7, <3>1, <3>2 DEF AskedInTime
    <2>8. CASE a.value = TRUE /\ pc' = "call" /\ cur' = [then EXCEPT !.attempt = 1]
      <3>1. cur'.offFor = offFor /\ cur'.misread = a.misread
        BY <2>5, <2>8 DEF Locals
      <3>2. a.misread = FALSE => Prompt(offFor)
        BY <1>5, <2>8 DEF Prompt
      <3> QED BY <3>1, <3>2 DEF AskedInTime
    <2> QED BY <2>2, <2>6, <2>7, <2>8
  <1> QED BY <1>6, <1>7, <1>8, <1>9 DEF ToggleInv

\* A step that keeps the toggle, what is cached of it and the event
LEMMA KeptToggle ==
    ASSUME ToggleInv, UNCHANGED <<flag, ai, offFor, event>>, AskedInTime'
    PROVE  ToggleInv'
  BY DEF ToggleInv, OffSince, CacheFresh, AiOffTakesEffect, FlagValue

LEMMA FailedToggle ==
    ASSUME JustifiedInv, ToggleInv, pc = "call", NEW reason \in Reasons, Failed(reason)
    PROVE  AskedInTime'
  <1>1. CASE pc' = "backoff" /\ cur' = cur
    BY <1>1 DEF ToggleInv, AskedInTime
  <1>2. CASE /\ pc' = "publish"
             /\ cur' = [cur EXCEPT !.decision = FallenBack(reason),
                  !.note = Discrepancy(cur.rule, FallenBack(reason), "agreement")]
    <2> DEFINE d == FallenBack(reason)
               note == Discrepancy(cur.rule, d, "agreement")
               l1 == [cur EXCEPT !.decision = d]
    <2>1. cur' = [l1 EXCEPT !.note = note]
      BY <1>2
    <2>2. d.source = "rule"
      BY FallenBackIsBacked
    <2> HIDE DEF d, note
    <2>3. l1.decision = d /\ "decision" \in DOMAIN l1
      BY DEF JustifiedInv, LocalsOK, Locals
    <2> HIDE DEF l1
    <2>4. cur'.decision = d
      BY <2>1, <2>3
    <2> QED BY <1>2, <2>2, <2>4 DEF AskedInTime
  <1> QED BY <1>1, <1>2 DEF Failed

LEMMA NextToggle == JustifiedInv /\ ToggleInv /\ [Next]_vars => ToggleInv'
  <1> SUFFICES ASSUME JustifiedInv, ToggleInv, [Next]_vars PROVE ToggleInv'
    OBVIOUS
  <1>1. LocalsOK /\ cur \in Locals
    BY DEF JustifiedInv, LocalsOK
  <1>2. ASSUME NEW b \in DOMAIN Bundles, Start(b) PROVE ToggleInv'
    BY <1>2, KeptToggle DEF Start, AskedInTime
  <1>3. CASE Route
    BY <1>3, RouteToggle
  <1>4. ASSUME NEW ans \in Answers, Reply(ans) PROVE ToggleInv'
    <2>1. pc = "call" /\ UNCHANGED <<flag, ai, offFor, event>>
      BY <1>4 DEF Reply
    <2>2. CASE Violation(ans, Bundle) # None
      <3>1. Violation(ans, Bundle) \in Reasons
        BY <2>2 DEF Violation, Reasons, Objections
      <3>2. Failed(Violation(ans, Bundle))
        BY <1>4, <2>2 DEF Reply
      <3> QED BY <2>1, <3>1, <3>2, FailedToggle, KeptToggle
    <2>3. CASE Violation(ans, Bundle) = None
      <3> DEFINE final == FromAnswer(ans)
                 note == IF cur.rule.action = final.action THEN None
                         ELSE Discrepancy(cur.rule, final, Resolution(cur.rule, final))
                 l1 == [cur EXCEPT !.decision = final]
                 l2 == [l1 EXCEPT !.answer = ans]
      <3>1. pc' = "publish" /\ cur' = [l2 EXCEPT !.note = note]
        BY <1>4, <2>3 DEF Reply
      <3> HIDE DEF final, note
      <3>2. l1.misread = cur.misread /\ l1.offFor = cur.offFor /\ DOMAIN l1 = DOMAIN cur
        BY <1>1 DEF Locals
      <3> HIDE DEF l1
      <3>3. l2.misread = cur.misread /\ l2.offFor = cur.offFor /\ DOMAIN l2 = DOMAIN cur
        BY <1>1, <3>2 DEF Locals
      <3> HIDE DEF l2
      <3>4. cur'.misread = cur.misread /\ cur'.offFor = cur.offFor
        BY <1>1, <3>1, <3>3 DEF Locals
      <3>5. AskedInTime'
        BY <2>1, <3>4 DEF ToggleInv, AskedInTime, Prompt
      <3> QED BY <2>1, <3>5, KeptToggle
    <2> QED BY <2>2, <2>3
  <1>5. ASSUME NEW r \in LLMErrors, ReplyBad(r) PROVE ToggleInv'
    BY <1>5, FailedToggle, KeptToggle DEF ReplyBad, Reasons
  <1>6. CASE TimeOut
    BY <1>6, FailedToggle, KeptToggle DEF TimeOut, Reasons
  <1>7. CASE Retry
    <2> DEFINE l1 == [cur EXCEPT !.attempt = cur.attempt + 1]
    <2>1. /\ pc = "backoff" /\ UNCHANGED <<flag, ai, offFor, event>>
          /\ cur' = [l1 EXCEPT !.age = 0]
      BY <1>7 DEF Retry
    <2>2. l1.misread = cur.misread /\ l1.offFor = cur.offFor /\ DOMAIN l1 = DOMAIN cur
      BY <1>1 DEF Locals
    <2> HIDE DEF l1
    <2>3. cur'.misread = cur.misread /\ cur'.offFor = cur.offFor
      BY <1>1, <2>1, <2>2 DEF Locals
    <2>4. AskedInTime'
      BY <2>1, <2>3 DEF ToggleInv, AskedInTime, Prompt
    <2> QED BY <2>1, <2>4, KeptToggle
  <1>8. CASE Publish
    <2>1. /\ pc = "publish" /\ pc' = "journal" /\ UNCHANGED <<flag, ai, offFor>>
          /\ event'.decision = cur.decision /\ event'.offFor = cur.offFor
          /\ event'.misread = cur.misread
      BY <1>8 DEF Publish
    <2>2. OffSince' /\ CacheFresh' /\ AskedInTime'
      BY <2>1 DEF ToggleInv, OffSince, CacheFresh, AskedInTime, FlagValue
    <2>3. cur.misread \in BOOLEAN
      BY <1>1 DEF Locals
    <2>4. AiOffTakesEffect'
      BY <2>1, <2>3 DEF ToggleInv, AskedInTime, AiOffTakesEffect, Prompt
    <2> QED BY <2>2, <2>4 DEF ToggleInv
  <1>9. CASE Tick
    <2>1. /\ UNCHANGED <<flag, pc, event>>
          /\ ai' = [ai EXCEPT !.age = Older(ai.age, FlagTtl)]
          /\ \/ cur' = cur
             \/ cur' = [cur EXCEPT !.age = Older(cur.age, CallTimeout)]
          /\ offFor' = IF offFor = None THEN None ELSE Older(offFor, FlagTtl)
      BY <1>9 DEF Tick
    <2>2. /\ ai.age \in 0..FlagTtl /\ offFor \in 0..FlagTtl \cup {None}
          /\ FlagTtl \in Nat /\ None \notin Nat
      BY <1>1, DecisionAssumption, NoneAssumption
         DEF DecisionAssumption, NoneAssumption, LocalsOK, Cached
    <2>3. ai'.value = ai.value /\ ai'.misread = ai.misread /\ ai'.age = Older(ai.age, FlagTtl)
      BY <1>1, <2>1 DEF LocalsOK, Cached
    <2>4. offFor # None => Older(offFor, FlagTtl) \in Nat
      BY <2>2 DEF Older
    <2>5. OffSince'
      BY <2>1, <2>2, <2>4 DEF ToggleInv, OffSince, FlagValue
    <2>6. CacheFresh'
      <3>1. offFor # None /\ offFor <= ai.age => Older(offFor, FlagTtl) <= Older(ai.age, FlagTtl)
        BY <2>2, OlderKeeps
      <3> QED BY <2>1, <2>3, <3>1 DEF ToggleInv, CacheFresh
    <2>7. cur'.misread = cur.misread /\ cur'.offFor = cur.offFor /\ cur'.decision = cur.decision
      BY <1>1, <2>1 DEF Locals
    <2>8. AskedInTime'
      BY <2>1, <2>7 DEF ToggleInv, AskedInTime, Prompt
    <2>9. AiOffTakesEffect'
      BY <2>1 DEF ToggleInv, AiOffTakesEffect
    <2> QED BY <2>5, <2>6, <2>8, <2>9 DEF ToggleInv
  <1>10. ASSUME NEW v \in BOOLEAN, Toggle(v) PROVE ToggleInv'
    <2>1. /\ flag' = v /\ UNCHANGED <<ai, pc, cur, event>>
          /\ offFor' = IF v THEN None ELSE 0
      BY <1>10 DEF Toggle
    <2>2. None \notin BOOLEAN /\ None # 0
      BY NoneAssumption DEF NoneAssumption
    <2>3. FlagValue' = v
      BY <2>1, <2>2 DEF FlagValue
    <2>4. OffSince'
      BY <2>1, <2>2, <2>3 DEF OffSince
    <2>5. CacheFresh'
      BY <1>1, <2>1 DEF CacheFresh, LocalsOK, Cached
    <2>6. AskedInTime' /\ AiOffTakesEffect'
      BY <2>1 DEF ToggleInv, AskedInTime, AiOffTakesEffect
    <2> QED BY <2>4, <2>5, <2>6 DEF ToggleInv
  <1>11. CASE Crash
    <2>1. /\ UNCHANGED <<flag, offFor, event>> /\ pc' = "idle"
          /\ ai' = [value |-> AiEnabled, age |-> FlagTtl, misread |-> FALSE]
      BY <1>11 DEF Crash
    <2>2. ai'.age = FlagTtl /\ (offFor # None => offFor <= FlagTtl)
      BY <1>1, <2>1, DecisionAssumption DEF DecisionAssumption, LocalsOK
    <2> QED BY <2>1, <2>2
            DEF ToggleInv, OffSince, CacheFresh, AskedInTime, AiOffTakesEffect, FlagValue
  <1>12. CASE PublishFails \/ Journal
    BY <1>12, KeptToggle DEF PublishFails, Journal, AskedInTime
  <1>13. CASE DropVersion \/ UNCHANGED vars
    BY <1>13, KeptToggle DEF DropVersion, vars, ToggleInv, AskedInTime
  <1> QED BY <1>2, <1>3, <1>4, <1>5, <1>6, <1>7, <1>8, <1>9, <1>10, <1>11, <1>12, <1>13
          DEF Next, Handler

LEMMA InitToggle == Init => ToggleInv
  <1> SUFFICES ASSUME Init PROVE ToggleInv
    OBVIOUS
  <1>1. /\ flag = None /\ ai.age = FlagTtl /\ pc = "idle" /\ event = None
        /\ offFor = IF AiEnabled THEN None ELSE FlagTtl
    BY DEF Init
  <1>2. AiEnabled \in BOOLEAN /\ FlagTtl \in Nat /\ FlagTtl # None
    BY DecisionAssumption, NoneAssumption DEF DecisionAssumption, NoneAssumption
  <1>3. OffSince
    BY <1>1, <1>2 DEF OffSince, FlagValue
  <1> QED BY <1>1, <1>2, <1>3 DEF ToggleInv, CacheFresh, AskedInTime, AiOffTakesEffect

\* Whatever the cache's lifetime, no decision of the LLM goes out for a bar
\* whose handler asked for the toggle that long after it was switched off.
THEOREM DecisionAiOffTakesEffect == Spec => []AiOffTakesEffect
  <1>1. JustifiedInv /\ ToggleInv => AiOffTakesEffect
    BY DEF ToggleInv
  <1> QED BY <1>1, InitJustified, NextJustified, InitToggle, NextToggle, PTL DEF Spec

-----------------------------------------------------------------------------
\* The stack leans as Lead and SessionVote say and no further. One lemma per
\* scorer says what its vote and its value are in the mirror; the counts of
\* zones and targets go by the fact that the mirror takes different ones to
\* different ones.

\* Sign, which the code writes as max(-1, min(1, x))
LEMMA SignIs ==
    ASSUME NEW d \in Int
    PROVE  Sign(d) = IF d > 0 THEN 1 ELSE IF d < 0 THEN -1 ELSE 0
  <1>1. \E x \in {1, d} : \A y \in {1, d} : x <= y
    OBVIOUS
  <1>2. Min({1, d}) = IF d > 0 THEN 1 ELSE d
    BY <1>1 DEF Min
  <1>3. ASSUME NEW m \in Int PROVE Max({-1, m}) = IF m < 0 THEN -1 ELSE m
    <2>1. \E x \in {-1, m} : \A y \in {-1, m} : x >= y
      OBVIOUS
    <2> QED BY <2>1 DEF Max
  <1>4. Sign(d) = IF Min({1, d}) < 0 THEN -1 ELSE Min({1, d})
    BY <1>2, <1>3 DEF Sign
  <1> QED BY <1>2, <1>4

LEMMA SignFlips ==
    ASSUME NEW x \in Int, NEW y \in Int
    PROVE  Sign(x - y) = 0 - Sign(y - x) /\ Sign(x - y) \in {-1, 0, 1}
  <1>1. Sign(x - y) = IF x - y > 0 THEN 1 ELSE IF x - y < 0 THEN -1 ELSE 0
    BY SignIs
  <1>2. Sign(y - x) = IF y - x > 0 THEN 1 ELSE IF y - x < 0 THEN -1 ELSE 0
    BY SignIs
  <1> QED BY <1>1, <1>2

\* A clamped value is a number, and one within the scale is itself.
LEMMA ClampIs ==
    ASSUME NEW v \in Int
    PROVE  /\ Clamp(v) \in Int
           /\ 0 <= v /\ v <= 10000 => Clamp(v) = v
  <1>1. \E x \in {10000, v} : \A y \in {10000, v} : x <= y
    OBVIOUS
  <1>2. Min({10000, v}) = IF v < 10000 THEN v ELSE 10000
    BY <1>1 DEF Min
  <1>3. ASSUME NEW w \in Int PROVE Max({0, w}) = IF w > 0 THEN w ELSE 0
    <2>1. \E x \in {0, w} : \A y \in {0, w} : x >= y
      OBVIOUS
    <2> QED BY <2>1 DEF Max
  <1>4. PICK m \in Int : m = Min({10000, v})
    BY <1>2
  <1>5. Clamp(v) = Max({0, m})
    BY <1>4 DEF Clamp
  <1>6. Clamp(v) = IF m > 0 THEN m ELSE 0
    BY <1>3, <1>5
  <1>7. m = IF v < 10000 THEN v ELSE 10000
    BY <1>2, <1>4
  <1> QED BY <1>6, <1>7

\* min(n, limit)
LEMMA CappedIs ==
    ASSUME NEW x \in Int, NEW limit \in Int
    PROVE  Min({x, limit}) \in Int
  <1>1. \E m \in {x, limit} : \A y \in {x, limit} : m <= y
    OBVIOUS
  <1> QED BY <1>1 DEF Min

\* What one end becomes is Flip of the other; twice gives back what was there.
FlippedZones(S, price) == {FlipZone(z, price) : z \in S}

LEMMA FlipZoneFields ==
    ASSUME NEW z \in ZoneRecords, NEW price \in Int, None \notin Int
    PROVE  LET y == FlipZone(z, price)
           IN  /\ y \in ZoneRecords /\ y.tf = z.tf /\ y.bull = ~z.bull
               /\ y.low = 2 * price - z.high /\ y.high = 2 * price - z.low
               /\ y.status = z.status /\ y.disp = z.disp /\ y.top = z.top
  <1>1. z.low \in Int /\ z.high \in Int /\ z.low # None /\ z.high # None /\ z.bull \in BOOLEAN
    BY DEF ZoneRecords
  <1>2. Flip(z.high, price) = 2 * price - z.high /\ Flip(z.low, price) = 2 * price - z.low
    BY <1>1 DEF Flip
  <1>3. FlipZone(z, price) = [z EXCEPT !.bull = ~z.bull, !.low = 2 * price - z.high,
                                       !.high = 2 * price - z.low]
    BY <1>2 DEF FlipZone
  <1>4. 2 * price - z.high \in Int /\ 2 * price - z.low \in Int
    BY <1>1
  <1> QED BY <1>1, <1>3, <1>4 DEF ZoneRecords

LEMMA FlipCount ==
    ASSUME NEW S \in SUBSET ZoneRecords, IsFiniteSet(S), NEW price \in Int, None \notin Int
    PROVE  Cardinality(FlippedZones(S, price)) = Cardinality(S)
  <1> DEFINE f == [z \in S |-> FlipZone(z, price)]
             R == FlippedZones(S, price)
  <1>1. f \in [S -> R]
    BY DEF FlippedZones
  <1>2. \A y \in R : \E z \in S : f[z] = y
    BY DEF FlippedZones
  <1>3. \A x, z \in S : f[x] = f[z] => x = z
    <2> SUFFICES ASSUME NEW x \in S, NEW z \in S, FlipZone(x, price) = FlipZone(z, price) PROVE x = z
      OBVIOUS
    <2>1. /\ x.tf = z.tf /\ x.status = z.status /\ x.disp = z.disp /\ x.top = z.top
          /\ 2 * price - x.high = 2 * price - z.high /\ 2 * price - x.low = 2 * price - z.low
          /\ (~x.bull) = (~z.bull)
      <3> DEFINE Turned(w, y) == /\ y.tf = w.tf /\ y.bull = ~w.bull
                                 /\ y.low = 2 * price - w.high /\ y.high = 2 * price - w.low
                                 /\ y.status = w.status /\ y.disp = w.disp /\ y.top = w.top
      <3>1. Turned(x, FlipZone(x, price))
        BY FlipZoneFields
      <3>2. Turned(z, FlipZone(z, price))
        BY FlipZoneFields
      <3>3. PICK y : Turned(x, y) /\ Turned(z, y)
        <4> HIDE DEF Turned
        <4> QED BY <3>1, <3>2
      <3> QED BY <3>3
    <2>2. /\ x.low \in Int /\ z.low \in Int /\ x.high \in Int /\ z.high \in Int
          /\ x.bull \in BOOLEAN /\ z.bull \in BOOLEAN
      BY DEF ZoneRecords
    <2>3. x.low = z.low /\ x.high = z.high /\ x.bull = z.bull
      BY <2>1, <2>2
    <2> QED BY <2>1, <2>3 DEF ZoneRecords
  <1>4. f \in Bijection(S, R)
    <2> HIDE DEF f, R
    <2> QED BY <1>1, <1>2, <1>3, Fun_IsBij
  <1>5. ExistsBijection(S, R)
    BY <1>4 DEF ExistsBijection
  <1> QED BY <1>5, FS_Bijection

LEMMA MajorityFlips ==
    ASSUME NEW S \in SUBSET ZoneRecords, IsFiniteSet(S), NEW price \in Int, None \notin Int
    PROVE  Majority(FlippedZones(S, price)) = 0 - Majority(S) /\ Majority(S) \in {-1, 0, 1}
  <1> DEFINE R == FlippedZones(S, price)
             bulls == {z \in S : z.bull}
             bears == {z \in S : ~z.bull}
  <1>0. \A z \in S : FlipZone(z, price).bull = ~z.bull
    BY FlipZoneFields
  <1>1. {z \in R : z.bull} = FlippedZones(bears, price)
    BY <1>0 DEF FlippedZones
  <1>2. {z \in R : ~z.bull} = FlippedZones(bulls, price)
    BY <1>0 DEF FlippedZones
  <1>3. IsFiniteSet(bulls) /\ IsFiniteSet(bears)
    BY FS_Subset
  <1>4. Cardinality(FlippedZones(bulls, price)) = Cardinality(bulls)
        /\ Cardinality(FlippedZones(bears, price)) = Cardinality(bears)
    BY <1>3, FlipCount
  <1>5. Cardinality(bulls) \in Nat /\ Cardinality(bears) \in Nat
    BY <1>3, FS_CardinalityType
  <1> HIDE DEF bulls, bears, R
  <1>6. Majority(R) = Sign(Cardinality(bears) - Cardinality(bulls))
    BY <1>1, <1>2, <1>4 DEF Majority
  <1>7. Majority(S) = Sign(Cardinality(bulls) - Cardinality(bears))
    BY DEF Majority, bulls, bears
  <1>8. PICK n \in Int, k \in Int : n = Cardinality(bulls) /\ k = Cardinality(bears)
    BY <1>5
  <1>9. Sign(k - n) = 0 - Sign(n - k) /\ Sign(n - k) \in {-1, 0, 1}
    BY SignFlips
  <1> QED BY <1>6, <1>7, <1>8, <1>9 DEF R

LEMMA BiasFlips ==
    ASSUME NEW S \in SUBSET ZoneRecords, NEW price \in Int, None \notin Int,
           S # None, FlippedZones(S, price) # None
    PROVE  /\ ZoneBias(FlippedZones(S, price), price) = 0 - ZoneBias(S, price)
           /\ ZoneBias(S, price) \in {-1, 0, 1}
  <1> DEFINE R == FlippedZones(S, price)
             In(z) == z.tf = "H1" /\ IsLive(z) /\ z.low <= price /\ price <= z.high
             demand == \E z \in S : In(z) /\ z.bull
             supply == \E z \in S : In(z) /\ ~z.bull
  <1>1. \A z \in S : In(FlipZone(z, price)) <=> In(z)
    <2> TAKE z \in S
    <2>1. z.low \in Int /\ z.high \in Int
      BY DEF ZoneRecords
    <2>2. /\ FlipZone(z, price).low <= price <=> price <= z.high
          /\ price <= FlipZone(z, price).high <=> z.low <= price
      BY <2>1, FlipZoneFields
    <2> QED BY <2>2, FlipZoneFields DEF IsLive
  <1>0. \A z \in S : FlipZone(z, price).bull = ~z.bull
    BY FlipZoneFields
  <1>2. (\E y \in R : In(y) /\ y.bull) <=> supply
    <2>1. \A y : y \in R <=> \E z \in S : y = FlipZone(z, price)
      BY DEF FlippedZones
    <2>2. ASSUME NEW y \in R, In(y), y.bull PROVE \E z \in S : In(z) /\ ~z.bull
      <3>1. PICK z \in S : y = FlipZone(z, price)
        BY <2>1
      <3>2. In(z) /\ ~z.bull
        <4> HIDE DEF In
        <4> QED BY <1>0, <1>1, <2>2, <3>1
      <3> QED BY <3>2
    <2>3. ASSUME NEW z \in S, In(z), ~z.bull PROVE \E y \in R : In(y) /\ y.bull
      <3>1. In(FlipZone(z, price)) /\ FlipZone(z, price).bull
        <4> HIDE DEF In
        <4> QED BY <1>0, <1>1, <2>3
      <3> QED BY <2>1, <3>1
    <2> HIDE DEF In, R
    <2> QED BY <2>2, <2>3
  <1>3. (\E y \in R : In(y) /\ ~y.bull) <=> demand
    <2>1. \A y : y \in R <=> \E z \in S : y = FlipZone(z, price)
      BY DEF FlippedZones
    <2>2. ASSUME NEW y \in R, In(y), ~y.bull PROVE \E z \in S : In(z) /\ z.bull
      <3>1. PICK z \in S : y = FlipZone(z, price)
        BY <2>1
      <3>2. In(z) /\ z.bull
        <4> HIDE DEF In
        <4> QED BY <1>0, <1>1, <2>2, <3>1
      <3> QED BY <3>2
    <2>3. ASSUME NEW z \in S, In(z), z.bull PROVE \E y \in R : In(y) /\ ~y.bull
      <3>1. In(FlipZone(z, price)) /\ ~FlipZone(z, price).bull
        <4> HIDE DEF In
        <4> QED BY <1>0, <1>1, <2>3
      <3> QED BY <2>1, <3>1
    <2> HIDE DEF In, R
    <2> QED BY <2>2, <2>3
  <1>4. price # None
    OBVIOUS
  <1>5. ZoneBias(S, price) = CASE demand /\ ~supply -> 1 [] supply /\ ~demand -> -1 [] OTHER -> 0
    BY <1>4 DEF ZoneBias
  <1>6. ZoneBias(R, price) = CASE supply /\ ~demand -> 1 [] demand /\ ~supply -> -1 [] OTHER -> 0
    <2> DEFINE d == \E y \in R : In(y) /\ y.bull
               s == \E y \in R : In(y) /\ ~y.bull
    <2>1. ZoneBias(R, price) = CASE d /\ ~s -> 1 [] s /\ ~d -> -1 [] OTHER -> 0
      BY <1>4 DEF ZoneBias
    <2> HIDE DEF d, s, demand, supply, R
    <2> QED BY <1>2, <1>3, <2>1 DEF d, s
  <1> HIDE DEF demand, supply
  <1> QED BY <1>5, <1>6

Vote == {-1, 0, 1}

LEMMA H1Flips ==
    ASSUME NEW S \in SUBSET ZoneRecords, IsFiniteSet(S), NEW price \in Int, None \notin Int,
           S # None, FlippedZones(S, price) # None
    PROVE  /\ H1Score(FlippedZones(S, price), price).dir = 0 - H1Score(S, price).dir
           /\ H1Score(S, price).dir \in Vote
           /\ H1Score(FlippedZones(S, price), price).value = H1Score(S, price).value
           /\ H1Score(S, price).value \in Int
  <1> DEFINE R == FlippedZones(S, price)
             H1(zones) == {y \in zones : y.tf = "H1"}
             Live(zones) == {z \in H1(zones) : IsLive(z)}
             Far(zones) == \E z \in Live(zones) : z.disp >= 15
             Top(zones) == \E z \in H1(zones) : z.top
             Base(zones) == IF H1(zones) = {} THEN 4000
                            ELSE 5000 + Min({500 * Cardinality(Live(zones)), 1500})
                                 + (IF Far(zones) THEN 1000 ELSE 0)
                                 + (IF Top(zones) THEN 1000 ELSE 0)
  <1>1. \A z \in S : /\ FlipZone(z, price).tf = z.tf
                     /\ FlipZone(z, price).status = z.status
                     /\ FlipZone(z, price).disp = z.disp
                     /\ FlipZone(z, price).top = z.top
    BY FlipZoneFields
  <1>2. Live(R) = FlippedZones(Live(S), price) /\ H1(R) = FlippedZones(H1(S), price)
    BY <1>1 DEF FlippedZones, IsLive
  <1>3. Live(S) \in SUBSET ZoneRecords /\ IsFiniteSet(Live(S))
    BY FS_Subset
  <1>10. Base(R) = Base(S) /\ Base(S) \in Int
    <2>1. Cardinality(Live(R)) = Cardinality(Live(S)) /\ Cardinality(Live(S)) \in Nat
      <3> HIDE DEF Live, R
      <3> QED BY <1>2, <1>3, FlipCount, FS_CardinalityType
    <2>2. H1(R) = {} <=> H1(S) = {}
      BY <1>2 DEF FlippedZones
    <2>3. Far(R) <=> Far(S)
      <3>1. \A z \in Live(S) : FlipZone(z, price).disp = z.disp
        BY <1>1
      <3> HIDE DEF Live, R
      <3> QED BY <1>2, <3>1 DEF FlippedZones
    <2>4. Top(R) <=> Top(S)
      <3>1. \A z \in H1(S) : FlipZone(z, price).top = z.top
        BY <1>1
      <3> HIDE DEF H1, R
      <3> QED BY <1>2, <3>1 DEF FlippedZones
    <2>5. Min({500 * Cardinality(Live(S)), 1500}) \in Int
      BY <2>1, CappedIs
    <2> HIDE DEF H1, Live, Far, Top, R
    <2> QED BY <2>1, <2>2, <2>3, <2>4, <2>5
  <1>11. \A zones : zones # None =>
            H1Score(zones, price).value =
              Clamp(IF ZoneBias(zones, price) # 0 THEN Base(zones) + 1000 ELSE Base(zones))
    BY DEF H1Score, Sub
  <1> HIDE DEF R, Live, H1, Base, Far, Top
  <1>4. Majority(Live(R)) = 0 - Majority(Live(S)) /\ Majority(Live(S)) \in Vote
    BY <1>2, <1>3, MajorityFlips DEF Vote
  <1>5. ZoneBias(R, price) = 0 - ZoneBias(S, price) /\ ZoneBias(S, price) \in Vote
    BY BiasFlips DEF R, Vote
  <1>6. \A zones : zones # None =>
           H1Score(zones, price).dir = IF ZoneBias(zones, price) # 0 THEN ZoneBias(zones, price)
                                       ELSE Majority(Live(zones))
    BY DEF H1Score, Sub, Live, H1
  <1>7. R # None
    BY DEF R
  <1>8. H1Score(R, price).dir = IF ZoneBias(R, price) # 0 THEN ZoneBias(R, price)
                                ELSE Majority(Live(R))
    BY <1>6, <1>7
  <1>9. H1Score(S, price).dir = IF ZoneBias(S, price) # 0 THEN ZoneBias(S, price)
                                ELSE Majority(Live(S))
    BY <1>6
  <1>12. ZoneBias(R, price) # 0 <=> ZoneBias(S, price) # 0
    BY <1>5 DEF Vote
  <1>13. /\ H1Score(R, price).value = H1Score(S, price).value
         /\ H1Score(S, price).value \in Int
    BY <1>7, <1>10, <1>11, <1>12, ClampIs
  <1> QED BY <1>4, <1>5, <1>8, <1>9, <1>13 DEF R, Vote

LEMMA M5Flips ==
    ASSUME NEW S \in SUBSET ZoneRecords, IsFiniteSet(S), NEW price \in Int, None \notin Int,
           S # None, FlippedZones(S, price) # None
    PROVE  /\ M5Score(FlippedZones(S, price)).dir = 0 - M5Score(S).dir
           /\ M5Score(S).dir \in Vote
           /\ M5Score(FlippedZones(S, price)).value = M5Score(S).value
           /\ M5Score(S).value \in Int
  <1> DEFINE R == FlippedZones(S, price)
             M5(zones) == {y \in zones : y.tf = "M5"}
             Open(zones) == {z \in M5(zones) : z.status = "open"}
             Used(zones) == {z \in M5(zones) : z.status = "mitigated"}
             Far(zones) == \E z \in Open(zones) : z.disp >= 10
             Points(zones) == 5000 + Min({500 * Cardinality(Open(zones)), 2000})
                                + (IF Far(zones) THEN 1000 ELSE 0)
                                - (IF Cardinality(Used(zones)) > 5 THEN 500 ELSE 0)
  <1>1. \A z \in S : /\ FlipZone(z, price).tf = z.tf
                     /\ FlipZone(z, price).status = z.status
                     /\ FlipZone(z, price).disp = z.disp
    BY FlipZoneFields
  <1>2. Open(R) = FlippedZones(Open(S), price) /\ Used(R) = FlippedZones(Used(S), price)
    BY <1>1 DEF FlippedZones
  <1>3. /\ Open(S) \in SUBSET ZoneRecords /\ IsFiniteSet(Open(S))
        /\ Used(S) \in SUBSET ZoneRecords /\ IsFiniteSet(Used(S))
    BY FS_Subset
  <1>4. \A zones : zones # None => /\ M5Score(zones).dir = Majority(Open(zones))
                                   /\ M5Score(zones).value = Clamp(Points(zones))
    BY DEF M5Score, Sub
  <1>7. Far(R) <=> Far(S)
    <2>1. \A z \in Open(S) : FlipZone(z, price).disp = z.disp
      BY <1>1
    <2> HIDE DEF Open, R
    <2> QED BY <1>2, <2>1 DEF FlippedZones
  <1> HIDE DEF R, M5, Open, Used, Far
  <1>5. Majority(Open(R)) = 0 - Majority(Open(S)) /\ Majority(Open(S)) \in Vote
    BY <1>2, <1>3, MajorityFlips DEF Vote
  <1>6. R # None
    BY DEF R
  <1>8. Points(R) = Points(S) /\ Points(S) \in Int
    <2>1. /\ Cardinality(Open(R)) = Cardinality(Open(S)) /\ Cardinality(Open(S)) \in Nat
          /\ Cardinality(Used(R)) = Cardinality(Used(S)) /\ Cardinality(Used(S)) \in Nat
      BY <1>2, <1>3, FlipCount, FS_CardinalityType
    <2>2. Min({500 * Cardinality(Open(S)), 2000}) \in Int
      BY <2>1, CappedIs
    <2> QED BY <1>7, <2>1, <2>2
  <1> HIDE DEF Points
  <1> QED BY <1>4, <1>5, <1>6, <1>8, ClampIs DEF R

\* The zones that count as extended, on M5, are as many.
LEMMA ExtendedStay ==
    ASSUME NEW S \in SUBSET ZoneRecords, IsFiniteSet(S), NEW price \in Int, None \notin Int
    PROVE  Cardinality({z \in FlippedZones(S, price) : z.tf = "M5" /\ z.low < z.high})
             = Cardinality({z \in S : z.tf = "M5" /\ z.low < z.high})
  <1> DEFINE In(z) == z.tf = "M5" /\ z.low < z.high
             part == {z \in S : In(z)}
  <1>1. \A z \in S : In(FlipZone(z, price)) <=> In(z)
    <2> TAKE z \in S
    <2>1. z.low \in Int /\ z.high \in Int
      BY DEF ZoneRecords
    <2>2. /\ FlipZone(z, price).low = 2 * price - z.high
          /\ FlipZone(z, price).high = 2 * price - z.low
          /\ FlipZone(z, price).tf = z.tf
      BY FlipZoneFields
    <2>3. 2 * price - z.high < 2 * price - z.low <=> z.low < z.high
      BY <2>1
    <2> QED BY <2>2, <2>3
  <1>2. {z \in FlippedZones(S, price) : In(z)} = FlippedZones(part, price)
    <2> HIDE DEF In
    <2> QED BY <1>1 DEF FlippedZones
  <1>3. part \in SUBSET ZoneRecords /\ IsFiniteSet(part)
    BY FS_Subset
  <1> HIDE DEF part
  <1>4. Cardinality(FlippedZones(part, price)) = Cardinality(part)
    BY <1>3, FlipCount
  <1> QED BY <1>2, <1>4 DEF part

Levels == [event : STRING, dist : Int \cup {None}]
FlippedLevels(s) == [i \in DOMAIN s |-> [s[i] EXCEPT !.event = FlipEvent(s[i].event)]]

LEMMA VwapFlips ==
    ASSUME NEW v \in [cluster : BOOLEAN, levels : Seq(Levels)], NEW w,
           v # None, w # None, w = FlipVwap(v)
    PROVE  /\ VwapScore(w).dir = 0 - VwapScore(v).dir
           /\ VwapScore(v).dir \in Vote
           /\ w.cluster = v.cluster
           /\ w.levels = <<>> <=> v.levels = <<>>
           /\ VwapScore(v).value \in Int /\ VwapScore(w).value \in Int
           /\ VwapScore(v).value - VwapScore(w).value = 1000 * VwapScore(v).dir
  <1> DEFINE s == v.levels
             r == FlippedLevels(s)
             Voting(t, d) == {i \in DOMAIN t : LevelVote(t[i].event) = d}
  <1>1. s \in Seq(Levels) /\ Len(s) \in Nat /\ DOMAIN s = 1..Len(s)
    OBVIOUS
  <1>2. w.levels = r /\ w.cluster = v.cluster
    BY DEF FlipVwap, FlippedLevels
  <1>3. DOMAIN r = DOMAIN s /\ \A i \in DOMAIN s : r[i].event = FlipEvent(s[i].event)
                                                  /\ r[i].dist = s[i].dist
    <2> HIDE DEF s
    <2>1. \A i \in DOMAIN s : s[i] \in Levels
      BY <1>1
    <2> QED BY <2>1 DEF FlippedLevels, Levels
  <1>4. r = <<>> <=> s = <<>>
    <2> HIDE DEF r, s
    <2>1. s = <<>> => DOMAIN s = {}
      OBVIOUS
    <2>2. DOMAIN s = {} => s = <<>>
      BY <1>1
    <2>3. r = <<>> => DOMAIN r = {}
      OBVIOUS
    <2>4. DOMAIN s = {} => r = <<>>
      BY DEF r, FlippedLevels
    <2> QED BY <1>3, <2>1, <2>2, <2>3, <2>4
  <1>5. \A e : LevelVote(FlipEvent(e)) = 0 - LevelVote(e) /\ LevelVote(e) \in Vote
    BY DEF LevelVote, FlipEvent, Vote
  <1>6. Voting(r, 1) = Voting(s, -1) /\ Voting(r, -1) = Voting(s, 1)
    <2> HIDE DEF r, s
    <2>1. \A i \in DOMAIN s : /\ LevelVote(r[i].event) = 0 - LevelVote(s[i].event)
                              /\ LevelVote(s[i].event) \in Vote
      BY <1>3, <1>5
    <2> QED BY <1>3, <2>1 DEF Vote
  <1>7. /\ Cardinality(Voting(s, 1)) \in Nat /\ Cardinality(Voting(s, -1)) \in Nat
    <2>1. 1 \in Int /\ Len(s) \in Int
      BY <1>1
    <2>2. IsFiniteSet(DOMAIN s)
      BY <1>1, <2>1, FS_Interval
    <2> HIDE DEF s
    <2>3. IsFiniteSet(Voting(s, 1)) /\ IsFiniteSet(Voting(s, -1))
      BY <2>2, FS_Subset
    <2> QED BY <2>3, FS_CardinalityType
  <1> DEFINE Tally(t) == Sign(Cardinality(Voting(t, 1)) - Cardinality(Voting(t, -1)))
  <1>8. Tally(r) = 0 - Tally(s) /\ Tally(s) \in Vote
    <2> HIDE DEF s, r, Voting
    <2>1. PICK n \in Int, k \in Int : n = Cardinality(Voting(s, 1)) /\ k = Cardinality(Voting(s, -1))
      BY <1>7
    <2>2. Sign(k - n) = 0 - Sign(n - k) /\ Sign(n - k) \in {-1, 0, 1}
      BY SignFlips
    <2> QED BY <1>6, <2>1, <2>2 DEF Vote
  <1>9. VwapScore(v).dir = IF s = <<>> THEN 0 ELSE Tally(s)
    BY DEF VwapScore, Sub, NoData
  <1>10. VwapScore(w).dir = IF r = <<>> THEN 0 ELSE Tally(r)
    <2>1. VwapScore(w).dir = IF w.levels = <<>> THEN 0 ELSE Tally(w.levels)
      BY DEF VwapScore, Sub, NoData
    <2> HIDE DEF r, s, Tally
    <2> QED BY <1>2, <2>1
  <1> DEFINE Far(t) == \E i \in DOMAIN t : t[i].dist # None /\ Abs(t[i].dist) > 3
             Points(u, d) == (IF u.cluster THEN 7500 ELSE 5000) + 500 * d
                               - (IF Far(u.levels) THEN 1000 ELSE 0)
  <1>11. \A u : VwapScore(u).value = IF u = None \/ u.levels = <<>> THEN 5000
                                     ELSE Clamp(Points(u, Tally(u.levels)))
    BY DEF VwapScore, Sub, NoData
  <1>12. Far(r) <=> Far(s)
    <2> HIDE DEF r, s
    <2> QED BY <1>3
  <1> HIDE DEF Tally, r, s, Far
  <1>13. \A u : \A d \in Vote : /\ Points(u, d) \in Int
                                 /\ 0 <= Points(u, d) /\ Points(u, d) <= 10000
    BY DEF Vote
  <1>14. Points(v, Tally(s)) - Points(w, Tally(r)) = 1000 * Tally(s)
    BY <1>2, <1>8, <1>12 DEF s, Vote
  <1> HIDE DEF Points
  <1>15. /\ VwapScore(v).value \in Int /\ VwapScore(w).value \in Int
         /\ VwapScore(v).value - VwapScore(w).value = 1000 * VwapScore(v).dir
    <2>1. CASE s = <<>>
      BY <1>2, <1>4, <1>9, <1>11, <2>1 DEF s
    <2>2. CASE s # <<>>
      <3>1. Tally(s) \in Vote /\ Tally(r) \in Vote
        BY <1>8 DEF Vote
      <3>2. /\ Points(v, Tally(s)) \in Int /\ Points(w, Tally(r)) \in Int
            /\ 0 <= Points(v, Tally(s)) /\ Points(v, Tally(s)) <= 10000
            /\ 0 <= Points(w, Tally(r)) /\ Points(w, Tally(r)) <= 10000
        BY <1>13, <3>1
      <3>3. VwapScore(v).value = Points(v, Tally(s))
        BY <1>11, <2>2, <3>2, ClampIs DEF s
      <3>4. VwapScore(w).value = Points(w, Tally(r))
        BY <1>2, <1>4, <1>11, <2>2, <3>2, ClampIs
      <3> QED BY <1>9, <1>14, <2>2, <3>2, <3>3, <3>4
    <2> QED BY <2>1, <2>2
  <1>16. w.levels = <<>> <=> v.levels = <<>>
    BY <1>2, <1>4 DEF s
  <1> QED BY <1>2, <1>4, <1>8, <1>9, <1>10, <1>15, <1>16 DEF Vote

LEMMA MomentumFlips ==
    ASSUME NEW m, None \notin LastBars, m # None,
           m \in [score : Int, displaced : BOOLEAN, m5 : LastBars \cup {None}],
           NEW w, w = FlipMomentum(m), w # None
    PROVE  /\ MomentumScore(w).dir = 0 - MomentumScore(m).dir /\ MomentumScore(m).dir \in Vote
           /\ MomentumScore(w).value = MomentumScore(m).value /\ MomentumScore(m).value \in Int
  <1> DEFINE Points(u) == 100 * u.score + (IF u.displaced THEN 500 ELSE 0)
  <1>3. \A u : u # None => MomentumScore(u).value = Clamp(Points(u))
    BY DEF MomentumScore, Sub
  <1>4. m.score \in Int /\ Points(m) \in Int
    OBVIOUS
  <1>5. w.score = m.score /\ w.displaced = m.displaced
    BY DEF FlipMomentum
  <1>6. MomentumScore(w).value = MomentumScore(m).value /\ MomentumScore(m).value \in Int
    <2>1. Points(w) = Points(m)
      BY <1>5
    <2> HIDE DEF Points
    <2> QED BY <1>3, <1>4, <2>1, ClampIs
  <1>1. CASE m.m5 = None
    <2>1. w = m
      BY <1>1 DEF FlipMomentum
    <2>2. MomentumScore(m).dir = 0
      BY <1>1 DEF MomentumScore, Sub
    <2> QED BY <1>6, <2>1, <2>2 DEF Vote
  <1>2. CASE m.m5 # None
    <2>1. m.m5 \in LastBars
      BY <1>2
    <2>2. w.m5 \in LastBars /\ w.m5.body = m.m5.body /\ w.m5.closePos = 10 - m.m5.closePos
      BY <1>2, <2>1 DEF LastBars, FlipMomentum
    <2>3. w.m5 # None
      BY <2>2
    <2>4. m.m5.closePos \in Int
      BY <2>1 DEF LastBars
    <2>5. MomentumScore(m).dir = IF m.m5.body <= 5 THEN 0
                                 ELSE CASE m.m5.closePos > 7 -> 1 [] m.m5.closePos < 3 -> -1 [] OTHER -> 0
      BY <1>2 DEF MomentumScore, Sub
    <2>6. MomentumScore(w).dir = IF w.m5.body <= 5 THEN 0
                                 ELSE CASE w.m5.closePos > 7 -> 1 [] w.m5.closePos < 3 -> -1 [] OTHER -> 0
      BY <2>3 DEF MomentumScore, Sub
    <2> HIDE DEF Points
    <2> QED BY <1>6, <2>2, <2>4, <2>5, <2>6 DEF Vote
  <1> QED BY <1>1, <1>2

\* What is there stays there in the mirror.
Stays(b) == \A f \in Parts : b[f] # None => Mirror(b)[f] # None
NoneIsNoPart == None \notin Int /\ None \notin StructureEvents /\ None \notin LastBars

LEMMA MirrorParts ==
    ASSUME NEW b, Parts \subseteq DOMAIN b
    PROVE  LET m == Mirror(b)
           IN  /\ m.price = b.price /\ m.atr = b.atr /\ m.session = b.session /\ m.news = b.news
               /\ m.zones = FlipZones(b.zones, b.price) /\ m.vwap = FlipVwap(b.vwap)
               /\ m.liquidity = FlipLiquidity(b.liquidity, b.price) /\ m.vr = FlipProfile(b.vr)
               /\ m.momentum = FlipMomentum(b.momentum)
               /\ m.structure = FlipStructure(b.structure, b.price)
  BY DEF Mirror, Parts

LEMMA ZonesFlip ==
    ASSUME NEW b, IsBundle(b), Stays(b), NoneIsNoPart
    PROVE  LET m == Mirror(b)
           IN  /\ H1Score(m.zones, m.price).dir = 0 - H1Score(b.zones, b.price).dir
               /\ M5Score(m.zones).dir = 0 - M5Score(b.zones).dir
               /\ ZoneBias(m.zones, m.price) = 0 - ZoneBias(b.zones, b.price)
               /\ H1Score(b.zones, b.price).dir \in Vote
               /\ M5Score(b.zones).dir \in Vote
               /\ ZoneBias(b.zones, b.price) \in Vote
               /\ H1Score(m.zones, m.price).value = H1Score(b.zones, b.price).value
               /\ M5Score(m.zones).value = M5Score(b.zones).value
               /\ H1Score(b.zones, b.price).value \in Int /\ M5Score(b.zones).value \in Int
  <1> DEFINE m == Mirror(b)
  <1>1. Parts \subseteq DOMAIN b /\ b.price \in Int /\ m.price = b.price
    BY MirrorParts DEF IsBundle
  <1>2. CASE b.zones = None
    <2>1. m.zones = None
      BY <1>1, <1>2, MirrorParts DEF FlipZones
    <2>2. /\ H1Score(None, b.price) = NoData /\ M5Score(None) = NoData
          /\ ZoneBias(None, b.price) = 0 /\ NoData.dir = 0 /\ NoData.value \in Int
      BY DEF H1Score, M5Score, ZoneBias, NoData
    <2>3. /\ H1Score(m.zones, m.price).dir = 0 /\ H1Score(b.zones, b.price).dir = 0
          /\ M5Score(m.zones).dir = 0 /\ M5Score(b.zones).dir = 0
          /\ ZoneBias(m.zones, m.price) = 0 /\ ZoneBias(b.zones, b.price) = 0
          /\ H1Score(m.zones, m.price).value = H1Score(b.zones, b.price).value
          /\ M5Score(m.zones).value = M5Score(b.zones).value
          /\ H1Score(b.zones, b.price).value \in Int /\ M5Score(b.zones).value \in Int
      BY <1>1, <1>2, <2>1, <2>2
    <2>4. 0 = 0 - 0 /\ 0 \in Vote
      BY DEF Vote
    <2> QED BY <2>3, <2>4
  <1>3. CASE b.zones # None
    <2> DEFINE S == b.zones
    <2>1. S \in SUBSET ZoneRecords /\ IsFiniteSet(S) /\ S # None
      BY <1>3 DEF IsBundle
    <2>2. m.zones = FlippedZones(S, b.price)
      BY <1>1, <1>3, MirrorParts DEF FlipZones, FlippedZones
    <2>3. m.zones # None
      BY <1>3 DEF Stays, Parts
    <2> HIDE DEF m, S
    <2>4. FlippedZones(S, b.price) # None
      BY <2>2, <2>3
    <2>5. /\ H1Score(FlippedZones(S, b.price), b.price).dir = 0 - H1Score(S, b.price).dir
          /\ H1Score(S, b.price).dir \in Vote
          /\ H1Score(FlippedZones(S, b.price), b.price).value = H1Score(S, b.price).value
          /\ H1Score(S, b.price).value \in Int
      BY <1>1, <2>1, <2>4, H1Flips DEF NoneIsNoPart
    <2>6. /\ M5Score(FlippedZones(S, b.price)).dir = 0 - M5Score(S).dir /\ M5Score(S).dir \in Vote
          /\ M5Score(FlippedZones(S, b.price)).value = M5Score(S).value /\ M5Score(S).value \in Int
      BY <1>1, <2>1, <2>4, M5Flips DEF NoneIsNoPart
    <2>7. /\ ZoneBias(FlippedZones(S, b.price), b.price) = 0 - ZoneBias(S, b.price)
          /\ ZoneBias(S, b.price) \in Vote
      BY <1>1, <2>1, <2>4, BiasFlips DEF NoneIsNoPart, Vote
    <2> QED BY <1>1, <2>2, <2>5, <2>6, <2>7 DEF m, S
  <1> QED BY <1>2, <1>3

LEMMA VwapPartFlips ==
    ASSUME NEW b, IsBundle(b), Stays(b)
    PROVE  LET m == Mirror(b)
           IN  /\ VwapScore(m.vwap).dir = 0 - VwapScore(b.vwap).dir /\ VwapScore(b.vwap).dir \in Vote
               /\ m.vwap = None <=> b.vwap = None
               /\ b.vwap # None => /\ m.vwap.cluster = b.vwap.cluster
                                   /\ m.vwap.levels = <<>> <=> b.vwap.levels = <<>>
               /\ VwapScore(b.vwap).value \in Int /\ VwapScore(m.vwap).value \in Int
               /\ VwapScore(b.vwap).value - VwapScore(m.vwap).value = 1000 * VwapScore(b.vwap).dir
  <1> DEFINE v == b.vwap
             w == Mirror(b).vwap
  <1>1. Parts \subseteq DOMAIN b
    BY DEF IsBundle
  <1>2. CASE v = None
    <2>1. w = None
      BY <1>1, <1>2, MirrorParts DEF FlipVwap
    <2>2. VwapScore(None).dir = 0 /\ VwapScore(None).value = 5000
      BY DEF VwapScore, NoData
    <2>3. /\ VwapScore(v).dir = 0 /\ VwapScore(w).dir = 0
          /\ VwapScore(v).value = 5000 /\ VwapScore(w).value = 5000
      BY <1>2, <2>1, <2>2
    <2>4. 0 = 0 - 0 /\ 0 \in Vote
      BY DEF Vote
    <2> QED BY <1>2, <2>1, <2>3, <2>4
  <1>3. CASE v # None
    <2>1. w = FlipVwap(v)
      BY <1>1, <1>3, MirrorParts
    <2>2. w # None
      BY <1>3 DEF Stays, Parts
    <2>3. v \in [cluster : BOOLEAN, levels : Seq(Levels)]
      BY <1>3 DEF IsBundle, Levels
    <2> HIDE DEF v, w
    <2>4. /\ VwapScore(w).dir = 0 - VwapScore(v).dir /\ VwapScore(v).dir \in Vote /\ w.cluster = v.cluster
          /\ w.levels = <<>> <=> v.levels = <<>>
          /\ VwapScore(v).value \in Int /\ VwapScore(w).value \in Int
          /\ VwapScore(v).value - VwapScore(w).value = 1000 * VwapScore(v).dir
      BY <1>3, <2>1, <2>2, <2>3, VwapFlips
    <2> QED BY <1>3, <2>2, <2>4 DEF v, w
  <1> QED BY <1>2, <1>3

LEMMA MomentumPartFlips ==
    ASSUME NEW b, IsBundle(b), Stays(b), NoneIsNoPart
    PROVE  LET m == Mirror(b)
           IN  /\ MomentumScore(m.momentum).dir = 0 - MomentumScore(b.momentum).dir
               /\ MomentumScore(b.momentum).dir \in Vote
               /\ MomentumScore(m.momentum).value = MomentumScore(b.momentum).value
               /\ MomentumScore(b.momentum).value \in Int
  <1> DEFINE v == b.momentum
             w == Mirror(b).momentum
  <1>1. Parts \subseteq DOMAIN b
    BY DEF IsBundle
  <1>2. CASE v = None
    <2>1. w = None
      BY <1>1, <1>2, MirrorParts DEF FlipMomentum
    <2>2. MomentumScore(None).dir = 0 /\ MomentumScore(None).value = 5000
      BY DEF MomentumScore, NoData
    <2>3. /\ MomentumScore(v).dir = 0 /\ MomentumScore(w).dir = 0
          /\ MomentumScore(v).value = 5000 /\ MomentumScore(w).value = 5000
      BY <1>2, <2>1, <2>2
    <2>4. 0 = 0 - 0 /\ 0 \in Vote
      BY DEF Vote
    <2> QED BY <1>2, <2>1, <2>3, <2>4
  <1>3. CASE v # None
    <2>1. w = FlipMomentum(v)
      BY <1>1, <1>3, MirrorParts
    <2>2. w # None
      BY <1>3 DEF Stays, Parts
    <2>3. v \in [score : Int, displaced : BOOLEAN, m5 : LastBars \cup {None}]
      BY <1>3 DEF IsBundle
    <2> HIDE DEF v, w
    <2>4. /\ MomentumScore(w).dir = 0 - MomentumScore(v).dir /\ MomentumScore(v).dir \in Vote
          /\ MomentumScore(w).value = MomentumScore(v).value /\ MomentumScore(v).value \in Int
      BY <1>3, <2>1, <2>2, <2>3, MomentumFlips DEF NoneIsNoPart
    <2> QED BY <2>4 DEF v, w
  <1> QED BY <1>2, <1>3

InScale(n) == n \in Int /\ 0 <= n /\ n <= 65

PointsOf(p, early, inside, unknown) == ProfilePoints(p, <<early, inside, 65, 45, unknown>>)

\* A locked profile is worth twenty points more above its value area than below.
LEMMA ProfileTilts ==
    ASSUME NEW early \in Int, NEW inside \in Int, NEW unknown \in Int,
           InScale(early), InScale(inside), InScale(unknown),
           NEW p \in Profiles, NEW q \in Profiles,
           q.developing = p.developing, q.status = FlipStatus(p.status)
    PROVE  /\ InScale(PointsOf(p, early, inside, unknown))
           /\ InScale(PointsOf(q, early, inside, unknown))
           /\ PointsOf(p, early, inside, unknown) - PointsOf(q, early, inside, unknown)
                = 20 * Tilt(p)
           /\ Tilt(p) \in Vote
  <1> DEFINE Points(profile) == PointsOf(profile, early, inside, unknown)
  <1>1. \A r : Points(r) = IF r.developing THEN early
                           ELSE CASE r.status = "within" -> inside
                                  [] r.status = "above" -> 65
                                  [] r.status = "below" -> 45
                                  [] OTHER -> unknown
    BY DEF PointsOf, ProfilePoints
  <1> HIDE DEF Points
  <1>2. CASE p.developing
    <2>1. Points(p) = early
      BY <1>1, <1>2
    <2>2. Points(q) = early
      <3>1. q.developing
        BY <1>2
      <3> QED BY <1>1, <3>1
    <2>3. Tilt(p) = 0
      BY <1>2 DEF Tilt
    <2> QED BY <2>1, <2>2, <2>3 DEF InScale, Vote, Points
  <1>3. CASE ~p.developing /\ p.status = "above"
    <2>1. Points(p) = 65 /\ Points(q) = 45 /\ Tilt(p) = 1
      BY <1>1, <1>3 DEF Tilt, FlipStatus
    <2> QED BY <2>1 DEF InScale, Vote, Points
  <1>4. CASE ~p.developing /\ p.status = "below"
    <2>1. Points(p) = 45 /\ Points(q) = 65 /\ Tilt(p) = -1
      BY <1>1, <1>4 DEF Tilt, FlipStatus
    <2> QED BY <2>1 DEF InScale, Vote, Points
  <1>5. CASE ~p.developing /\ p.status = "within"
    <2>1. Points(p) = inside /\ Points(q) = inside /\ Tilt(p) = 0
      BY <1>1, <1>5 DEF Tilt, FlipStatus
    <2> QED BY <2>1 DEF InScale, Vote, Points
  <1>6. CASE ~p.developing /\ p.status \notin {"above", "below", "within"}
    <2>1. Points(p) = unknown /\ Points(q) = unknown /\ Tilt(p) = 0
      BY <1>1, <1>6 DEF Tilt, FlipStatus
    <2> QED BY <2>1 DEF InScale, Vote, Points
  <1> QED BY <1>2, <1>3, <1>4, <1>5, <1>6

LEMMA VolumePartLeads ==
    ASSUME NEW b, IsBundle(b), Stays(b)
    PROVE  LET x == VolumeScore(b.vr)
               y == VolumeScore(Mirror(b).vr)
           IN  /\ x.dir = 0 /\ y.dir = 0 /\ x.value \in Int /\ y.value \in Int
               /\ x.value - y.value =
                    IF b.vr = None THEN 0
                    ELSE 100 * (8 * Tilt(b.vr.yearly) + 5 * Tilt(b.vr.monthly)
                                  + 4 * Tilt(b.vr.weekly))
               /\ b.vr # None => /\ Tilt(b.vr.yearly) \in Vote
                                 /\ Tilt(b.vr.monthly) \in Vote
                                 /\ Tilt(b.vr.weekly) \in Vote
  <1> DEFINE u == b.vr
             v == Mirror(b).vr
  <1>1. v = FlipProfile(u)
    BY MirrorParts DEF IsBundle
  <1>2. \A w : VolumeScore(w).dir = 0
    BY DEF VolumeScore, Sub, NoData
  <1>3. CASE u = None
    <2>1. v = None
      BY <1>1, <1>3 DEF FlipProfile
    <2>2. VolumeScore(None).value = 5000
      BY DEF VolumeScore, NoData
    <2> HIDE DEF u, v
    <2>3. VolumeScore(u).value = 5000 /\ VolumeScore(v).value = 5000
      BY <1>3, <2>1, <2>2
    <2> QED BY <1>2, <1>3, <2>3 DEF u, v
  <1>4. CASE u # None
    <2>1. u \in [yearly : Profiles, monthly : Profiles, weekly : Profiles,
                 accepted : Int, rotation : BOOLEAN, breakout : BOOLEAN]
      BY <1>4 DEF IsBundle
    <2>2. v # None
      BY <1>4 DEF Stays, Parts
    <2> HIDE DEF u, v
    <2>3. /\ v.yearly = [u.yearly EXCEPT !.status = FlipStatus(u.yearly.status)]
          /\ v.monthly = [u.monthly EXCEPT !.status = FlipStatus(u.monthly.status)]
          /\ v.weekly = [u.weekly EXCEPT !.status = FlipStatus(u.weekly.status)]
          /\ v.accepted = u.accepted /\ v.rotation = u.rotation /\ v.breakout = u.breakout
      BY <1>1, <1>4, <2>1 DEF FlipProfile, Profiles
    <2>4. u.yearly \in Profiles /\ u.monthly \in Profiles /\ u.weekly \in Profiles
      BY <2>1
    <2>12. \A p \in Profiles : \A q : q = [p EXCEPT !.status = FlipStatus(p.status)] =>
              q \in Profiles /\ q.developing = p.developing /\ q.status = FlipStatus(p.status)
      <3>1. \A p \in Profiles : FlipStatus(p.status) \in ValueStatuses
        BY DEF Profiles, FlipStatus, ValueStatuses
      <3> QED BY <3>1 DEF Profiles
    <2>15. \A f \in {"yearly", "monthly", "weekly"} :
             /\ v[f] \in Profiles /\ v[f].developing = u[f].developing
             /\ v[f].status = FlipStatus(u[f].status)
      BY <2>3, <2>4, <2>12
    <2>13. InScale(50) /\ InScale(55) /\ InScale(40) /\ InScale(45) /\ InScale(60) /\ InScale(35)
      BY DEF InScale
    <2> DEFINE Outer(p) == PointsOf(p, 50, 55, 40)
               Week(p) == PointsOf(p, 45, 60, 35)
               Bonus(w) == (IF w.rotation THEN 500 ELSE 0) + (IF w.breakout THEN 500 ELSE 0)
               Accepted(w) == IF w.accepted > 100 THEN 30 ELSE IF w.accepted > 20 THEN 50 ELSE 65
               Core(w) == 5 * (8 * Outer(w.yearly) + 5 * Outer(w.monthly) + 4 * Week(w.weekly)
                                   + 3 * Accepted(w))
               Points(w) == Core(w) + (IF w.rotation THEN 500 ELSE 0)
                              + (IF w.breakout THEN 500 ELSE 0)
    <2>5. \A w : w # None => VolumeScore(w).value = Clamp(Points(w))
      BY DEF VolumeScore, Sub, PointsOf
    <2>6. /\ InScale(Outer(u.yearly)) /\ InScale(Outer(v.yearly))
          /\ Outer(u.yearly) - Outer(v.yearly) = 20 * Tilt(u.yearly) /\ Tilt(u.yearly) \in Vote
      BY <2>4, <2>13, <2>15, ProfileTilts
    <2>7. /\ InScale(Outer(u.monthly)) /\ InScale(Outer(v.monthly))
          /\ Outer(u.monthly) - Outer(v.monthly) = 20 * Tilt(u.monthly) /\ Tilt(u.monthly) \in Vote
      BY <2>4, <2>13, <2>15, ProfileTilts
    <2>8. /\ InScale(Week(u.weekly)) /\ InScale(Week(v.weekly))
          /\ Week(u.weekly) - Week(v.weekly) = 20 * Tilt(u.weekly) /\ Tilt(u.weekly) \in Vote
      BY <2>4, <2>13, <2>15, ProfileTilts
    <2>9. Accepted(v) = Accepted(u) /\ InScale(Accepted(u))
      BY <2>3 DEF InScale
    <2>14. Bonus(v) = Bonus(u) /\ Bonus(u) \in Int /\ 0 <= Bonus(u) /\ Bonus(u) <= 1000
      BY <2>3
    <2>16. /\ Core(u) \in Int /\ 0 <= Core(u) /\ Core(u) <= 6500
           /\ Core(v) \in Int /\ 0 <= Core(v) /\ Core(v) <= 6500
      BY <2>6, <2>7, <2>8, <2>9 DEF InScale
    <2>17. Points(u) = Core(u) + Bonus(u) /\ Points(v) = Core(v) + Bonus(v)
      <3> HIDE DEF Core
      <3>1. \A w : (IF w.rotation THEN 500 ELSE 0) \in Int /\ (IF w.breakout THEN 500 ELSE 0) \in Int
        OBVIOUS
      <3>2. \A n, c, d \in Int : n + c + d = n + (c + d)
        OBVIOUS
      <3> QED BY <2>16, <3>1, <3>2
    <2> HIDE DEF Outer, Week, Accepted, Bonus, Points
    <2>10. /\ Points(u) \in Int /\ 0 <= Points(u) /\ Points(u) <= 10000
           /\ Points(v) \in Int /\ 0 <= Points(v) /\ Points(v) <= 10000
           /\ Points(u) - Points(v) =
                100 * (8 * Tilt(u.yearly) + 5 * Tilt(u.monthly) + 4 * Tilt(u.weekly))
      <3>1. \A y1, y2, m1, m2, w1, w2, c, d, t1, t2, t3 \in Int :
              /\ y1 - y2 = 20 * t1 /\ m1 - m2 = 20 * t2 /\ w1 - w2 = 20 * t3
              => (5 * (8 * y1 + 5 * m1 + 4 * w1 + 3 * c) + d)
                   - (5 * (8 * y2 + 5 * m2 + 4 * w2 + 3 * c) + d)
                   = 100 * (8 * t1 + 5 * t2 + 4 * t3)
        OBVIOUS
      <3>3. /\ Tilt(u.yearly) \in Int /\ Tilt(u.monthly) \in Int /\ Tilt(u.weekly) \in Int
            /\ Outer(u.yearly) \in Int /\ Outer(u.monthly) \in Int /\ Week(u.weekly) \in Int
            /\ Outer(v.yearly) \in Int /\ Outer(v.monthly) \in Int /\ Week(v.weekly) \in Int
            /\ Accepted(u) \in Int
        BY <2>6, <2>7, <2>8, <2>9 DEF Vote, InScale
      <3>4. Points(u) - Points(v) =
              100 * (8 * Tilt(u.yearly) + 5 * Tilt(u.monthly) + 4 * Tilt(u.weekly))
        BY <2>6, <2>7, <2>8, <2>9, <2>14, <2>17, <3>1, <3>3
      <3>2. /\ Points(u) \in Int /\ 0 <= Points(u) /\ Points(u) <= 10000
            /\ Points(v) \in Int /\ 0 <= Points(v) /\ Points(v) <= 10000
        <4> HIDE DEF Core
        <4> QED BY <2>14, <2>16, <2>17
      <3> QED BY <3>2, <3>4
    <2> HIDE DEF Points
    <2>11. VolumeScore(u).value = Points(u) /\ VolumeScore(v).value = Points(v)
      BY <1>4, <2>2, <2>5, <2>10, ClampIs
    <2> QED BY <1>2, <1>4, <2>6, <2>7, <2>8, <2>10, <2>11 DEF u, v
  <1> QED BY <1>3, <1>4

\* Turned targets are as many.
LEMMA FlipTargets ==
    ASSUME NEW S \in SUBSET Int, IsFiniteSet(S), NEW price \in Int, None \notin Int
    PROVE  LET R == {Flip(c, price) : c \in S}
           IN  Cardinality(R) = Cardinality(S) /\ (R = {} <=> S = {})
  <1> DEFINE R == {Flip(c, price) : c \in S}
             f == [c \in S |-> Flip(c, price)]
  <1>1. f \in [S -> R] /\ \A y \in R : \E c \in S : f[c] = y
    OBVIOUS
  <1>2. \A c, d \in S : f[c] = f[d] => c = d
    <2> SUFFICES ASSUME NEW c \in S, NEW d \in S, Flip(c, price) = Flip(d, price) PROVE c = d
      OBVIOUS
    <2>1. c \in Int /\ d \in Int
      OBVIOUS
    <2>2. Flip(c, price) = 2 * price - c /\ Flip(d, price) = 2 * price - d
      BY <2>1 DEF Flip
    <2>3. 2 * price - c = 2 * price - d
      BY <2>2
    <2> HIDE DEF f, R
    <2> QED BY <2>1, <2>3
  <1>3. R = {} <=> S = {}
    OBVIOUS
  <1> HIDE DEF R, f
  <1>4. f \in Bijection(S, R)
    BY <1>1, <1>2, Fun_IsBij
  <1>5. ExistsBijection(S, R)
    BY <1>4 DEF ExistsBijection
  <1>6. Cardinality(R) = Cardinality(S)
    BY <1>5, FS_Bijection
  <1> QED BY <1>3, <1>6 DEF R

\* The targets of both sides count alike, and the session stays.
LEMMA SessionLiquidityStays ==
    ASSUME NEW b, IsBundle(b), Stays(b), NoneIsNoPart
    PROVE  LET x == SessionLiquidity(b)
               y == SessionLiquidity(Mirror(b))
           IN  /\ x.value = y.value /\ x.value \in Int
               /\ x.dir = SessionVote(b) /\ y.dir = SessionVote(b) /\ SessionVote(b) \in {0, 1}
  <1> DEFINE m == Mirror(b)
             l == b.liquidity
             k == m.liquidity
  <1>1. m.session = b.session /\ k = FlipLiquidity(l, b.price) /\ b.price \in Int
    BY MirrorParts DEF IsBundle
  <1>2. SessionScore(b.session).value \in Int /\ SessionScore(b.session).dir \in {0, 1}
    <2>1. CASE b.session = None
      BY <2>1 DEF SessionScore, NoData
    <2>2. CASE b.session # None
      <3> DEFINE n == b.session
                 Equal == CASE n.eqHighs /\ n.eqLows -> 500 [] n.eqHighs # n.eqLows -> 300
                            [] OTHER -> 0
                 Points == 800 * n.risk + (IF n.sweep THEN 1000 ELSE 0) + Equal
      <3>1. n \in Sessions
        BY <2>2 DEF IsBundle
      <3>2. n.risk \in Int /\ Equal \in Int
        BY <3>1 DEF Sessions
      <3>3. /\ SessionScore(n).value = Clamp(Points)
            /\ SessionScore(n).dir = IF n.name \in {"london", "ny", "overlap"} THEN 1 ELSE 0
        BY <2>2 DEF SessionScore, Sub
      <3> HIDE DEF n, Equal
      <3>4. Points \in Int
        BY <3>2
      <3> HIDE DEF Points
      <3> QED BY <3>3, <3>4, ClampIs DEF n
    <2> QED BY <2>1, <2>2
  <1>3. \A w : LiquidityScore(w).dir = 0
    BY DEF LiquidityScore, Sub, NoData
  <1>4. /\ LiquidityScore(k).value = LiquidityScore(l).value /\ LiquidityScore(l).value \in Int
        /\ k = None <=> l = None
    <2>1. CASE l = None
      <3>1. k = None
        BY <1>1, <2>1 DEF FlipLiquidity
      <3>2. LiquidityScore(None).value = 5000
        BY DEF LiquidityScore, NoData
      <3> HIDE DEF k, l
      <3> QED BY <2>1, <3>1, <3>2
    <2>2. CASE l # None
      <3>1. /\ l \in [above : SUBSET Int, below : SUBSET Int, sl : Nat]
            /\ IsFiniteSet(l.above) /\ IsFiniteSet(l.below)
        BY <2>2 DEF IsBundle
      <3>2. k # None
        BY <2>2 DEF Stays, Parts
      <3> HIDE DEF k, l
      <3>3. /\ k.above = {Flip(c, b.price) : c \in l.below}
            /\ k.below = {Flip(c, b.price) : c \in l.above} /\ k.sl = l.sl
        BY <1>1, <2>2, <3>1 DEF FlipLiquidity
      <3>4. /\ Cardinality(k.above) = Cardinality(l.below) /\ (k.above = {} <=> l.below = {})
            /\ Cardinality(k.below) = Cardinality(l.above) /\ (k.below = {} <=> l.above = {})
        BY <1>1, <3>1, <3>3, FlipTargets DEF NoneIsNoPart
      <3>5. Cardinality(l.above) \in Nat /\ Cardinality(l.below) \in Nat
        BY <3>1, FS_CardinalityType
      <3> DEFINE Number(w) == Cardinality(w.above) + Cardinality(w.below)
                 Points(w) == (IF Number(w) > 0 THEN 3000 ELSE 1000) + 500 * Min({Number(w), 6})
                                - (IF w.sl > 3 THEN 1000 ELSE 0)
                                + (IF w.above # {} /\ w.below # {} THEN 1000 ELSE 0)
      <3>6. \A w : w # None => LiquidityScore(w).value = Clamp(Points(w))
        BY DEF LiquidityScore, Sub
      <3>7. Number(k) = Number(l) /\ Number(l) \in Int
        BY <3>4, <3>5
      <3> HIDE DEF Number
      <3>8. Min({Number(l), 6}) \in Int
        BY <3>7, CappedIs
      <3>9. Points(k) = Points(l) /\ Points(l) \in Int
        BY <3>3, <3>4, <3>7, <3>8
      <3> HIDE DEF Points
      <3> QED BY <2>2, <3>2, <3>6, <3>9, ClampIs
    <2> QED BY <2>1, <2>2
  <1> DEFINE Half(p, q) == [value |-> (p.value + q.value) \div 2,
                            dir |-> IF p.dir # 0 THEN p.dir ELSE q.dir]
  <1>5. \A c : SessionLiquidity(c) = IF c.session = None /\ c.liquidity = None THEN NoData
                                     ELSE Half(SessionScore(c.session), LiquidityScore(c.liquidity))
    BY DEF SessionLiquidity
  <1>6. b.session = None => SessionScore(b.session).dir = 0
    BY DEF SessionScore, NoData
  <1>7. NoData.value = 5000 /\ NoData.dir = 0
    BY DEF NoData
  <1>8. \A p, q : /\ Half(p, q).value = (p.value + q.value) \div 2
                  /\ Half(p, q).dir = IF p.dir # 0 THEN p.dir ELSE q.dir
    OBVIOUS
  <1> HIDE DEF m, Half
  <1> QED BY <1>1, <1>2, <1>3, <1>4, <1>5, <1>6, <1>7, <1>8 DEF SessionVote, m

\* Every vote but the session's turns round.
LEMMA VotesFlip ==
    ASSUME NEW b, IsBundle(b), Stays(b), NoneIsNoPart
    PROVE  /\ \A e \in Engines \ {"session_liquidity"} :
                 /\ Subscores(Mirror(b))[e].dir = 0 - Subscores(b)[e].dir
                 /\ Subscores(b)[e].dir \in Vote
           /\ Subscores(Mirror(b)).session_liquidity.dir = SessionVote(b)
           /\ Subscores(b).session_liquidity.dir = SessionVote(b)
           /\ SessionVote(b) \in {0, 1}
  <1> DEFINE m == Mirror(b)
             x == Subscores(b)
             y == Subscores(m)
             Opposed(e) == y[e].dir = 0 - x[e].dir /\ x[e].dir \in Vote
  <1>1. Opposed("h1_zone") /\ Opposed("m5_zone")
    BY ZonesFlip DEF Subscores
  <1>2. Opposed("triple_vwap")
    BY VwapPartFlips DEF Subscores
  <1>3. Opposed("htf_volume_profile")
    <2>1. x.htf_volume_profile.dir = 0 /\ y.htf_volume_profile.dir = 0
      BY VolumePartLeads DEF Subscores
    <2> HIDE DEF x, y
    <2> QED BY <2>1 DEF Vote
  <1>4. Opposed("news")
    <2>1. \A v : NewsScore(v).dir = 0
      BY DEF NewsScore, Sub, NoData
    <2>2. x.news.dir = 0 /\ y.news.dir = 0
      BY <2>1 DEF Subscores
    <2> HIDE DEF x, y
    <2> QED BY <2>2 DEF Vote
  <1>5. Opposed("momentum")
    <2> DEFINE p == MomentumScore(b.momentum)
               q == MomentumScore(m.momentum)
               d == ZoneBias(b.zones, b.price)
               f == ZoneBias(m.zones, m.price)
    <2>1. q.dir = 0 - p.dir /\ p.dir \in Vote
      BY MomentumPartFlips
    <2>2. f = 0 - d /\ d \in Vote
      BY ZonesFlip
    <2>3. \A v : MomentumScore(v).dir = [MomentumScore(v) EXCEPT !.dir = @].dir
                 /\ [MomentumScore(v) EXCEPT !.dir = 0].dir = 0
      BY DEF MomentumScore, Sub, NoData
    <2>4. MomentumInZone(b).dir = IF d # 0 /\ p.dir = -d THEN 0 ELSE p.dir
      BY <2>3 DEF MomentumInZone
    <2>5. MomentumInZone(m).dir = IF f # 0 /\ q.dir = -f THEN 0 ELSE q.dir
      BY <2>3 DEF MomentumInZone
    <2>6. x.momentum = MomentumInZone(b) /\ y.momentum = MomentumInZone(m)
      BY DEF Subscores
    <2> HIDE DEF p, q, d, f, x, y
    <2> QED BY <2>1, <2>2, <2>4, <2>5, <2>6 DEF Vote
  <1> HIDE DEF Opposed
  <1>6. \A e \in Engines \ {"session_liquidity"} : Opposed(e)
    BY <1>1, <1>2, <1>3, <1>4, <1>5 DEF Engines, Weights
  <1>7. /\ x.session_liquidity = SessionLiquidity(b) /\ y.session_liquidity = SessionLiquidity(m)
    BY DEF Subscores
  <1> QED BY <1>6, <1>7, SessionLiquidityStays DEF Opposed

\* Two of the seven values differ, by the lead.
LEMMA ValuesLead ==
    ASSUME NEW b, IsBundle(b), Stays(b), NoneIsNoPart
    PROVE  LET x == Subscores(b)
               y == Subscores(Mirror(b))
           IN  /\ \A e \in Engines \ LeaningScores : x[e].value = y[e].value
               /\ \A e \in Engines : x[e].value \in Int /\ y[e].value \in Int
               /\ WeightedTotal(Aggregate(b)) - WeightedTotal(Aggregate(Mirror(b))) = Lead(b)
               /\ WeightedTotal(Aggregate(b)) \in Int /\ WeightedTotal(Aggregate(Mirror(b))) \in Int
  <1> DEFINE m == Mirror(b)
             x == Subscores(b)
             y == Subscores(m)
             Same(e) == x[e].value = y[e].value /\ x[e].value \in Int
  <1>1. Same("h1_zone") /\ Same("m5_zone")
    BY ZonesFlip DEF Subscores
  <1>2. Same("session_liquidity")
    BY SessionLiquidityStays DEF Subscores
  <1>3. Same("momentum")
    <2>1. \A c : MomentumInZone(c).value = MomentumScore(c.momentum).value
      BY DEF MomentumInZone, MomentumScore, Sub, NoData
    <2>2. x.momentum = MomentumInZone(b) /\ y.momentum = MomentumInZone(m)
      BY DEF Subscores
    <2> HIDE DEF x, y, m
    <2> QED BY <2>1, <2>2, MomentumPartFlips DEF m
  <1>4. Same("news")
    <2>1. m.news = b.news
      BY MirrorParts DEF IsBundle
    <2>2. NewsScore(b.news).value \in Int
      <3> DEFINE n == b.news
                 Points == IF n.blackout THEN 0 ELSE IF n.minutes = None THEN 8000
                           ELSE IF n.minutes < 30 THEN 3000 ELSE IF n.minutes < 120 THEN 5500
                           ELSE IF n.minutes < 240 THEN 7000 ELSE 8000
      <3>1. NewsScore(n).value = IF n = None THEN 5000 ELSE Clamp(Points)
        BY DEF NewsScore, Sub, NoData
      <3>2. Points \in Int
        OBVIOUS
      <3> HIDE DEF n, Points
      <3> QED BY <3>1, <3>2, ClampIs DEF n
    <2>3. x.news = NewsScore(b.news) /\ y.news = NewsScore(m.news)
      BY DEF Subscores
    <2> QED BY <2>1, <2>2, <2>3
  <1>5. /\ x.triple_vwap.value \in Int /\ y.triple_vwap.value \in Int
        /\ x.triple_vwap.value - y.triple_vwap.value = 1000 * VwapScore(b.vwap).dir
        /\ VwapScore(b.vwap).dir \in Vote
    BY VwapPartFlips DEF Subscores
  <1> DEFINE side == IF b.vr = None THEN 0
                     ELSE 8 * Tilt(b.vr.yearly) + 5 * Tilt(b.vr.monthly) + 4 * Tilt(b.vr.weekly)
  <1>6. /\ x.htf_volume_profile.value \in Int /\ y.htf_volume_profile.value \in Int
        /\ x.htf_volume_profile.value - y.htf_volume_profile.value = 100 * side
        /\ side \in Int
    <2>1. x.htf_volume_profile = VolumeScore(b.vr) /\ y.htf_volume_profile = VolumeScore(m.vr)
      BY DEF Subscores
    <2> HIDE DEF x, y, m
    <2> QED BY <2>1, VolumePartLeads DEF m, Vote
  <1>7. Lead(b) = 15000 * VwapScore(b.vwap).dir + 1000 * side
    <2>1. Weights.triple_vwap = 15 /\ Weights.htf_volume_profile = 10
      BY DEF Weights
    <2>2. side \in Int /\ VwapScore(b.vwap).dir \in Int
      BY <1>5, <1>6 DEF Vote
    <2> HIDE DEF Weights
    <2> QED BY <2>1, <2>2, VolumePartLeads DEF Lead, Vote
  <1>8. /\ Engines = {"h1_zone", "m5_zone", "triple_vwap", "htf_volume_profile",
                      "session_liquidity", "news", "momentum"}
        /\ LeaningScores = {"triple_vwap", "htf_volume_profile"}
    BY DEF Engines, Weights, LeaningScores
  <1> DEFINE Total(t) == 25 * t.h1_zone.value + 20 * t.m5_zone.value + 15 * t.triple_vwap.value
                           + 10 * t.htf_volume_profile.value + 10 * t.session_liquidity.value
                           + 10 * t.news.value + 10 * t.momentum.value
  <1>9. WeightedTotal(Aggregate(b)) = Total(x) /\ WeightedTotal(Aggregate(m)) = Total(y)
    <2>1. \A agg : WeightedTotal(agg) = Total(agg.subs)
      BY DEF WeightedTotal, Weighted, Weights
    <2>2. Aggregate(b).subs = x /\ Aggregate(m).subs = y
      BY DEF Aggregate
    <2> HIDE DEF Total, x, y, m
    <2> QED BY <2>1, <2>2
  <1> HIDE DEF x, y, side
  <1>10. /\ Total(x) - Total(y) = 15000 * VwapScore(b.vwap).dir + 1000 * side
         /\ Total(x) \in Int /\ Total(y) \in Int
    <2>1. VwapScore(b.vwap).dir \in Int
      BY <1>5 DEF Vote
    <2>3. PICK h, m5, s, n, p \in Int :
            /\ x.h1_zone.value = h /\ y.h1_zone.value = h
            /\ x.m5_zone.value = m5 /\ y.m5_zone.value = m5
            /\ x.session_liquidity.value = s /\ y.session_liquidity.value = s
            /\ x.news.value = n /\ y.news.value = n
            /\ x.momentum.value = p /\ y.momentum.value = p
      BY <1>1, <1>2, <1>3, <1>4
    <2>4. PICK v1, v2, r1, r2 \in Int :
            /\ x.triple_vwap.value = v1 /\ y.triple_vwap.value = v2
            /\ x.htf_volume_profile.value = r1 /\ y.htf_volume_profile.value = r2
      BY <1>5, <1>6
    <2>2. PICK d, k \in Int : d = VwapScore(b.vwap).dir /\ k = side
      BY <1>6, <2>1
    <2>5. v1 - v2 = 1000 * d /\ r1 - r2 = 100 * k
      BY <1>5, <1>6, <2>2, <2>4
    <2>6. /\ Total(x) = 25 * h + 20 * m5 + 15 * v1 + 10 * r1 + 10 * s + 10 * n + 10 * p
          /\ Total(y) = 25 * h + 20 * m5 + 15 * v2 + 10 * r2 + 10 * s + 10 * n + 10 * p
      BY <2>3, <2>4
    <2> HIDE DEF Total
    <2>7. /\ (25 * h + 20 * m5 + 15 * v1 + 10 * r1 + 10 * s + 10 * n + 10 * p)
               - (25 * h + 20 * m5 + 15 * v2 + 10 * r2 + 10 * s + 10 * n + 10 * p)
               = 15000 * d + 1000 * k
          /\ 25 * h + 20 * m5 + 15 * v1 + 10 * r1 + 10 * s + 10 * n + 10 * p \in Int
          /\ 25 * h + 20 * m5 + 15 * v2 + 10 * r2 + 10 * s + 10 * n + 10 * p \in Int
      BY <2>5
    <2> QED BY <2>2, <2>6, <2>7
  <1> HIDE DEF Total
  <1> QED BY <1>1, <1>2, <1>3, <1>4, <1>5, <1>6, <1>7, <1>8, <1>9, <1>10 DEF x, y

\* The votes for and against cancel out, but for the session's two.
LEMMA NetsCancel ==
    ASSUME NEW b, IsBundle(b), Stays(b), NoneIsNoPart
    PROVE  LET n == Net(Aggregate(b))
               k == Net(Aggregate(Mirror(b)))
           IN  n \in Int /\ k \in Int /\ n + k = 20 * SessionVote(b) /\ SessionVote(b) \in {0, 1}
  <1> DEFINE x == Subscores(b)
             y == Subscores(Mirror(b))
             If(p) == IF p THEN 1 ELSE 0
             For(t, d) == 25 * If(t.h1_zone.dir = d) + 20 * If(t.m5_zone.dir = d)
                            + 15 * If(t.triple_vwap.dir = d) + 10 * If(t.htf_volume_profile.dir = d)
                            + 10 * If(t.session_liquidity.dir = d) + 10 * If(t.news.dir = d)
                            + 10 * If(t.momentum.dir = d)
             D(t, e) == If(t[e].dir = 1) - If(t[e].dir = -1)
             v == SessionVote(b)
  <1>1. \A agg, d : Votes(agg, d) = For(agg.subs, d)
    BY DEF Votes, Weighted, Weights
  <1>2. Aggregate(b).subs = x /\ Aggregate(Mirror(b)).subs = y
    BY DEF Aggregate
  <1>3. /\ Net(Aggregate(b)) = For(x, 1) - For(x, -1)
        /\ Net(Aggregate(Mirror(b))) = For(y, 1) - For(y, -1)
    <2> HIDE DEF For, x, y
    <2> QED BY <1>1, <1>2 DEF Net
  <1>4. /\ x.session_liquidity.dir = v /\ y.session_liquidity.dir = v /\ v \in {0, 1}
        /\ \A e \in Engines \ {"session_liquidity"} :
              y[e].dir = 0 - x[e].dir /\ x[e].dir \in Vote
    BY VotesFlip
  <1> HIDE DEF x, y, v
  <1>5. \A e \in Engines \ {"session_liquidity"} : D(x, e) \in Int /\ D(y, e) = 0 - D(x, e)
    BY <1>4 DEF Vote
  <1>6. D(x, "session_liquidity") = v /\ D(y, "session_liquidity") = v
    BY <1>4
  <1>7. \A p : If(p) \in Int
    OBVIOUS
  <1> HIDE DEF If
  <1> DEFINE Sum(t) == 25 * D(t, "h1_zone") + 20 * D(t, "m5_zone") + 15 * D(t, "triple_vwap")
                         + 10 * D(t, "htf_volume_profile") + 10 * D(t, "session_liquidity")
                         + 10 * D(t, "news") + 10 * D(t, "momentum")
  <1>8. \A t : For(t, 1) - For(t, -1) = Sum(t)
    <2>1. \A a1, a2, b1, b2, c1, c2, d1, d2, e1, e2, f1, f2, g1, g2 \in Int :
            (25 * a1 + 20 * b1 + 15 * c1 + 10 * d1 + 10 * e1 + 10 * f1 + 10 * g1)
              - (25 * a2 + 20 * b2 + 15 * c2 + 10 * d2 + 10 * e2 + 10 * f2 + 10 * g2)
              = 25 * (a1 - a2) + 20 * (b1 - b2) + 15 * (c1 - c2) + 10 * (d1 - d2)
                  + 10 * (e1 - e2) + 10 * (f1 - f2) + 10 * (g1 - g2)
      OBVIOUS
    <2> QED BY <1>7, <2>1
  <1> DEFINE Opposed(e) == D(x, e) \in Int /\ D(y, e) = 0 - D(x, e)
  <1> HIDE DEF D, For, Opposed
  <1>9. /\ Opposed("h1_zone") /\ Opposed("m5_zone") /\ Opposed("triple_vwap")
        /\ Opposed("htf_volume_profile") /\ Opposed("news") /\ Opposed("momentum")
    <2>1. \A e \in Engines \ {"session_liquidity"} : Opposed(e)
      BY <1>5 DEF Opposed
    <2> QED BY <2>1 DEF Engines, Weights
  <1>10. Sum(x) \in Int /\ Sum(y) \in Int /\ Sum(x) + Sum(y) = 20 * v
    BY <1>4, <1>6, <1>9 DEF Opposed
  <1> HIDE DEF Sum
  <1> QED BY <1>3, <1>4, <1>8, <1>10 DEF v

LEMMA ConflictsStay ==
    ASSUME NEW b, IsBundle(b), Stays(b), NoneIsNoPart
    PROVE  Conflicts(Mirror(b), Subscores(Mirror(b))) = Conflicts(b, Subscores(b))
  <1> DEFINE m == Mirror(b)
             x == Subscores(b)
             y == Subscores(m)
             bos(c) == IF c.structure = None THEN None ELSE c.structure.bos
             Odds(c) == /\ bos(c) # None /\ c.vr # None
                        /\ c.vr.weekly.status = (IF bos(c).up THEN "below" ELSE "above")
             Stretched(c) == /\ c.vwap # None /\ c.vwap.cluster /\ c.zones # None
                             /\ Cardinality({z \in c.zones : z.tf = "M5" /\ z.low < z.high}) >= 5
             Imminent(c) == c.news # None /\ c.news.minutes # None /\ c.news.minutes < 30
             Blocked(s) == {e \in Engines \ {"news", "session_liquidity"} : s[e].dir # 0}
             Count(p, q, r) == Cardinality({i \in 1..3 : <<p, q, r>>[i]})
  <1>1. Parts \subseteq DOMAIN b /\ b.price \in Int
    BY DEF IsBundle
  <1>2. Blocked(y) = Blocked(x)
    <2>1. \A e \in Engines \ {"session_liquidity"} : y[e].dir # 0 <=> x[e].dir # 0
      <3>1. \A e \in Engines \ {"session_liquidity"} :
              y[e].dir = 0 - x[e].dir /\ x[e].dir \in Vote
        BY VotesFlip
      <3> HIDE DEF x, y
      <3> QED BY <3>1 DEF Vote
    <2> HIDE DEF x, y
    <2> QED BY <2>1
  <1>3. Odds(m) <=> Odds(b)
    <2>1. m.structure = FlipStructure(b.structure, b.price) /\ m.vr = FlipProfile(b.vr)
      BY <1>1, MirrorParts
    <2>2. CASE b.structure = None
      BY <2>1, <2>2 DEF FlipStructure
    <2>3. CASE b.structure # None /\ b.structure.bos = None
      <3>1. m.structure = None \/ m.structure.bos = None
        BY <2>1, <2>3 DEF FlipStructure, FlipBreak
      <3> QED BY <2>3, <3>1
    <2>4. CASE b.vr = None
      BY <2>1, <2>4 DEF FlipProfile
    <2>5. CASE b.structure # None /\ b.structure.bos # None /\ b.vr # None
      <3>1. b.structure.bos \in StructureEvents
        BY <2>5 DEF IsBundle
      <3>2. m.structure # None /\ m.vr # None
        BY <2>5 DEF Stays, Parts
      <3>3. m.structure.bos.up = ~b.structure.bos.up /\ b.structure.bos.up \in BOOLEAN
        BY <2>1, <2>5, <3>1 DEF FlipStructure, FlipBreak, StructureEvents
      <3>4. m.structure.bos # None
        <4>1. m.structure.bos = [up |-> ~b.structure.bos.up, close |-> Flip(b.structure.bos.close, b.price),
                                 at |-> b.structure.bos.at]
          BY <2>1, <2>5 DEF FlipStructure, FlipBreak
        <4>2. b.structure.bos.close \in Int /\ b.structure.bos.at \in Int
          BY <3>1 DEF StructureEvents
        <4>3. Flip(b.structure.bos.close, b.price) \in Int
          BY <1>1, <4>2 DEF Flip, NoneIsNoPart
        <4>4. m.structure.bos \in StructureEvents
          BY <4>1, <4>2, <4>3 DEF StructureEvents
        <4> QED BY <4>4 DEF NoneIsNoPart
      <3>5. m.vr.weekly.status = FlipStatus(b.vr.weekly.status)
        <4>1. b.vr \in [yearly : Profiles, monthly : Profiles, weekly : Profiles,
                        accepted : Int, rotation : BOOLEAN, breakout : BOOLEAN]
          BY <2>5 DEF IsBundle
        <4> QED BY <2>1, <2>5, <4>1 DEF FlipProfile, Profiles
      <3> HIDE DEF m
      <3>6. Odds(b) <=> b.vr.weekly.status = (IF b.structure.bos.up THEN "below" ELSE "above")
        BY <2>5
      <3>7. Odds(m) <=> m.vr.weekly.status = (IF m.structure.bos.up THEN "below" ELSE "above")
        BY <3>2, <3>4
      <3> HIDE DEF Odds
      <3> QED BY <3>3, <3>5, <3>6, <3>7 DEF FlipStatus
    <2> QED BY <2>2, <2>3, <2>4, <2>5
  <1>4. Stretched(m) <=> Stretched(b)
    <2>1. m.zones = FlipZones(b.zones, b.price)
      BY <1>1, MirrorParts
    <2>2. (m.vwap = None <=> b.vwap = None) /\ (b.vwap # None => m.vwap.cluster = b.vwap.cluster)
      BY VwapPartFlips
    <2>3. CASE b.zones = None
      BY <2>1, <2>3 DEF FlipZones
    <2>4. CASE b.zones # None
      <3>1. m.zones # None
        BY <2>4 DEF Stays, Parts
      <3>2. b.zones \in SUBSET ZoneRecords /\ IsFiniteSet(b.zones)
        BY <2>4 DEF IsBundle
      <3>3. m.zones = FlippedZones(b.zones, b.price)
        BY <2>1, <2>4 DEF FlipZones, FlippedZones
      <3>4. Cardinality({z \in m.zones : z.tf = "M5" /\ z.low < z.high})
              = Cardinality({z \in b.zones : z.tf = "M5" /\ z.low < z.high})
        BY <1>1, <3>2, <3>3, ExtendedStay DEF NoneIsNoPart
      <3> HIDE DEF m
      <3> QED BY <2>2, <2>4, <3>1, <3>4
    <2> QED BY <2>3, <2>4
  <1>5. m.news = b.news
    BY <1>1, MirrorParts
  <1>6. Count(Odds(m), Stretched(m), Imminent(m)) = Count(Odds(b), Stretched(b), Imminent(b))
    <2>1. Imminent(m) <=> Imminent(b)
      BY <1>5
    <2> HIDE DEF Odds, Stretched, Imminent
    <2>2. {i \in 1..3 : <<Odds(m), Stretched(m), Imminent(m)>>[i]}
            = {i \in 1..3 : <<Odds(b), Stretched(b), Imminent(b)>>[i]}
      BY <1>3, <1>4, <2>1
    <2> QED BY <2>2
  <1>7. \A c, s : Conflicts(c, s) = (IF Blackout(c) THEN Cardinality(Blocked(s)) ELSE 0)
                                      + Count(Odds(c), Stretched(c), Imminent(c))
    BY DEF Conflicts
  <1>8. Blackout(m) = Blackout(b)
    BY <1>5 DEF Blackout
  <1> HIDE DEF m, x, y, Blocked, Count, Odds, Stretched, Imminent
  <1>9. Conflicts(m, y) = Conflicts(b, x)
    BY <1>2, <1>6, <1>7, <1>8
  <1> QED BY <1>9 DEF m, x, y

LEMMA EventFlips ==
    ASSUME NEW b, IsBundle(b), Stays(b), NoneIsNoPart
    PROVE  LET e == LastEvent(b)
               f == LastEvent(Mirror(b))
           IN  /\ f = None <=> e = None
               /\ e # None => /\ e.up \in BOOLEAN /\ f.up = ~e.up
                              /\ e.close \in Int /\ f.close = 2 * b.price - e.close
  <1> DEFINE m == Mirror(b)
             s == b.structure
             Broken(e, f) == /\ f = None <=> e = None
                             /\ e # None => /\ e.up \in BOOLEAN /\ f.up = ~e.up
                                            /\ e.close \in Int /\ f.close = 2 * b.price - e.close
  <1>1. m.structure = FlipStructure(s, b.price) /\ b.price \in Int
    BY MirrorParts DEF IsBundle
  <1>2. ASSUME NEW e \in StructureEvents \cup {None} PROVE Broken(e, FlipBreak(e, b.price))
    <2>1. CASE e = None
      BY <2>1 DEF FlipBreak
    <2>2. CASE e # None
      <3>1. e.up \in BOOLEAN /\ e.close \in Int /\ e.at \in Int
        BY <2>2 DEF StructureEvents
      <3>2. Flip(e.close, b.price) = 2 * b.price - e.close
        BY <3>1 DEF Flip, NoneIsNoPart
      <3>3. FlipBreak(e, b.price) = [up |-> ~e.up, close |-> 2 * b.price - e.close, at |-> e.at]
        BY <2>2, <3>2 DEF FlipBreak
      <3>4. FlipBreak(e, b.price) \in StructureEvents
        BY <1>1, <3>1, <3>3 DEF StructureEvents
      <3> QED BY <2>2, <3>1, <3>3, <3>4 DEF NoneIsNoPart
    <2> QED BY <2>1, <2>2
  <1>3. CASE s = None
    <2>1. LastEvent(b) = None
      BY <1>3 DEF LastEvent
    <2>2. LastEvent(m) = None
      BY <1>1, <1>3 DEF LastEvent, FlipStructure
    <2> QED BY <2>1, <2>2
  <1>4. CASE s # None
    <2>1. s.bos \in StructureEvents \cup {None} /\ s.choch \in StructureEvents \cup {None}
      BY <1>4 DEF IsBundle
    <2>2. /\ m.structure # None
          /\ m.structure.bos = FlipBreak(s.bos, b.price) /\ m.structure.choch = FlipBreak(s.choch, b.price)
      BY <1>1, <1>4 DEF Stays, Parts, FlipStructure
    <2>3. Broken(s.bos, m.structure.bos) /\ Broken(s.choch, m.structure.choch)
      BY <1>2, <2>1, <2>2
    <2>4. LastEvent(b) = IF s.bos # None THEN s.bos ELSE s.choch
      BY <1>4 DEF LastEvent
    <2>5. LastEvent(m) = IF m.structure.bos # None THEN m.structure.bos ELSE m.structure.choch
      BY <2>2 DEF LastEvent
    <2>6. Broken(LastEvent(b), LastEvent(m))
      <3> HIDE DEF m
      <3> QED BY <2>3, <2>4, <2>5
    <2> QED BY <2>6
  <1> QED BY <1>3, <1>4

Sides == {"enter_long", "enter_short"}

LEMMA TargetFlips ==
    ASSUME NEW b, IsBundle(b), Stays(b), NoneIsNoPart, b.atr \in Int, NEW price \in Int,
           NEW a \in Sides
    PROVE  HasClearTarget(Mirror(b), 2 * b.price - price, FlipAction(a))
             <=> HasClearTarget(b, price, a)
  <1> DEFINE m == Mirror(b)
             l == b.liquidity
             Near(c, p) == Max({b.atr, 20}) <= Abs(c - p) /\ Abs(c - p) <= 40 * b.atr
             Targets(k, d) == IF d = "enter_short" THEN k.below ELSE k.above
             ours == Targets(l, a)
             theirs == Targets(m.liquidity, FlipAction(a))
  <1>1. m.liquidity = FlipLiquidity(l, b.price) /\ m.atr = b.atr /\ b.price \in Int
    BY MirrorParts DEF IsBundle
  <1>2. CASE l = None
    <2>1. m.liquidity = None
      BY <1>1, <1>2 DEF FlipLiquidity
    <2> QED BY <1>2, <2>1 DEF HasClearTarget
  <1>3. CASE l # None
    <2>1. l \in [above : SUBSET Int, below : SUBSET Int, sl : Nat]
      BY <1>3 DEF IsBundle
    <2>2. m.liquidity # None
      BY <1>3 DEF Stays, Parts
    <2>3. theirs = {Flip(c, b.price) : c \in ours}
      <3>1. /\ m.liquidity.below = {Flip(c, b.price) : c \in l.above}
            /\ m.liquidity.above = {Flip(c, b.price) : c \in l.below}
        BY <1>1, <1>3, <2>1 DEF FlipLiquidity
      <3> HIDE DEF m, l
      <3> QED BY <3>1 DEF FlipAction, Sides
    <2>4. ours \in SUBSET Int
      BY <2>1
    <2> HIDE DEF ours, theirs
    <2>5. \A c \in ours : c \in Int /\ Flip(c, b.price) = 2 * b.price - c
      BY <2>4 DEF Flip, NoneIsNoPart
    <2>6. \A c \in ours : Near(Flip(c, b.price), 2 * b.price - price) <=> Near(c, price)
      <3> TAKE c \in ours
      <3>1. Abs(Flip(c, b.price) - (2 * b.price - price)) = Abs(c - price)
        BY <1>1, <2>5 DEF Abs
      <3> QED BY <3>1
    <2>7. HasClearTarget(b, price, a) <=> \E c \in ours : Near(c, price)
      BY <1>3 DEF HasClearTarget, ours
    <2>8. HasClearTarget(m, 2 * b.price - price, FlipAction(a))
            <=> \E c \in theirs : Near(c, 2 * b.price - price)
      BY <1>1, <2>2 DEF HasClearTarget, theirs
    <2> HIDE DEF Near, m
    <2>9. (\E c \in theirs : Near(c, 2 * b.price - price)) <=> \E c \in ours : Near(c, price)
      BY <2>3, <2>6
    <2> QED BY <2>7, <2>8, <2>9 DEF m
  <1> QED BY <1>2, <1>3

LEMMA VetoesStay ==
    ASSUME NEW b, IsBundle(b), Stays(b), NoneIsNoPart, NEW a \in Sides, NEW agg, NEW flipped,
           flipped.conflicts = agg.conflicts, flipped.liquid = agg.liquid
    PROVE  Vetoes(ToEnter(FlipAction(a)), flipped, Mirror(b)) = Vetoes(ToEnter(a), agg, b)
  <1> DEFINE m == Mirror(b)
             Sure(g, c, d) == IF c.atr # None /\ c.atr > 0
                              THEN HasClearTarget(c, LatestClose(c), d) ELSE g.liquid
             Targeted(g, c, d) == LatestClose(c) # None /\ ~Sure(g, c, d)
             Volatile(c) == c.atr # None /\ (2 * c.atr < 1 \/ c.atr > 50)
             turned == FlipAction(a)
  <1>1. m.atr = b.atr /\ b.price \in Int /\ b.atr \in Int \cup {None}
    BY MirrorParts DEF IsBundle
  <1>2. Targeted(flipped, m, turned) <=> Targeted(agg, b, a)
    <2>1. CASE LastEvent(b) = None
      <3>1. LatestClose(b) = None /\ LatestClose(m) = None
        BY <2>1, EventFlips DEF LatestClose
      <3> QED BY <3>1
    <2>2. CASE LastEvent(b) # None
      <3>1. /\ LatestClose(b) \in Int /\ LatestClose(m) = 2 * b.price - LatestClose(b)
        BY <2>2, EventFlips DEF LatestClose
      <3>2. LatestClose(b) # None /\ LatestClose(m) # None
        BY <1>1, <3>1 DEF NoneIsNoPart
      <3>3. CASE b.atr # None /\ b.atr > 0
        <4>1. b.atr \in Int
          BY <1>1, <3>3
        <4>2. HasClearTarget(m, LatestClose(m), turned) <=> HasClearTarget(b, LatestClose(b), a)
          BY <3>1, <4>1, TargetFlips
        <4> QED BY <1>1, <3>2, <3>3, <4>2
      <3>4. CASE ~(b.atr # None /\ b.atr > 0)
        BY <1>1, <3>2, <3>4
      <3> QED BY <3>3, <3>4
    <2> QED BY <2>1, <2>2
  <1>3. StructureAgainst(m, turned) <=> StructureAgainst(b, a)
    <2>1. (turned = "enter_long") = ~(a = "enter_long")
      BY DEF FlipAction, Sides
    <2> HIDE DEF m, turned
    <2> QED BY <2>1, EventFlips DEF StructureAgainst, m
  <1>4. Volatile(m) <=> Volatile(b)
    BY <1>1
  <1>5. \A d, g, c : Vetoes(ToEnter(d), g, c) =
           {r \in {"target", "structure", "volatility", "conflict"} :
               \/ r = "target" /\ Targeted(g, c, d)
               \/ r = "structure" /\ StructureAgainst(c, d)
               \/ r = "volatility" /\ Volatile(c)
               \/ r = "conflict" /\ g.conflicts >= 3}
    <2>1. \A d : ToEnter(d).action = d
      BY DEF ToEnter, NoTrade
    <2> QED BY <2>1 DEF Vetoes
  <1> HIDE DEF m, Targeted, Volatile, turned
  <1>6. Vetoes(ToEnter(turned), flipped, m) =
           {r \in {"target", "structure", "volatility", "conflict"} :
               \/ r = "target" /\ Targeted(agg, b, a)
               \/ r = "structure" /\ StructureAgainst(b, a)
               \/ r = "volatility" /\ Volatile(b)
               \/ r = "conflict" /\ agg.conflicts >= 3}
    <2>1. Vetoes(ToEnter(turned), flipped, m) =
             {r \in {"target", "structure", "volatility", "conflict"} :
                 \/ r = "target" /\ Targeted(flipped, m, turned)
                 \/ r = "structure" /\ StructureAgainst(m, turned)
                 \/ r = "volatility" /\ Volatile(m)
                 \/ r = "conflict" /\ flipped.conflicts >= 3}
      BY <1>5
    <2> QED BY <1>2, <1>3, <1>4, <2>1
  <1>7. Vetoes(ToEnter(turned), flipped, m) = Vetoes(ToEnter(a), agg, b)
    BY <1>5, <1>6
  <1> QED BY <1>7 DEF m, turned

\* There is as much data in the mirror.
LEMMA PresenceStays ==
    ASSUME NEW b, IsBundle(b), Stays(b)
    PROVE  LET x == Aggregate(b)
               y == Aggregate(Mirror(b))
           IN  y.hasData = x.hasData /\ y.liquid = x.liquid /\ y.blackout = x.blackout
  <1> DEFINE m == Mirror(b)
  <1>1. /\ m.session = b.session /\ m.news = b.news
        /\ m.liquidity = FlipLiquidity(b.liquidity, b.price) /\ m.zones = FlipZones(b.zones, b.price)
        /\ m.vr = FlipProfile(b.vr) /\ m.momentum = FlipMomentum(b.momentum)
    BY MirrorParts DEF IsBundle
  <1>2. /\ m.liquidity = None <=> b.liquidity = None
        /\ m.zones = None <=> b.zones = None
        /\ m.vr = None <=> b.vr = None
        /\ m.momentum = None <=> b.momentum = None
    <2>1. /\ b.liquidity = None => m.liquidity = None
          /\ b.zones = None => m.zones = None
          /\ b.vr = None => m.vr = None
          /\ b.momentum = None => m.momentum = None
      BY <1>1 DEF FlipLiquidity, FlipZones, FlipProfile, FlipMomentum
    <2> QED BY <2>1 DEF Stays, Parts
  <1>3. /\ m.vwap = None <=> b.vwap = None
        /\ b.vwap # None => (m.vwap.levels = <<>> <=> b.vwap.levels = <<>>)
    BY VwapPartFlips
  <1> HIDE DEF m
  <1>4. HasData(m) <=> HasData(b)
    BY <1>1, <1>2, <1>3 DEF HasData
  <1>5. (m.session # None \/ m.liquidity # None) <=> (b.session # None \/ b.liquidity # None)
    BY <1>1, <1>2
  <1>6. Blackout(m) = Blackout(b)
    BY <1>1 DEF Blackout
  <1>7. HasData(m) = HasData(b)
    BY <1>4 DEF HasData
  <1>8. /\ Aggregate(m).hasData = HasData(m) /\ Aggregate(b).hasData = HasData(b)
        /\ Aggregate(m).blackout = Blackout(m) /\ Aggregate(b).blackout = Blackout(b)
        /\ Aggregate(m).liquid = (m.session # None \/ m.liquidity # None)
        /\ Aggregate(b).liquid = (b.session # None \/ b.liquidity # None)
    BY DEF Aggregate
  <1>9. Aggregate(m).liquid = Aggregate(b).liquid
    BY <1>5, <1>8
  <1> QED BY <1>6, <1>7, <1>8, <1>9 DEF m

\* What the rules make of a net vote in a band
LEMMA RulesByNet ==
    ASSUME NEW agg, Net(agg) \in Int
    PROVE  LET n == Net(agg)
               band == Score(agg).band
               dir == IF ~agg.hasData THEN "neutral"
                      ELSE IF n > 5 THEN "long" ELSE IF n < -5 THEN "short" ELSE "neutral"
           IN  RuleDecide(Score(agg), agg, None) =
                 IF agg.blackout THEN NoTrade("news_blackout")
                 ELSE IF band = "below" THEN NoTrade("band_below_55_no_entry")
                 ELSE IF band = "observe" THEN NoTrade("band_observe_no_entry")
                 ELSE IF n > -10 /\ n < 10 THEN NoTrade("no_clear_direction")
                 ELSE IF dir = "neutral" THEN NoTrade("neutral_direction")
                 ELSE [action |-> Entry(dir), type |-> EntryType(band), reason |-> None,
                       source |-> "rule"]
  <1> DEFINE n == Net(agg)
  <1>1. Direction(agg) = IF n > 5 THEN "long" ELSE IF n < -5 THEN "short" ELSE "neutral"
    BY DEF Direction
  <1>2. Score(agg).dir = IF ~agg.hasData THEN "neutral" ELSE Direction(agg)
    BY DEF Score
  <1>3. Abs(n) < 10 <=> n > -10 /\ n < 10
    BY DEF Abs
  <1> HIDE DEF n
  <1> QED BY <1>1, <1>2, <1>3 DEF RuleDecide, n

LEMMA RulesTurn ==
    ASSUME NEW b, IsBundle(b), Stays(b), NoneIsNoPart
    PROVE  RulesOfMirror(b)
  <1> DEFINE agg == Aggregate(b)
             mirrored == Aggregate(Mirror(b))
             rule == RuleDecide(Score(agg), agg, None)
             theirs == RuleDecide(Score(mirrored), mirrored, None)
             n == Net(agg)
             k == Net(mirrored)
             band == Score(agg).band
             Dir(g, net) == IF ~g.hasData THEN "neutral"
                            ELSE IF net > 5 THEN "long" ELSE IF net < -5 THEN "short" ELSE "neutral"
             Ruled(net, dir) ==
                 IF agg.blackout THEN NoTrade("news_blackout")
                 ELSE IF band = "below" THEN NoTrade("band_below_55_no_entry")
                 ELSE IF band = "observe" THEN NoTrade("band_observe_no_entry")
                 ELSE IF net > -10 /\ net < 10 THEN NoTrade("no_clear_direction")
                 ELSE IF dir = "neutral" THEN NoTrade("neutral_direction")
                 ELSE [action |-> Entry(dir), type |-> EntryType(band), reason |-> None,
                       source |-> "rule"]
  <1>1. n \in Int /\ k \in Int /\ n + k = 20 * SessionVote(b) /\ SessionVote(b) \in {0, 1}
    BY NetsCancel
  <1>2. mirrored.hasData = agg.hasData /\ mirrored.blackout = agg.blackout
    BY PresenceStays
  <1>3. SUFFICES ASSUME Score(mirrored).band = band,
                        rule.action = "enter_short" \/ SessionVote(b) = 0
                 PROVE  theirs = [rule EXCEPT !.action = FlipAction(rule.action)]
    BY DEF RulesOfMirror
  <1> HIDE DEF agg, mirrored
  <1>4. rule = Ruled(n, Dir(agg, n))
    BY <1>1, RulesByNet
  <1>5. theirs = Ruled(k, Dir(agg, k))
    BY <1>1, <1>2, <1>3, RulesByNet
  <1>6. \A why : /\ [NoTrade(why) EXCEPT !.action = FlipAction(NoTrade(why).action)] = NoTrade(why)
                 /\ NoTrade(why).action = "no_trade"
    BY DEF NoTrade, FlipAction
  <1>7. \A dir \in {"long", "short"} : \A kind :
          LET e == [action |-> Entry(dir), type |-> kind, reason |-> None, source |-> "rule"]
              other == IF dir = "long" THEN "short" ELSE "long"
          IN  /\ [e EXCEPT !.action = FlipAction(e.action)]
                   = [action |-> Entry(other), type |-> kind, reason |-> None, source |-> "rule"]
              /\ e.action = Entry(dir)
    BY DEF Entry, FlipAction
  <1> HIDE DEF rule, theirs, n, k, band
  <1>8. CASE agg.blackout \/ band = "below" \/ band = "observe"
    BY <1>4, <1>5, <1>6, <1>8
  <1>9. CASE ~(agg.blackout \/ band = "below" \/ band = "observe")
    <2>1. CASE n > -10 /\ n < 10
      <3>1. rule.action = "no_trade"
        BY <1>4, <1>6, <1>9, <2>1
      <3>2. SessionVote(b) = 0
        BY <1>3, <3>1
      <3>3. k > -10 /\ k < 10
        BY <1>1, <2>1, <3>2
      <3> QED BY <1>4, <1>5, <1>6, <1>9, <2>1, <3>3
    <2>2. CASE ~(n > -10 /\ n < 10) /\ ~agg.hasData
      <3>1. rule = NoTrade("neutral_direction")
        BY <1>4, <1>9, <2>2
      <3>2. SessionVote(b) = 0
        BY <1>3, <1>6, <3>1
      <3>3. ~(k > -10 /\ k < 10)
        BY <1>1, <2>2, <3>2
      <3> QED BY <1>5, <1>6, <1>9, <2>2, <3>1, <3>3
    <2>3. CASE n >= 10 /\ agg.hasData
      <3>1. rule = [action |-> Entry("long"), type |-> EntryType(band), reason |-> None,
                    source |-> "rule"]
        BY <1>1, <1>4, <1>9, <2>3
      <3>2. SessionVote(b) = 0
        BY <1>3, <3>1 DEF Entry
      <3>3. k <= -10
        BY <1>1, <2>3, <3>2
      <3>4. theirs = [action |-> Entry("short"), type |-> EntryType(band), reason |-> None,
                      source |-> "rule"]
        BY <1>1, <1>5, <1>9, <2>3, <3>3
      <3> QED BY <1>7, <3>1, <3>4
    <2>4. CASE n <= -10 /\ agg.hasData
      <3>1. rule = [action |-> Entry("short"), type |-> EntryType(band), reason |-> None,
                    source |-> "rule"]
        BY <1>1, <1>4, <1>9, <2>4
      <3>2. k >= 10
        BY <1>1, <2>4
      <3>3. theirs = [action |-> Entry("long"), type |-> EntryType(band), reason |-> None,
                      source |-> "rule"]
        BY <1>1, <1>5, <1>9, <2>4, <3>2
      <3> QED BY <1>7, <3>1, <3>3
    <2> QED BY <1>1, <2>1, <2>2, <2>3, <2>4
  <1> QED BY <1>8, <1>9

\* For any bundle of the shape the service reads, at any hour, of any prices
\* and any number of zones, levels and targets: a setup and its mirror image
\* are scored, ruled and vetoed alike but for the lead and the session's vote.
THEOREM LeanOfBundle ==
    ASSUME NEW b, IsBundle(b), Stays(b), NoneIsNoPart
    PROVE  LeansAsKnown(b)
  <1> DEFINE m == Mirror(b)
             x == Subscores(b)
             y == Subscores(m)
  <1>1. /\ Aggregate(b).subs = x /\ Aggregate(m).subs = y
        /\ Aggregate(b).conflicts = Conflicts(b, x) /\ Aggregate(m).conflicts = Conflicts(m, y)
    BY DEF Aggregate
  <1>2. \A e \in Engines \ LeaningScores : Aggregate(m).subs[e].value = Aggregate(b).subs[e].value
    <2>1. \A e \in Engines \ LeaningScores : x[e].value = y[e].value
      BY ValuesLead
    <2> HIDE DEF x, y, m
    <2> QED BY <1>1, <2>1
  <1>3. WeightedTotal(Aggregate(b)) - WeightedTotal(Aggregate(m)) = Lead(b)
    BY ValuesLead
  <1>4. Net(Aggregate(b)) + Net(Aggregate(m)) = 2 * Weights.session_liquidity * SessionVote(b)
    <2>1. Net(Aggregate(b)) + Net(Aggregate(m)) = 20 * SessionVote(b)
      BY NetsCancel
    <2>2. Weights.session_liquidity = 10
      BY DEF Weights
    <2> HIDE DEF m
    <2> QED BY <2>1, <2>2
  <1>5. Aggregate(m).conflicts = Aggregate(b).conflicts
    BY <1>1, ConflictsStay
  <1>6. Aggregate(m).liquid = Aggregate(b).liquid
    BY PresenceStays
  <1>7. \A a \in Sides : Vetoes(ToEnter(FlipAction(a)), Aggregate(m), m)
                           = Vetoes(ToEnter(a), Aggregate(b), b)
    BY <1>5, <1>6, VetoesStay
  <1>8. RulesOfMirror(b)
    BY RulesTurn
  <1> HIDE DEF x, y
  <1> QED BY <1>2, <1>3, <1>4, <1>5, <1>7, <1>8 DEF LeansAsKnown, Sides

\* LeanIsKnown of the run, for every set of such bundles.
THEOREM DecisionLeanIsKnown == Spec => []LeanIsKnown
  <1>1. \A b \in Samples : LeansAsKnown(b)
    <2> TAKE b \in Samples
    <2>1. IsBundle(b) /\ Stays(b) /\ NoneIsNoPart
      BY SamplesAssumption DEF SamplesAssumption, Stays, NoneIsNoPart
    <2> QED BY <2>1, LeanOfBundle
  <1>2. LeanIsKnown
    BY <1>1 DEF LeanIsKnown
  <1> QED BY <1>2, PTL

=============================================================================
