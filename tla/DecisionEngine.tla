--------------------------- MODULE DecisionEngine ---------------------------
(***************************************************************************)
(* The decision service: one handler that takes a bar's features, asks for *)
(* the AI toggle, lets the orchestrator consult the LLM or the rules       *)
(* decide, qualifies, publishes the DecisionEvent and journals a row. It   *)
(* awaits Redis, the LLM and two publishes, and the operator's toggle, the *)
(* clock, failures and a crash come between any two of them.               *)
(* One tick is ten seconds; steps that take less may all fall into one.    *)
(***************************************************************************)
EXTENDS Scoring, TradingWindow

CONSTANTS
    Bundles,       \* the feature bundles a bar may carry, a sequence
    Samples,       \* the feature bundles held up to the mirror
    Answers,       \* the valid LLMDecisions the model may return
    Settings,      \* the trading-window settings
    AiEnabled,     \* ai_layer_enabled, the static default
    HasKey,        \* is openrouter_api_key set and the prompt there?
    Threshold,     \* ai_layer_score_threshold, in hundredths
    MaxAttempts,   \* ai_layer_max_attempts
    FlagTtl,       \* _AI_FLAG_TTL_SECONDS (2 s, rounded up to a tick)
    FreshFor,      \* the age up to which state:last_ai is attached (20 s)
    CallTimeout,   \* ai_layer_timeout_seconds (30 s)
    MaxBars, MaxToggles, MaxFaults  \* bounds

ASSUME DecisionAssumption ==
    /\ MaxAttempts \in Nat \ {0} /\ FlagTtl \in Nat \ {0}
    /\ FreshFor \in Nat /\ CallTimeout \in Nat \ {0}
    /\ AiEnabled \in BOOLEAN /\ HasKey \in BOOLEAN
    /\ \A ans \in Answers : ans.side \in {"long", "short", None}

Actions == {"enter_long", "enter_short", "no_trade"}
Resolutions == {"agreement", "rule_relaxed", "llm_vetoed", "rule_vetoed"}
\* The discrepancy record
Notes == [rule : Actions, final : Actions, resolution : Resolutions]
\* What a gate or the layer's own checks hold against the LLM
Objections == {"outside_trading_hours", "openrouter_disabled", "score_below_threshold",
               "news_blackout", "hard_rule_violation", "zone_violation"}

\* None is none of the values it stands in for.
ASSUME NoneAssumption ==
    None \notin BOOLEAN \cup Nat \cup Answers \cup Notes \cup Objections

\* What is there stays there in the mirror.
ASSUME SamplesAssumption ==
    /\ None \notin Int \cup StructureEvents \cup LastBars
    /\ \A b \in Samples :
        IsBundle(b) /\ \A f \in Parts : b[f] # None => Mirror(b)[f] # None

VARIABLES
    flag,       \* runtime:ai_enabled, None while unset
    ai,         \* _RuntimeAIFlag: value, age, misread (the last fetch failed)
    pc,         \* the handler
    cur,        \* its locals: bar, b (which bundle), agg, score, rule
                \* (the rules' decision), useAi, attempt, age (of the call),
                \* answer, decision, note (the discrepancy
                \* record written); history: offFor (when it asked for the
                \* toggle), misread
    lastAi,     \* state:last_ai: bar, age
    usage,      \* usage:openrouter calls
    bars,       \* bars taken from the stream
    event, row, \* the last DecisionEvent and the last journal row published
    offFor,     \* history: how long the effective toggle has been off (None: on)
    toggles, faults

vars == <<flag, ai, pc, cur, lastAi, usage, bars, event,
          row, offFor, toggles, faults>>

HandlerStates == {"idle", "flag", "call", "backoff", "publish", "journal"}
Idle == [bar |-> 0, b |-> None, agg |-> None, score |-> None, rule |-> None,
         useAi |-> FALSE, attempt |-> 0, age |-> 0, answer |-> None, decision |-> None, note |-> None, offFor |-> None, misread |-> FALSE]

\* Ages stop where nothing tells them apart any more.
Older(age, limit) == IF age < limit THEN age + 1 ELSE age

TypeOK ==
    /\ flag \in {TRUE, FALSE, None}
    /\ ai \in [value : BOOLEAN, age : 0..FlagTtl, misread : BOOLEAN]
    /\ offFor \in 0..FlagTtl \cup {None} /\ cur.age \in 0..CallTimeout
    /\ pc \in HandlerStates /\ cur.attempt \in 0..MaxAttempts
    /\ usage \in 0..(MaxAttempts * MaxBars) /\ bars \in 0..MaxBars
    /\ (event # None => event.bar <= bars) /\ (row # None => row.bar <= event.bar)

Init ==
    /\ flag = None
    /\ ai = [value |-> AiEnabled, age |-> FlagTtl, misread |-> FALSE]
    /\ pc = "idle" /\ cur = Idle
    /\ lastAi = None /\ usage = 0
    /\ bars = 0 /\ event = None /\ row = None
    /\ offFor = (IF AiEnabled THEN None ELSE FlagTtl)
    /\ toggles = 0 /\ faults = 0

-----------------------------------------------------------------------------
Bundle == Bundles[cur.b]

\* default when the key is unset
FlagValue == IF flag = None THEN AiEnabled ELSE flag

\* Aggregate, score and rule decision are functions of the bundle: computed
\* once. The subscores are not read after the rules have spoken.
\* A bar arrives. An envelope of another version is dropped (acknowledged).
Start(b) ==
    /\ pc = "idle" /\ bars < MaxBars
    /\ bars' = bars + 1
    /\ pc' = "flag"
    /\ \E agg \in {Aggregate(Bundles[b])} : \E score \in {Score(agg)} :
         cur' = [Idle EXCEPT !.bar = bars + 1, !.b = b,
                   !.agg = [agg EXCEPT !.subs = None], !.score = score,
                   !.rule = RuleDecide(score, agg, None)]
    /\ UNCHANGED <<flag, ai, lastAi, usage, event, row,
                   offFor, toggles, faults>>
DropVersion ==
    /\ pc = "idle" /\ bars < MaxBars
    /\ bars' = bars + 1
    /\ UNCHANGED <<flag, ai, pc, cur, lastAi, usage, event,
                   row, offFor, toggles, faults>>

\* _RuntimeAIFlag.get: a failed read keeps the value and counts as a fetch.
\* Mutant: the age is compared with <=.
CachedFlagLong == ai.age <= FlagTtl
CachedFlag == ai.age < FlagTtl
FlagReads ==
    IF CachedFlag THEN {ai}
    ELSE {[value |-> FlagValue, age |-> 0, misread |-> FALSE]}
           \cup {a \in {[ai EXCEPT !.age = 0, !.misread = TRUE]} : faults < MaxFaults}

\* The orchestrator's gates, in order; the first that holds is the reason.
\* (An unset key never gets here: the pipeline builds no orchestrator.)
GateReason(b, score) ==
    IF ~Allows(FromSettings(Settings), b.ts, b.offset) THEN "outside_trading_hours"
    ELSE IF ~AiEnabled THEN "openrouter_disabled"
    ELSE IF score.total < Threshold THEN "score_below_threshold"
    ELSE IF Blackout(b) THEN "news_blackout" ELSE None

\* _rule_decision: whatever the rules say, a gate or a failure means no trade.
FallenBack(reason) == NoTrade(reason)

Discrepancy(rule, final, resolution) ==
    [rule |-> rule.action, final |-> final.action,
     resolution |-> resolution]

\* AIDecisionOrchestrator.decide up to the LLM call, or the rules alone
Route ==
    /\ pc = "flag"
    /\ \E a \in FlagReads :
         /\ ai' = a
         /\ faults' = IF ~CachedFlag /\ a.misread THEN faults + 1 ELSE faults
         /\ LET viaAi == a.value /\ HasKey
                gate == GateReason(Bundle, cur.score)
                then == [cur EXCEPT !.useAi = a.value, !.offFor = offFor,
                           !.misread = a.misread]
            IN  \/ /\ ~viaAi
                   /\ pc' = "publish" /\ cur' = [then EXCEPT !.decision = cur.rule]
                \/ /\ viaAi /\ gate # None
                   /\ pc' = "publish"
                   /\ cur' = [then EXCEPT !.decision = FallenBack(gate),
                        !.note = Discrepancy(NoTrade(gate), NoTrade(gate), "agreement")]
                \/ /\ viaAi /\ gate = None
                   /\ pc' = "call"
                   /\ cur' = [then EXCEPT !.attempt = 1]
    /\ UNCHANGED <<flag, lastAi, usage, bars, event, row, offFor, toggles>>

-----------------------------------------------------------------------------
\* The LLM call. An answer: decision, side (or None), min, max (or None).

Enters(ans) == ans.decision \in {"scout", "reduced_entry", "full_entry"}

\* The levels the prompt offers next to the zones: locked profiles and VWAPs
ReferenceLevels(b) == b.levels

\* Either bound inside one zone, or near one level, is enough.
ZoneWithinSnapshot(ans, b) ==
    LET bounds == {ans.min, ans.max} \ {None}
        tolerance == Max({50, (15 * (IF b.atr = None THEN 0 ELSE b.atr)) \div 10})
    IN  \/ bounds = {}
        \/ b.zones # None /\ \E p \in bounds, z \in b.zones : z.low <= p /\ p <= z.high
        \/ \E p \in bounds, l \in ReferenceLevels(b) : Abs(p - l) <= tolerance

\* Mutant: the answer's zone is not checked.
ViolationNoZone(ans, b) ==
    IF Blackout(b) /\ Enters(ans) THEN "hard_rule_violation" ELSE None
\* AIDecisionLayer.decide after the answer
Violation(ans, b) ==
    IF Blackout(b) /\ Enters(ans) THEN "hard_rule_violation"
    ELSE IF ~ZoneWithinSnapshot(ans, b) THEN "zone_violation" ELSE None

\* _llm_to_decision: a missing side is a long.
FromAnswer(ans) ==
    IF ~Enters(ans)
    THEN [NoTrade(IF ans.decision = "no_trade" THEN "llm_no_trade"
                  ELSE "llm_watch_or_prepare") EXCEPT !.source = "ai"]
    ELSE [action |-> IF ans.side = "short" THEN "enter_short" ELSE "enter_long",
          type |-> IF ans.decision = "scout" THEN "scout"
                   ELSE IF ans.decision = "reduced_entry" THEN "reduced" ELSE "full",
          reason |-> None, source |-> "ai"]

Resolution(rule, final) ==
    LET in == rule.action # "no_trade"
        out == final.action # "no_trade"
    IN  IF in = out
        THEN IF in /\ rule.type # final.type THEN "rule_relaxed" ELSE "agreement"
        ELSE IF in THEN "llm_vetoed" ELSE "rule_vetoed"

\* _call_with_retry: a bad answer is asked for again, anything else is final.
Retriable(reason) == reason \in {"validation_error", "zone_violation"}
Failed(reason) ==
    IF Retriable(reason) /\ cur.attempt < MaxAttempts
    THEN pc' = "backoff" /\ UNCHANGED cur
    ELSE /\ pc' = "publish"
         /\ cur' = [cur EXCEPT !.decision = FallenBack(reason),
              !.note = Discrepancy(cur.rule, FallenBack(reason), "agreement")]

\* 2xx and valid. Usage and state:last_ai are written best-effort, before the
\* layer looks at the answer.
Reply(ans) ==
    /\ pc = "call"
    /\ \/ lastAi' = [bar |-> cur.bar, age |-> 0]
          /\ usage' = usage + 1 /\ UNCHANGED faults
       \/ faults < MaxFaults /\ faults' = faults + 1
          /\ UNCHANGED <<lastAi, usage>>
    /\ LET final == FromAnswer(ans)
       IN  IF Violation(ans, Bundle) # None THEN Failed(Violation(ans, Bundle))
           ELSE /\ pc' = "publish"
                /\ cur' = [cur EXCEPT !.decision = final, !.answer = ans,
                     !.note = IF cur.rule.action = final.action THEN None
                              ELSE Discrepancy(cur.rule, final,
                                               Resolution(cur.rule, final))]
    /\ UNCHANGED <<flag, ai, bars, event, row, offFor, toggles>>

\* _parse_response: a status, or a body that is no valid LLMDecision
ReplyBad(reason) ==
    /\ pc = "call"
    /\ usage' = usage + (IF reason = "validation_error" THEN 1 ELSE 0)
    /\ Failed(reason)
    /\ UNCHANGED <<flag, ai, lastAi, bars, event, row, offFor,
                   toggles, faults>>

\* Mutant: no hard deadline around the POST
ExpiredNever == FALSE
\* asyncio.wait_for
Expired == cur.age = CallTimeout
TimeOut ==
    /\ pc = "call" /\ Expired
    /\ Failed("timeout")
    /\ UNCHANGED <<flag, ai, lastAi, usage, bars, event, row, offFor,
                   toggles, faults>>

Retry ==
    /\ pc = "backoff"
    /\ pc' = "call"
    /\ cur' = [cur EXCEPT !.attempt = @ + 1, !.age = 0]
    /\ UNCHANGED <<flag, ai, lastAi, usage, bars, event,
                   row, offFor, toggles, faults>>

-----------------------------------------------------------------------------
\* Publishing: a DecisionEvent that cannot be sent is lost with its bar.

Publish ==
    /\ pc = "publish"
    /\ event' = [bar |-> cur.bar, b |-> cur.b, score |-> cur.score,
                 decision |-> cur.decision, answer |-> cur.answer,
                 offFor |-> cur.offFor, misread |-> cur.misread,
                 rule |-> cur.rule.action, note |-> cur.note,
                 out |-> Qualify(cur.decision, cur.score, cur.agg, Bundle)]
    /\ pc' = "journal"
    /\ UNCHANGED <<flag, ai, cur, lastAi, usage, bars, row,
                   offFor, toggles, faults>>
PublishFails ==
    /\ pc = "publish" /\ faults < MaxFaults
    /\ faults' = faults + 1
    /\ pc' = "idle" /\ cur' = Idle
    /\ UNCHANGED <<flag, ai, lastAi, usage, bars, event,
                   row, offFor, toggles>>

\* state:last_ai, when it is fresh, is taken for this bar's.
FreshAi == IF lastAi # None /\ lastAi.age <= FreshFor THEN lastAi ELSE None
AiStatus(info) ==
    IF info # None THEN "ran"
    ELSE IF ~cur.useAi THEN "ai_off"
    ELSE IF cur.score.total < Threshold THEN "score_low"
    ELSE IF Blackout(Bundle) THEN "news_blackout" ELSE "llm_error"
Journal ==
    /\ pc = "journal"
    /\ \/ /\ row' = [bar |-> cur.bar, status |-> AiStatus(FreshAi),
                      about |-> IF FreshAi = None THEN None ELSE FreshAi.bar]
          /\ UNCHANGED faults
       \/ faults < MaxFaults /\ faults' = faults + 1 /\ UNCHANGED row
    /\ pc' = "idle" /\ cur' = Idle
    /\ UNCHANGED <<flag, ai, lastAi, usage, bars, event,
                   offFor, toggles>>

-----------------------------------------------------------------------------
\* The world

\* The dashboard writes runtime:ai_enabled.
Toggle(v) ==
    /\ toggles < MaxToggles /\ FlagValue # v
    /\ flag' = v /\ toggles' = toggles + 1
    /\ offFor' = IF v THEN None ELSE 0
    /\ UNCHANGED <<ai, pc, cur, lastAi, usage, bars, event,
                   row, faults>>

\* The call's deadline is the only one; time cannot pass it.
Tick ==
    /\ pc = "call" => ~Expired
    /\ ai' = [ai EXCEPT !.age = Older(@, FlagTtl)]
    /\ cur' = IF pc = "call" THEN [cur EXCEPT !.age = Older(@, CallTimeout)] ELSE cur
    /\ lastAi' = IF lastAi = None THEN None
                 ELSE [lastAi EXCEPT !.age = Older(@, FreshFor + 1)]
    /\ offFor' = IF offFor = None THEN None ELSE Older(offFor, FlagTtl)
    /\ UNCHANGED <<flag, pc, usage, bars, event, row, toggles,
                   faults>>

\* The process dies and is restarted; the bar in hand is not redelivered.
Crash ==
    /\ faults < MaxFaults /\ faults' = faults + 1
    /\ pc' = "idle" /\ cur' = Idle
    /\ ai' = [value |-> AiEnabled, age |-> FlagTtl, misread |-> FALSE]
    /\ UNCHANGED <<flag, lastAi, usage, bars, event, row, offFor, toggles>>

LLMErrors == {"validation_error", "openrouter_server_error", "openrouter_error"}
Handler == Route \/ TimeOut \/ Retry \/ Publish \/ Journal
Next ==
    \/ \E b \in DOMAIN Bundles : Start(b)
    \/ DropVersion
    \/ Handler
    \/ \E ans \in Answers : Reply(ans)
    \/ \E r \in LLMErrors : ReplyBad(r)
    \/ PublishFails
    \/ \E v \in BOOLEAN : Toggle(v)
    \/ Tick
    \/ Crash

Spec == Init /\ [][Next]_vars
\* The event loop runs what is ready and the clock goes on; the LLM may never
\* answer.
FairSpec == Spec /\ WF_vars(Handler) /\ WF_vars(Tick)

-----------------------------------------------------------------------------
\* A DecisionEvent that enters is justified end to end: outside a blackout, by
\* the rules alone from the prepare band up and with the score's direction, or
\* by an answer the model gave for this very bar, inside the trading hours,
\* anchored in this bar's snapshot, with the rules' dissent on record, and
\* never against the last BOS (where there is none, the last CHOCH, however old
\* either is: the veto compares no times), whatever retries, errors and crashes
\* came between (ai_orchestrator.py, ai_layer.py, rule_fallback.py,
\* qualification.py).
EntriesAreJustified ==
    event # None /\ event.out.qualified =>
        LET b == Bundles[event.b]
            score == event.score
            action == event.out.action
        IN  /\ ~Blackout(b) /\ ~StructureAgainst(b, action)
            /\ IF event.decision.source = "rule"
               THEN /\ score.band \in {"prepare", "reduced", "full"}
                    /\ action = Entry(score.dir)
               ELSE /\ event.answer # None /\ Enters(event.answer)
                    /\ action = Entry(event.answer.side) \/ event.answer.side = None
                    /\ ~(score.total < Threshold)
                    /\ Allows(FromSettings(Settings), b.ts, b.offset)
                    /\ ZoneWithinSnapshot(event.answer, b)
                    /\ event.rule # action => event.note # None

\* Once the operator has switched the AI off, no bar for which the toggle is
\* asked more than the cache's two seconds later is decided by the LLM, unless
\* the read of the toggle failed (_RuntimeAIFlag.get).
AiOffTakesEffect ==
    event # None /\ event.decision.source = "ai" /\ ~event.misread
        => event.offFor \in 0..(FlagTtl - 1) \cup {None}

\* A bar the service took is decided or given up although the LLM may hang:
\* the handler always gets back to the stream (OpenRouterClient.complete).
HandlerReturns == pc # "idle" ~> pc = "idle"

\* What the scores, the rules and the vetoes make of a setup and of its mirror
\* image differs by the known lean to the long side and by nothing else. They
\* are pure functions of a bundle, so the state before the first bar is enough
\* to look.
LeanIsKnown ==
    bars = 0 /\ faults = 0 /\ flag = None => \A b \in Samples : LeansAsKnown(b)

\* The newer of the last BOS and the last CHOCH
NewestEvent(b) ==
    LET events == IF b.structure = None THEN {}
                  ELSE {b.structure.bos, b.structure.choch} \ {None}
    IN  {e \in events : \A f \in events : f.at <= e.at}

\* qualification.py's docstrings: an entry goes with the most recent BOS or
\* CHOCH. The code asks last_bos alone once there is one.
EntriesFollowStructure ==
    event # None /\ event.out.qualified =>
        \A e \in NewestEvent(Bundles[event.b]) : e.up <=> event.out.action = "enter_long"


=============================================================================
