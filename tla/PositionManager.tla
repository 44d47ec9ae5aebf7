--------------------------- MODULE PositionManager ---------------------------
(***************************************************************************)
(* The management of one open position: PositionManager.plan (TP partials, *)
(* ratcheting stop, runner exit, weekend flat), the manage loop that       *)
(* applies its actions one await at a time, the plan stored in Redis, and  *)
(* the stop and the volume the broker really has.                          *)
(* Prices are points relative to the entry price, volumes are lot steps.   *)
(***************************************************************************)
EXTENDS Integers, Sequences

CONSTANTS InitialRisk,     \* distance of the stop sent with the entry order
          Tp1, Tp2, Tp3,   \* distances of the targets, or NoLevel
          NoLevel,
          Volume,          \* initial_volume
          Tp1Pct, Tp2Pct,  \* share of the volume banked at a target
          MinVolume,       \* volume_min of the symbol
          TrailActivateR,  \* exec_trail_activate_r
          BeTriggerR,      \* exec_be_trigger_r
          BufferAtr,       \* exec_trail_buffer_atr
          ChandelierAtr,   \* exec_chandelier_atr
          Prices,          \* closes a bar can have
          Atrs,            \* ATRs a bar can have, 0: not known
          Swings,          \* latest protective swings
          Spreads,         \* spread plus break-even bonus
          MaxFaults        \* bound: crashes, rejections, failed writes

ASSUME ManagerAssumption ==
    /\ InitialRisk \in Nat \ {0}
    /\ NoLevel \notin Int
    /\ {Tp1, Tp2, Tp3} \subseteq Nat \cup {NoLevel}
    /\ {Volume, MinVolume} \subseteq Nat \ {0}
    /\ {Tp1Pct, Tp2Pct} \subseteq 0..100
    /\ {TrailActivateR, BeTriggerR, BufferAtr, ChandelierAtr} \subseteq Nat
    /\ Prices \subseteq Int
    /\ Atrs \subseteq Nat
    /\ Swings \subseteq Int \cup {NoLevel}
    /\ Spreads \subseteq Nat
    /\ MaxFaults \in Nat

VARIABLES
    side,      \* "BUY" or "SELL"
    plan,      \* the ManagedPosition in Redis
    next,      \* the updated plan in the manage loop's hands
    todo,      \* actions of this bar not yet applied
    pc,        \* "idle", "apply" or "store"
    stop,      \* the broker's stop
    lots,      \* the broker's open volume, 0: closed
    odd,       \* parity of the bars so far: a quiet bar is a step, too
    weekend,   \* has the weekend cutoff passed?
    faults,    \* crashes, rejections and failed writes so far
    touched,   \* has an action of this bar reached the broker?
    stale,     \* history: the plan was not stored after such an action
    banked,    \* history: partial closes executed, per target
    extreme    \* history: the most favourable close the manager saw

hist == <<stale, banked, extreme>>
vars == <<side, odd, plan, next, todo, pc, stop, lots, weekend, faults,
          touched, hist>>

Targets == {"tp1", "tp2"}
Managed == [sl : Int, tp1 : BOOLEAN, tp2 : BOOLEAN, peak : Int]
Action == [kind : Targets \cup {"modify_sl", "close_all"}, arg : Int]
Bars == [price : Prices, atr : Atrs, swing : Swings, spread : Spreads,
         against : BOOLEAN]

TypeOK ==
    /\ side \in {"BUY", "SELL"}
    /\ plan \in Managed
    /\ next \in Managed
    /\ todo \in Seq(Action)
    /\ pc \in {"idle", "apply", "store"}
    /\ stop \in Int
    /\ lots \in 0..Volume
    /\ odd \in BOOLEAN
    /\ weekend \in BOOLEAN
    /\ faults \in 0..MaxFaults
    /\ touched \in BOOLEAN
    /\ stale \in BOOLEAN
    /\ banked \in [Targets -> Nat]
    /\ extreme \in Int

-----------------------------------------------------------------------------
(* Sides. The entry price is 0.                                            *)

Reached(x, level) == IF side = "BUY" THEN x >= level ELSE x <= level
Tighter(x, y) == IF side = "BUY" THEN x > y ELSE x < y
Best(S) == CHOOSE x \in S : \A y \in S : Reached(x, y)
Behind(x, dist) == IF side = "BUY" THEN x - dist ELSE x + dist
Profit(x) == IF side = "BUY" THEN x ELSE -x

Level(dist) == IF side = "BUY" THEN dist ELSE -dist

-----------------------------------------------------------------------------
\* pipeline.process: the plan of a new position; the peak starts at the fill.
Init ==
    /\ side \in {"BUY", "SELL"}
    /\ plan = [sl |-> Level(-InitialRisk), tp1 |-> FALSE, tp2 |-> FALSE, peak |-> 0]
    /\ next = plan
    /\ todo = <<>>
    /\ pc = "idle"
    /\ stop = Level(-InitialRisk)
    /\ lots = Volume
    /\ odd = FALSE
    /\ weekend = FALSE
    /\ faults = 0
    /\ touched = FALSE
    /\ stale = FALSE
    /\ banked = [t \in Targets |-> 0]
    /\ extreme = 0

-----------------------------------------------------------------------------
(* PositionManager.plan, a pure function of the stored plan and the bar.   *)

Hits(dist, price) == dist # NoLevel /\ Reached(price, Level(dist))

\* _round_volume: floor to the lot step; below volume_min nothing is closed.
Share(pct) == (Volume * pct) \div 100

\* Targets are marked as taken whether or not a partial was large enough.
\* TP1 also sets breakeven_done, which nothing else does.
AfterTargets(p, bar) ==
    [p EXCEPT !.tp1 = p.tp1 \/ Hits(Tp1, bar.price),
              !.tp2 = p.tp2 \/ Hits(Tp2, bar.price),
              !.peak = Best({p.peak, bar.price})]

TrailArmed(q, bar) ==
    \/ q.tp1
    \/ TrailActivateR = 0
    \/ Profit(bar.price) >= InitialRisk * TrailActivateR

BeFloorArmed(q) ==
    \/ q.tp1
    \/ BeTriggerR > 0 /\ Profit(q.peak) >= InitialRisk * BeTriggerR

\* StopManager.trail: break-even floor, structure and chandelier, never
\* behind the stop of the plan.
Anchors(q, bar) ==
    {q.sl}
    \cup (IF BeFloorArmed(q) THEN {Behind(0, -bar.spread)} ELSE {})
    \cup (IF bar.atr > 0 /\ bar.swing # NoLevel
          THEN {Behind(bar.swing, BufferAtr * bar.atr)} ELSE {})
    \cup (IF bar.atr > 0 /\ ChandelierAtr > 0
          THEN {Behind(q.peak, ChandelierAtr * bar.atr)} ELSE {})

NewSl(q, bar) == IF TrailArmed(q, bar) THEN Best(Anchors(q, bar)) ELSE q.sl

NextPlan(p, bar) ==
    LET q == AfterTargets(p, bar) IN [q EXCEPT !.sl = NewSl(q, bar)]

If(cond, kind, arg) ==
    IF cond THEN <<[kind |-> kind, arg |-> arg]>> ELSE <<>>

\* Mutant: the weekend only stops new trailing.
ActionsWithoutWeekend(p, bar) ==
    LET q == NextPlan(p, bar) IN
    If(q.tp1 /\ ~p.tp1 /\ Share(Tp1Pct) >= MinVolume, "tp1", Share(Tp1Pct))
    \o If(q.tp2 /\ ~p.tp2 /\ Share(Tp2Pct) >= MinVolume, "tp2", Share(Tp2Pct))
    \o If(Tighter(q.sl, p.sl), "modify_sl", q.sl)
    \o If(Tp3 # NoLevel /\ bar.against /\ ~Reached(bar.price, Level(Tp3)),
          "close_all", 0)

\* The actions in the order of plan(); the weekend pre-empts the rest.
Actions(p, bar) ==
    LET q == NextPlan(p, bar) IN
    IF weekend THEN If(TRUE, "close_all", 0)
    ELSE If(q.tp1 /\ ~p.tp1 /\ Share(Tp1Pct) >= MinVolume, "tp1", Share(Tp1Pct))
      \o If(q.tp2 /\ ~p.tp2 /\ Share(Tp2Pct) >= MinVolume, "tp2", Share(Tp2Pct))
      \o If(Tighter(q.sl, p.sl), "modify_sl", q.sl)
      \o If(Tp3 # NoLevel /\ bar.against /\ ~Reached(bar.price, Level(Tp3)),
            "close_all", 0)

-----------------------------------------------------------------------------
(* _manage_positions for a position the broker still lists.                *)

Fault == faults < MaxFaults /\ faults' = faults + 1

\* Load the stored plan and plan the bar.
PlanBar ==
    /\ pc = "idle"
    /\ lots > 0
    /\ \E bar \in Bars :
          /\ todo' = Actions(plan, bar)
          /\ next' = IF weekend THEN plan ELSE NextPlan(plan, bar)
          /\ extreme' = Best({extreme, bar.price})
    /\ pc' = IF todo' = <<>> THEN "idle" ELSE "apply"
    /\ odd' = ~odd
    /\ touched' = FALSE
    /\ UNCHANGED <<side, plan, stop, lots, weekend, faults, stale,
                   banked>>

Step == /\ todo' = Tail(todo)
        /\ pc' = IF Len(todo) = 1 THEN "store" ELSE "apply"

\* _apply_action: order_modify or close_position is executed.
Apply ==
    /\ pc = "apply"
    /\ lots > 0
    /\ LET a == Head(todo) IN
       /\ stop' = IF a.kind = "modify_sl" THEN a.arg ELSE stop
       /\ lots' = IF a.kind = "close_all" THEN 0
                  ELSE IF a.kind \in Targets /\ a.arg < lots THEN lots - a.arg
                  ELSE IF a.kind \in Targets THEN 0
                  ELSE lots
       /\ banked' = [t \in Targets |->
                        IF t = a.kind THEN banked[t] + 1 ELSE banked[t]]
    /\ Step
    /\ touched' = TRUE
    /\ UNCHANGED <<side, odd, plan, next, weekend, faults, stale,
                   extreme>>

\* Rejected, or the call raised before the broker had it: logged, and the
\* loop goes on. Nothing is left to do on a position that is closed.
ApplyFails ==
    /\ pc = "apply"
    /\ \/ lots = 0 /\ UNCHANGED faults
       \/ Fault
    /\ Step
    /\ UNCHANGED <<side, odd, plan, next, stop, lots, weekend, touched, hist>>

\* Mutant: the stop is not written back.
StoreOldSl ==
    /\ pc = "store"
    /\ plan' = [next EXCEPT !.sl = plan.sl]
    /\ pc' = "idle"
    /\ UNCHANGED <<side, odd, next, todo, stop, lots, weekend, faults,
                   touched, hist>>

\* Mutant: the plan is written back without the targets taken.
StoreOldTargets ==
    /\ pc = "store"
    /\ plan' = [next EXCEPT !.tp1 = plan.tp1, !.tp2 = plan.tp2]
    /\ pc' = "idle"
    /\ UNCHANGED <<side, odd, next, todo, stop, lots, weekend, faults,
                   touched, hist>>

\* _store_managed: the planned state, whatever the broker answered.
Store ==
    /\ pc = "store"
    /\ plan' = next
    /\ pc' = "idle"
    /\ UNCHANGED <<side, odd, next, todo, stop, lots, weekend, faults,
                   touched, hist>>

\* Redis fails, or the process dies and is restarted.
Abort ==
    /\ pc \in {"apply", "store"}
    /\ Fault
    /\ todo' = <<>>
    /\ pc' = "idle"
    /\ stale' = (stale \/ touched)
    /\ UNCHANGED <<side, odd, plan, next, stop, lots, weekend, touched,
                   banked, extreme>>

\* The stop, the backstop target or the operator.
BrokerCloses ==
    /\ lots > 0
    /\ lots' = 0
    /\ UNCHANGED <<side, odd, plan, next, todo, pc, stop, weekend, faults,
                   touched, hist>>

WeekendBegins ==
    /\ ~weekend
    /\ weekend' = TRUE
    /\ UNCHANGED <<side, odd, plan, next, todo, pc, stop, lots, faults,
                   touched, hist>>

-----------------------------------------------------------------------------
Manage == PlanBar \/ Apply \/ ApplyFails \/ Store

Next == Manage \/ Abort \/ BrokerCloses \/ WeekendBegins

Spec == Init /\ [][Next]_vars

\* Bars keep coming, whatever they say, and each is worked through;
\* rejections are bounded by MaxFaults, so the broker accepts in the end.
FairSpec == Spec /\ WF_vars(Manage)

-----------------------------------------------------------------------------
(* Properties.                                                             *)

\* "SL only ever moves in the trade's favour": no sequence of bars, changing
\* ATRs, rejections or restarts loosens the broker's stop, unless a plan was
\* not stored after it had been acted on.
StopOnlyTightens == [][stop' # stop => stale \/ Tighter(stop', stop)]_vars

\* Under the same proviso a target is banked once at most: also when price
\* falls back through it, an action is rejected or the process dies.
TargetsBankedOnce == stale \/ \A t \in Targets : banked[t] <= 1

\* A position that is open when the weekend cutoff passes is closed, also if
\* close_all is rejected at first or the engine dies.
WeekendIsFlat == weekend ~> (lots = 0)

\* ManagedPosition.peak: "Highest price seen since entry (long) / lowest
\* (short)".
PeakIsExtreme == (pc = "idle" /\ ~stale) => plan.peak = extreme

=============================================================================
