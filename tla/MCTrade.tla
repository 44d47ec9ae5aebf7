------------------------------ MODULE MCTrade ------------------------------
(***************************************************************************)
(* Trades made and trades replayed, on one TradePlan, for TLC: a behaviour *)
(* is the entries of the service over either bridge, a backtest, or the    *)
(* loop of a walk-forward run. The backtest's market is around 100 with an *)
(* ATR of 4: quiet without an ATR yet, the targets of either side one      *)
(* after the other, a stop-out, an adverse event, a weekend.               *)
(***************************************************************************)
EXTENDS Backtest, WalkForward, OrderEntry

VARIABLE part   \* whose behaviour it is

Swings(low, high) == [long |-> low, short |-> high]
Bar(low, high, close) ==
    [low |-> low, high |-> high, close |-> close, atr |-> 4, swings |-> Swings(97, 103),
     event |-> None, weekend |-> FALSE, news |-> FALSE, centers |-> {}, gaps |-> <<>>, profiles |-> <<>>,
     session |-> "london", band |-> "reduced", type |-> "reduced"]
MCShapes == {
    [Bar(99, 101, 100) EXCEPT !.atr = 0],
    [Bar(98, 104, 103) EXCEPT !.swings = Swings(99, 104)],
    [Bar(96, 102, 97) EXCEPT !.event = "down", !.band = "full", !.type = "full"],
    [Bar(99, 110, 108) EXCEPT !.swings = Swings(101, None)],
    [Bar(99, 120, 118) EXCEPT !.centers = {96, 105}, !.news = TRUE, !.session = "ny"],
    [Bar(88, 101, 90) EXCEPT !.event = "up", !.swings = Swings(None, 99)],
    [Bar(97, 103, 99) EXCEPT !.weekend = TRUE]}
MCSlippage == [base |-> 0, factor |-> 10]
MCSpread == [base |-> 2, factor |-> 0, times |-> 2]
MCExit == [tp1 |-> 30, tp2 |-> 30, be |-> 1, activate |-> 1, buffer |-> 1, chandelier |-> 2, bonus |-> 1]

\* Walk-forward runs: by days, by months, by default; from days every month
\* has and from days some month has not, over a leap day
Part(in, oos, step) == [in |-> in, oos |-> oos, step |-> step]
MCKnobs ==
    {[days |-> d, months |-> None] : d \in {Part(8, None, None), Part(3, None, None), Part(20, 5, 7)}}
    \cup {[days |-> None, months |-> m] :
             m \in {Part(1, 1, 1), Part(2, 1, None), Part(4, None, 3), None}}
Jan2023 == 738520
MCStarts == {Jan2023 + d : d \in {0, 14, 27, 28, 29, 30, 365 + 29, 365 + 30}}
\* A range too short for a window, which one backtest is run over
Single == [knobs |-> [days |-> None, months |-> None], start |-> Jan2023, end |-> Jan2023 + 1]
MCRuns ==
    {Single} \cup
    UNION {{[knobs |-> k, start |-> s, end |-> s + span] : span \in IF InDays(k) THEN {0, 45} ELSE {0, 45, 500}} :
              k \in MCKnobs, s \in MCStarts}

Market ==
    [atr |-> 2, swings |-> [long |-> 98, short |-> 102], centers |-> {104, 97}, gaps |-> <<>>,
     profiles |-> <<[vah |-> 107, val |-> 93, vpoc |-> 101]>>]
\* A long and a short four points from their stops, one of them with targets of
\* the AI; fills at the price, trimmable and beyond help
MCEntries == {
    [side |-> "long", price |-> 100, market |-> Market, ai |-> [levels |-> {}, rr |-> <<None, None>>]],
    [side |-> "short", price |-> 100, market |-> Market,
     ai |-> [levels |-> {103}, rr |-> <<2, 1>>]]}

MCInit ==
    /\ Init /\ BacktestInit /\ WalkInit
    /\ \/ part = "live" /\ run = Single
       \/ part = "replay" /\ bridge = "rpyc"
MCNext ==
    \/ part = "live" /\ Next /\ UNCHANGED <<part, backtestVars, walkVars>>
    \/ part = "replay" /\ run = Single /\ BacktestNext /\ UNCHANGED <<part, walkVars, vars>>
    \/ part = "replay" /\ run # Single /\ WalkNext /\ UNCHANGED <<part, backtestVars, vars>>
\* OrderEntry's fairness, where it is its turn
MCSpec ==
    /\ MCInit /\ [][MCNext]_<<part, backtestVars, walkVars, vars>>
    /\ WF_vars(part = "live" /\ PublishState)
    /\ WF_vars(part = "live" /\ Handler)
=============================================================================
