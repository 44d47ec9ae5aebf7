--------------------------- MODULE MCMarketStream ---------------------------
(***************************************************************************)
(* The bus and the market data on it for TLC: a behaviour is one stream    *)
(* with its consumer, or collector and feature engine. Of the stream the   *)
(* cap is smaller than the number of entries, so that trimming overtakes a *)
(* slow reader, and a batch of two lets a fault strand part of one. The    *)
(* time frames, the ATR and the profile period are shortened to a few      *)
(* minutes, so that a few bars close several of each.                      *)
(***************************************************************************)
EXTENDS RedisStream, MarketData

VARIABLE part   \* whose behaviour it is

Bar(o, h, l, c, v) == [o |-> o, h |-> h, l |-> l, c |-> c, v |-> v]
MCShapes == {Bar(10, 14, 9, 13, 2)}
MCStart == 12 * 60 + 177          \* three minutes before a period ends
MCNews == {[ts |-> 12 * 60 + 2, high |-> TRUE]}

\* Charts for the pure parts: rising, falling and gapping minutes
Runs == {<<1, 3, 7, 12>>, <<12, 8, 3, 1>>, <<5, 9, 6, 10>>}
MCCharts ==
    {[i \in 1..8 |->
        LET p == (r \o q)[i]
            c == p + (IF i % 2 = 0 THEN u ELSE -1)
        IN  [t |-> 715 + i, o |-> p, h |-> Max({p, c}) + 1, l |-> Min({p, c}) - 1,
             c |-> c, v |-> 1 + (i % 3)]] : r \in Runs, q \in Runs, u \in {0}}

\* The market when it is not its turn: two bars old, and nothing started
AtRest ==
    /\ \E s \in Shapes : chart = <<BarOf(Start, s), BarOf(Start + 1, s)>>
    /\ now = Start + 2 /\ idle = 0 /\ skipped = 0 /\ failures = 0
    /\ ticks = <<>> /\ taken = 0 /\ out = None /\ fe = NoFeatures
    /\ col = [up |-> FALSE, last |-> None, polled |-> FALSE]

MCInit ==
    /\ Init
    /\ \/ part = "bus" /\ AtRest
       \/ part = "market" /\ MarketInit
MCNext ==
    \/ part = "bus" /\ Next /\ UNCHANGED <<part, marketVars>>
    \/ part = "market" /\ MarketNext /\ UNCHANGED <<part, vars>>
\* FairSpec's fairness, where it is the consumer's turn
MCSpec ==
    /\ MCInit /\ [][MCNext]_<<part, vars, marketVars>>
    /\ WF_vars(part = "bus" /\ ConsumerStep)
=============================================================================
