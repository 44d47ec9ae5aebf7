-------------------------------- MODULE Review --------------------------------
(***************************************************************************)
(* The periodic review and the proposals it leads to: what is sampled and  *)
(* summed up for the model, when the model is asked and how its answer is  *)
(* taken, the proposals made of it, and the validation of one. Records     *)
(* come from Journal; an amount None is a trade that is still open.        *)
(***************************************************************************)
EXTENDS Journal

CONSTANTS
    DayLength, DailyMin, WeeklyMin,   \* length of a day; trades a review needs
    MaxSnapshots, MaxDiscrepancies,   \* of one review
    MaxRows,                          \* of one journal query
    ValidationRetries

Weekdays == {"Mon", "Tue", "Wed", "Thu", "Fri"}

\* A stride over the sorted records, cut after `max` of them
SampleEvenly(items, max) ==
    LET n == Len(items)
        step == IF n \div max > 1 THEN n \div max ELSE 1
        all == [i \in 1 .. (n + step - 1) \div step |-> items[1 + (i - 1) * step]]
    IN  IF n <= max THEN items ELSE IF max <= 0 THEN <<>>
        ELSE SubSeq(all, 1, IF Len(all) > max THEN max ELSE Len(all))

SumOf(recs, amount(_)) == FoldSet(LAMBDA t, acc : acc + amount(t), 0, recs)
Pnl(t) == t.pnl
RMultiple(t) == t.r
Closed(trades) == {t \in trades : t.pnl # None}
Wins(trades) == {t \in Closed(trades) : t.pnl > 0}
Losses(trades) == {t \in Closed(trades) : t.pnl < 0}
Rated(trades) == {t \in Closed(trades) : t.r # None}

\* Rates and averages follow from the counts and the sums
Kpis(trades) ==
    [count |-> Cardinality(trades), closed |-> Cardinality(Closed(trades)),
     wins |-> Cardinality(Wins(trades)), losses |-> Cardinality(Losses(trades)),
     gained |-> SumOf(Wins(trades), Pnl), lost |-> - SumOf(Losses(trades), Pnl),
     totalR |-> SumOf(Rated(trades), RMultiple)]

\* What the days of the week show apart: a weekend's trades are in no group
SetupByDay(trades) == [d \in Weekdays |-> Kpis({t \in trades : t.day = d})]
BandByDay(trades) ==
    [d \in Weekdays |-> [b \in {t.band : t \in trades} |->
        Cardinality({t \in trades : t.day = d /\ t.band = b})]]
\* ... but the total counts them
DiscrepanciesByDay(ds) ==
    [byDay |-> [d \in Weekdays |-> Cardinality({x \in ds : x.day = d})], total |-> Cardinality(ds)]

Each(items, Op(_)) == [i \in DOMAIN items |-> Op(items[i])]
TradeSummary(t) == [f \in DOMAIN t \ {"tickets"} |-> t[f]]
SnapshotLite(s) == [bar |-> s.bar, band |-> s.band]
DiscrepancyLite(d) == [ts |-> d.ts, rule |-> d.rule, llm |-> d.llm]

Request(trades, snapshots, discrepancies, least) ==
    [trades |-> {TradeSummary(t) : t \in trades}, snapshots |-> Each(snapshots, SnapshotLite),
     kpis |-> Kpis(trades), discrepancies |-> Each(discrepancies, DiscrepancyLite), least |-> least]

\* A reply of the wrong shape is asked for again, a failed call is not
Reviewed(replies) ==
    LET asked == {i \in 1 .. ValidationRetries + 1 :
                    \A j \in 1 .. i - 1 : replies[j].kind = "malformed"}
        last == replies[CHOOSE i \in asked : \A j \in asked : j <= i]
    IN  IF last.kind = "valid" THEN [output |-> last.proposals, error |-> FALSE]
        ELSE [output |-> None, error |-> TRUE]

InTime(recs, time(_)) ==
    [i \in 1 .. Cardinality(recs) |-> CHOOSE x \in recs : Cardinality({y \in recs : time(y) < time(x)}) = i - 1]

\* A period is "daily" or "weekly". A review called too early in it asks nobody.
Least(period) == IF period = "weekly" THEN WeeklyMin ELSE DailyMin
PeriodEnd(period, from) == from + (IF period = "weekly" THEN 7 ELSE 1) * DayLength

RunPeriod(kind, c, period, from, replies) ==
    LET to == PeriodEnd(period, from)
        trades == ListTrades(kind, c, from, to, MaxRows)
        snapshots == ListSnapshots(kind, c, from, to, MaxRows, FALSE)
        discrepancies == ListDiscrepancies(kind, c, from, to, MaxRows)
        shown == SampleEvenly(InTime(snapshots, BarOf), MaxSnapshots)
        told == SampleEvenly(InTime(discrepancies, TimeOf), MaxDiscrepancies)
        across == IF period = "weekly"
                  THEN [setups |-> SetupByDay(trades), bands |-> BandByDay(trades),
                        discrepancies |-> DiscrepanciesByDay(discrepancies)]
                  ELSE None
        enough == Cardinality(trades) >= Least(period)
        reply == IF enough THEN Reviewed(replies) ELSE [output |-> None, error |-> FALSE]
    IN  [enough |-> enough, across |-> across, output |-> reply.output, error |-> reply.error,
         asked |-> IF enough THEN Request(trades, shown, told, Least(period)) ELSE None]

-----------------------------------------------------------------------------
\* Proposals

BuildProposal(id, idea) ==
    [id |-> id, status |-> "proposed", result |-> None, by |-> None,
     test |-> idea.test, risk |-> idea.risk]

\* A test is blank or says some of the things the patterns know; a spec is what they found
ParseSpec(test) == IF test.blank THEN None ELSE test.found
SaysNothing(spec) == spec = {}

Tested(p, result) == [p EXCEPT !.status = "backtested", !.result = result]
Decided(p, status, operator) == [p EXCEPT !.status = status, !.by = operator]
=============================================================================
