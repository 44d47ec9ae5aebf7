-------------------------------- MODULE Journal --------------------------------
(***************************************************************************)
(* The journal: what each of its two stores does with a record, what the   *)
(* journal writer does with an event, and what a reader is given. A store's*)
(* content is a value; the modules that use it hold it. "mem" is the store *)
(* of one process, "db" the tables every process shares. A store that      *)
(* raises leaves its content as it was.                                    *)
(***************************************************************************)
EXTENDS Integers, FiniteSets, SequencesExt, Maybe

EmptyJournal ==
    [trades |-> <<>>, orders |-> {}, snapshots |-> {}, decisions |-> {},
     discrepancies |-> {}, proposals |-> <<>>]

\* A record with its id inside, put into a table; the table keeps what it has or is overwritten
Insert(table, rec) ==
    [id \in DOMAIN table \cup {rec.id} |-> IF id \in DOMAIN table THEN table[id] ELSE rec]
Upsert(table, rec) ==
    [id \in DOMAIN table \cup {rec.id} |-> IF id = rec.id THEN rec ELSE table[id]]
Add(table, rec) == IF \E old \in table : old.id = rec.id THEN table ELSE table \cup {rec}
Overwrite(table, rec) == {old \in table : old.id # rec.id} \cup {rec}

-----------------------------------------------------------------------------
\* Trades

WriteTradeMem(c, trade) == [c EXCEPT !.trades = Insert(@, trade)]
WriteTradeDb(c, trade) == [c EXCEPT !.trades = Upsert(@, trade)]
WriteTrade(kind, c, trade) == IF kind = "mem" THEN WriteTradeMem(c, trade) ELSE WriteTradeDb(c, trade)

MayChange == {"close", "exit", "pnl", "r", "reason", "tickets"}

Patch(trade, updates) ==
    [f \in DOMAIN trade |->
        IF f \notin DOMAIN updates THEN trade[f]
        ELSE IF f = "tickets" THEN trade.tickets \cup updates.tickets ELSE updates[f]]

BackDated(trade, updates) ==
    "close" \in DOMAIN updates /\ updates.close # None /\ updates.close < trade.open

\* Only the store in memory refuses a close before the opening
UpdateTradeMem(c, id, updates) ==
    IF \/ id \notin DOMAIN c.trades
       \/ ~ DOMAIN updates \subseteq MayChange
       \/ BackDated(c.trades[id], updates)
    THEN c ELSE [c EXCEPT !.trades[id] = Patch(@, updates)]

\* Select, then update: the journal writer is the only process that updates trades
UpdateTradeDb(c, id, updates) ==
    IF id \notin DOMAIN c.trades \/ ~ DOMAIN updates \subseteq MayChange
    THEN c ELSE [c EXCEPT !.trades[id] = Patch(@, updates)]

UpdateTrade(kind, c, id, updates) ==
    IF kind = "mem" THEN UpdateTradeMem(c, id, updates) ELSE UpdateTradeDb(c, id, updates)

Newer(ts) == CHOOSE t \in ts : \A u \in ts : u.open <= t.open

PickOldest(matches) ==
    IF matches = {} THEN None ELSE CHOOSE t \in matches : \A u \in matches : t.open <= u.open

\* The newest open trade with the ticket, else the newest closed one
PickByTicket(matches) ==
    LET open == {t \in matches : t.close = None}
    IN  IF matches = {} THEN None ELSE Newer(IF open # {} THEN open ELSE matches)

TradeByTicketMem(c, ticket) == PickByTicket({t \in Range(c.trades) : ticket \in t.tickets})
TradeByTicketDb(c, ticket) == PickByTicket({t \in Range(c.trades) : ticket \in t.tickets})
TradeByTicket(kind, c, ticket) ==
    IF kind = "mem" THEN TradeByTicketMem(c, ticket) ELSE TradeByTicketDb(c, ticket)

-----------------------------------------------------------------------------
\* The other tables

WriteSnapshotMem(c, rec) == [c EXCEPT !.snapshots = Add(@, rec)]
WriteSnapshotDb(c, rec) == [c EXCEPT !.snapshots = Add(@, rec)]
WriteOrderMem(c, rec) == [c EXCEPT !.orders = Add(@, rec)]
WriteOrderDb(c, rec) == [c EXCEPT !.orders = Add(@, rec)]
WriteDecisionMem(c, rec) == [c EXCEPT !.decisions = Overwrite(@, rec)]
WriteDecisionDb(c, rec) == [c EXCEPT !.decisions = Add(@, rec)]

Record(kind, c, type, rec) ==
    CASE type = "snapshot" -> IF kind = "mem" THEN WriteSnapshotMem(c, rec) ELSE WriteSnapshotDb(c, rec)
      [] type = "order" -> IF kind = "mem" THEN WriteOrderMem(c, rec) ELSE WriteOrderDb(c, rec)
      [] type = "decision" -> IF kind = "mem" THEN WriteDecisionMem(c, rec) ELSE WriteDecisionDb(c, rec)

-----------------------------------------------------------------------------
\* Reading. A limit keeps the oldest or the newest; the order of the answer follows from its records.

Oldest(recs, time(_), limit) == {x \in recs : Cardinality({y \in recs : time(y) < time(x)}) < limit}
Newest(recs, time(_), limit) == {x \in recs : Cardinality({y \in recs : time(y) > time(x)}) < limit}
Within(recs, time(_), from, to) == {x \in recs : from <= time(x) /\ time(x) < to}

Opened(t) == t.open
BarOf(s) == s.bar
TimeOf(d) == d.ts

ListTradesMem(c, from, to, limit) == Oldest(Within(Range(c.trades), Opened, from, to), Opened, limit)
ListTradesDb(c, from, to, limit) == Oldest(Within(Range(c.trades), Opened, from, to), Opened, limit)
ListTrades(kind, c, from, to, limit) ==
    IF kind = "mem" THEN ListTradesMem(c, from, to, limit) ELSE ListTradesDb(c, from, to, limit)

ListSnapshotsMem(c, from, to, limit, newestFirst) ==
    LET all == Within(c.snapshots, BarOf, from, to)
    IN  IF newestFirst THEN Newest(all, BarOf, limit) ELSE Oldest(all, BarOf, limit)
ListSnapshotsDb(c, from, to, limit, newestFirst) ==
    LET all == Within(c.snapshots, BarOf, from, to)
    IN  IF newestFirst THEN Newest(all, BarOf, limit) ELSE Oldest(all, BarOf, limit)
ListSnapshots(kind, c, from, to, limit, newestFirst) ==
    IF kind = "mem" THEN ListSnapshotsMem(c, from, to, limit, newestFirst)
    ELSE ListSnapshotsDb(c, from, to, limit, newestFirst)

ListDiscrepanciesMem(c, from, to, limit) == Oldest(Within(c.discrepancies, TimeOf, from, to), TimeOf, limit)
ListDiscrepanciesDb(c, from, to, limit) == Oldest(Within(c.discrepancies, TimeOf, from, to), TimeOf, limit)
ListDiscrepancies(kind, c, from, to, limit) ==
    IF kind = "mem" THEN ListDiscrepanciesMem(c, from, to, limit)
    ELSE ListDiscrepanciesDb(c, from, to, limit)

-----------------------------------------------------------------------------
\* Proposals

Transitions == [proposed |-> {"proposed", "backtested", "approved", "rejected"},
                backtested |-> {"backtested", "approved", "rejected"},
                approved |-> {"approved"}, rejected |-> {"rejected"}]

AddProposalMem(c, rec) == [c EXCEPT !.proposals = Insert(@, rec)]
AddProposalDb(c, rec) == [c EXCEPT !.proposals = Insert(@, rec)]
AddProposal(kind, c, rec) == IF kind = "mem" THEN AddProposalMem(c, rec) ELSE AddProposalDb(c, rec)

MayUpdateAny(c, rec) == rec.id \in DOMAIN c.proposals
\* In memory the check and the write are one step
MayUpdateMem(c, rec) == rec.id \in DOMAIN c.proposals /\ rec.status \in Transitions[c.proposals[rec.id].status]
\* In the database they are two statements: `found` is the row of the first
MayUpdateDb(found, rec) == found # None /\ rec.status \in Transitions[found.status]
Replace(c, rec) == [c EXCEPT !.proposals[rec.id] = rec]
ProposalOf(c, id) == IF id \in DOMAIN c.proposals THEN c.proposals[id] ELSE None

-----------------------------------------------------------------------------
\* The journal writer

CloseUpdates(e) ==
    [f \in {"close", "exit", "reason"} \cup {g \in {"pnl", "r"} : e[g] # None} |-> e[f]]

\* A close without a trade, an unknown version and an empty event are dropped
Handle(kind, c, e) ==
    IF ~ e.known THEN c
    ELSE IF e.type = "trade" THEN WriteTrade(kind, c, e.rec)
    ELSE IF e.type = "close" THEN
            LET trade == TradeByTicket(kind, c, e.ticket)
            IN  IF trade = None THEN c ELSE UpdateTrade(kind, c, trade.id, CloseUpdates(e))
    ELSE IF e.type \in {"snapshot", "order", "decision"} THEN Record(kind, c, e.type, e.rec)
    ELSE c

\* The store a process starts with: memory when there is no database or it does not answer
StoreAtStart(reachable) == IF reachable THEN "db" ELSE "mem"
=============================================================================
