--------------------------- MODULE ExecutionEngine ---------------------------
(***************************************************************************)
(* The life of a position across the execution engine, the broker, Redis   *)
(* and the journal writer: the handler of execution_engine.py (manage loop *)
(* first, then the entry), one step per await, and journal_writer.py.      *)
(* Whether an entry is allowed is the subject of RiskManager and           *)
(* KillSwitch; what a live position's plan does is PositionManager's.      *)
(***************************************************************************)
EXTENDS Naturals, Sequences, FiniteSets

CONSTANTS MaxTickets,  \* bound: positions ever opened
          MaxFaults    \* bound: crashes and failed calls

ASSUME EngineAssumption == MaxTickets \in Nat /\ MaxFaults \in Nat

Tickets == 1..MaxTickets

VARIABLES
    tickets,   \* positions opened so far
    book,      \* open positions at the broker
    plans,     \* mgmt:pos:* keys in Redis
    pc,        \* the handler
    todo,      \* stored plans this bar has not looked at
    snap,      \* positions_get as read this bar
    cur,       \* the ticket in work (0: none)
    pnlKnown,  \* did the broker's deal history give a result?
    events,    \* journal stream, oldest first
    row,       \* trade rows in the journal
    booked,    \* how often a result was added to the risk totals
    faults,    \* crashes and failed calls so far
    orphaned,  \* history: the entry broke before its plan was stored
    untraded,  \* history: the entry broke before its trade was published
    unbooked,  \* history: closed without a result to book
    rebook,    \* history: finalised, but the plan was not deleted
    misread,   \* history: open, but missing from an empty positions_get
    lost,      \* history: tickets with an event the writer failed on
    unmatched  \* history: trade_close found no row

engine == <<pc, todo, snap, cur, pnlKnown>>
journal == <<events, row, lost, unmatched>>
torn == <<orphaned, untraded, unbooked, rebook, misread>>
vars == <<tickets, book, plans, engine, booked, faults, torn, journal>>

PcStates == {"idle", "read", "loop", "info", "publish", "book", "delete",
             "entry", "store", "trade", "down"}

Event == [kind : {"trade", "close"}, ticket : Tickets]

TypeOK ==
    /\ tickets \in 0..MaxTickets
    /\ book \subseteq 1..tickets
    /\ plans \subseteq 1..tickets
    /\ pc \in PcStates
    /\ todo \subseteq plans
    /\ snap \subseteq 1..tickets
    /\ cur \in 0..tickets
    /\ pnlKnown \in BOOLEAN
    /\ events \in Seq(Event)
    /\ row \in [Tickets -> {"none", "open", "closed"}]
    /\ booked \in [Tickets -> Nat]
    /\ faults \in 0..MaxFaults
    /\ orphaned \subseteq Tickets
    /\ untraded \subseteq Tickets
    /\ unbooked \subseteq Tickets
    /\ rebook \subseteq Tickets
    /\ misread \subseteq Tickets
    /\ lost \subseteq Tickets
    /\ unmatched \subseteq Tickets

Init ==
    /\ tickets = 0
    /\ book = {}
    /\ plans = {}
    /\ pc = "idle"
    /\ todo = {}
    /\ snap = {}
    /\ cur = 0
    /\ pnlKnown = FALSE
    /\ events = <<>>
    /\ row = [t \in Tickets |-> "none"]
    /\ booked = [t \in Tickets |-> 0]
    /\ faults = 0
    /\ orphaned = {}
    /\ untraded = {}
    /\ unbooked = {}
    /\ rebook = {}
    /\ misread = {}
    /\ lost = {}
    /\ unmatched = {}

Fault == faults < MaxFaults /\ faults' = faults + 1

-----------------------------------------------------------------------------
(* _manage_positions: every bar, before the entry.                         *)

\* Mutant: only plans of open positions are looked at.
LoadLivePlans ==
    /\ pc = "idle"
    /\ todo' = plans \cap book
    /\ pc' = IF todo' = {} THEN "entry" ELSE "read"
    /\ UNCHANGED <<tickets, book, plans, snap, cur, pnlKnown, booked, faults,
                   torn, journal>>

\* A decision event arrives; _load_managed_all.
LoadPlans ==
    /\ pc = "idle"
    /\ todo' = plans
    /\ pc' = IF plans = {} THEN "entry" ELSE "read"
    /\ UNCHANGED <<tickets, book, plans, snap, cur, pnlKnown, booked, faults,
                   torn, journal>>

\* connector.positions_get: the book; nothing, as the connector returns [] for
\* a terminal that answers None; or an exception, which ends the management of
\* this bar.
ReadPositions ==
    /\ pc = "read"
    /\ \/ snap' = book /\ pc' = "loop" /\ UNCHANGED <<todo, faults, misread>>
       \/ /\ Fault
          /\ snap' = {}
          /\ pc' = "loop"
          /\ misread' = misread \cup (todo \cap book)
          /\ UNCHANGED todo
       \/ Fault /\ pc' = "entry" /\ todo' = {} /\ UNCHANGED <<snap, misread>>
    /\ UNCHANGED <<tickets, book, plans, cur, pnlKnown, booked, orphaned,
                   untraded, unbooked, rebook, journal>>

\* A live position: its actions may close it; storing the updated plan may
\* raise, which ends the management of this bar.
ManageLive ==
    /\ pc = "loop"
    /\ \E t \in todo \cap snap :
          /\ book' \in {book, book \ {t}}
          /\ \/ todo' = todo \ {t} /\ UNCHANGED <<pc, faults>>
             \/ Fault /\ todo' = {} /\ pc' = "entry"
    /\ UNCHANGED <<tickets, plans, snap, cur, pnlKnown, booked, torn, journal>>

\* A plan without a position: finalise it.
MeetClosed ==
    /\ pc = "loop"
    /\ \E t \in todo \ snap : cur' = t /\ todo' = todo \ {t}
    /\ pc' = "info"
    /\ UNCHANGED <<tickets, book, plans, snap, pnlKnown, booked, faults, torn,
                   journal>>

EndLoop ==
    /\ pc = "loop"
    /\ todo = {}
    /\ pc' = "entry"
    /\ UNCHANGED <<tickets, book, plans, todo, snap, cur, pnlKnown, booked,
                   faults, torn, journal>>

\* _journal_close swallows every exception, that of a publish whose reply is
\* lost included: nothing is booked and the plan is deleted all the same.
AbortFinalise ==
    /\ pc \in {"info", "publish", "book"}
    /\ Fault
    /\ pc' = "delete"
    /\ unbooked' = unbooked \cup {cur}
    /\ UNCHANGED <<tickets, book, plans, todo, snap, cur, pnlKnown, booked,
                   orphaned, untraded, rebook, misread, journal>>

\* connector.closed_position_info: None when there is no deal history.
AskDealHistory ==
    /\ pc = "info"
    /\ pnlKnown' \in BOOLEAN
    /\ pc' = "publish"
    /\ UNCHANGED <<tickets, book, plans, todo, snap, cur, booked, faults, torn,
                   journal>>

PublishClose ==
    /\ pc = "publish"
    /\ events' = Append(events, [kind |-> "close", ticket |-> cur])
    /\ pc' = "book"
    /\ UNCHANGED <<tickets, book, plans, todo, snap, cur, pnlKnown, booked,
                   faults, torn, row, lost, unmatched>>

\* Mutant: risk_mgr is left at its default None.
BookNothing ==
    /\ pc = "book"
    /\ pc' = "delete"
    /\ unbooked' = IF pnlKnown THEN unbooked ELSE unbooked \cup {cur}
    /\ UNCHANGED <<tickets, book, plans, todo, snap, cur, pnlKnown, booked,
                   faults, orphaned, untraded, rebook, misread, journal>>

\* record_pnl and _persist_risk; skipped without a result.
BookPnl ==
    /\ pc = "book"
    /\ pc' = "delete"
    /\ booked' = [booked EXCEPT ![cur] = IF pnlKnown THEN @ + 1 ELSE @]
    /\ unbooked' = IF pnlKnown THEN unbooked ELSE unbooked \cup {cur}
    /\ UNCHANGED <<tickets, book, plans, todo, snap, cur, pnlKnown, faults,
                   orphaned, untraded, rebook, misread, journal>>

\* Mutant: the plan is kept.
KeepPlan ==
    /\ pc = "delete"
    /\ pc' = "loop"
    /\ cur' = 0
    /\ UNCHANGED <<tickets, book, plans, todo, snap, pnlKnown, booked, faults,
                   torn, journal>>

\* _delete_managed
DeletePlan ==
    /\ pc = "delete"
    /\ pc' = "loop"
    /\ plans' = plans \ {cur}
    /\ cur' = 0
    /\ UNCHANGED <<tickets, book, todo, snap, pnlKnown, booked, faults, torn,
                   journal>>

\* _delete_managed swallows a Redis error.
DeletePlanFails ==
    /\ pc = "delete"
    /\ Fault
    /\ pc' = "loop"
    /\ rebook' = rebook \cup {cur}
    /\ cur' = 0
    /\ UNCHANGED <<tickets, book, plans, todo, snap, pnlKnown, booked,
                   orphaned, untraded, unbooked, misread,
                   journal>>

-----------------------------------------------------------------------------
(* The entry.                                                              *)

\* No setup, a gate, a veto or a rejected order.
NoEntry ==
    /\ pc = "entry"
    /\ pc' = "idle"
    /\ UNCHANGED <<tickets, book, plans, todo, snap, cur, pnlKnown, booked,
                   faults, torn, journal>>

\* pipeline.process fills an order.
Send ==
    /\ pc = "entry"
    /\ tickets < MaxTickets
    /\ tickets' = tickets + 1
    /\ book' = book \cup {tickets + 1}
    /\ pc' = "store"
    /\ cur' = tickets + 1
    /\ UNCHANGED <<plans, todo, snap, pnlKnown, booked, faults, torn, journal>>

\* The broker fills, the reply is lost: OrderManager.send reports "rejected".
SendReplyLost ==
    /\ pc = "entry"
    /\ tickets < MaxTickets
    /\ Fault
    /\ tickets' = tickets + 1
    /\ book' = book \cup {tickets + 1}
    /\ orphaned' = orphaned \cup {tickets + 1}
    /\ pc' = "idle"
    /\ UNCHANGED <<plans, todo, snap, cur, pnlKnown, booked, untraded,
                   unbooked, rebook, misread, journal>>

\* Mutant: the plan gets the 15 second default of set_json.
StoreShortLived ==
    /\ pc = "store"
    /\ pc' = "trade"
    /\ UNCHANGED <<tickets, book, plans, todo, snap, cur, pnlKnown, booked,
                   faults, torn, journal>>

\* _store_managed
StorePlan ==
    /\ pc = "store"
    /\ pc' = "trade"
    /\ plans' = plans \cup {cur}
    /\ UNCHANGED <<tickets, book, todo, snap, cur, pnlKnown, booked, faults,
                   torn, journal>>

\* The order event, then the trade and order journal events.
PublishTrade ==
    /\ pc = "trade"
    /\ pc' = "idle"
    /\ events' = Append(events, [kind |-> "trade", ticket |-> cur])
    /\ cur' = 0
    /\ UNCHANGED <<tickets, book, plans, todo, snap, pnlKnown, booked, faults,
                   torn, row, lost, unmatched>>

\* Redis fails in the entry: the handler raises, the decision is not repeated.
EntryFails ==
    /\ pc \in {"store", "trade"}
    /\ Fault
    /\ pc' = "idle"
    /\ cur' = 0
    /\ orphaned' = IF pc = "store" THEN orphaned \cup {cur} ELSE orphaned
    /\ untraded' = untraded \cup {cur}
    /\ UNCHANGED <<tickets, book, plans, todo, snap, pnlKnown, booked,
                   unbooked, rebook, misread, journal>>

-----------------------------------------------------------------------------
(* The broker, the process and the journal writer.                         *)

BrokerCloses ==
    /\ \E t \in book : book' = book \ {t}
    /\ UNCHANGED <<tickets, plans, engine, booked, faults, torn, journal>>

Crash ==
    /\ pc # "down"
    /\ Fault
    /\ pc' = "down"
    /\ todo' = {}
    /\ cur' = 0
    /\ orphaned' = IF pc = "store" THEN orphaned \cup {cur} ELSE orphaned
    /\ untraded' = IF pc \in {"store", "trade"} THEN untraded \cup {cur}
                                                ELSE untraded
    /\ rebook' = IF pc = "delete" THEN rebook \cup {cur} ELSE rebook
    /\ UNCHANGED <<tickets, book, plans, snap, pnlKnown, booked, unbooked,
                   misread, journal>>

Restart ==
    /\ pc = "down"
    /\ pc' = "idle"
    /\ UNCHANGED <<tickets, book, plans, todo, snap, cur, pnlKnown, booked,
                   faults, torn, journal>>

\* write_trade, or get_trade_by_order_id and update_trade.
Written(e) ==
    [row EXCEPT ![e.ticket] =
        IF e.kind = "trade" THEN "open"
        ELSE IF @ = "none" THEN "none" ELSE "closed"]

\* Mutant: the newest event is taken first.
WriteNewestEvent ==
    /\ events # <<>>
    /\ LET e == events[Len(events)] IN
       /\ row' = Written(e)
       /\ unmatched' = IF e.kind = "close" /\ row[e.ticket] = "none"
                       THEN unmatched \cup {e.ticket} ELSE unmatched
    /\ events' = SubSeq(events, 1, Len(events) - 1)
    /\ UNCHANGED <<tickets, book, plans, engine, booked, faults, torn, lost>>

WriteEvent ==
    /\ events # <<>>
    /\ LET e == Head(events) IN
       /\ row' = Written(e)
       /\ unmatched' = IF e.kind = "close" /\ row[e.ticket] = "none"
                       THEN unmatched \cup {e.ticket} ELSE unmatched
    /\ events' = Tail(events)
    /\ UNCHANGED <<tickets, book, plans, engine, booked, faults, torn, lost>>

\* The database fails or the writer dies: the event is not read again.
WriteFails ==
    /\ events # <<>>
    /\ Fault
    /\ lost' = lost \cup {Head(events).ticket}
    /\ events' = Tail(events)
    /\ UNCHANGED <<tickets, book, plans, engine, booked, torn, row, unmatched>>

-----------------------------------------------------------------------------
Manage ==
    \/ LoadPlans \/ ReadPositions \/ ManageLive \/ MeetClosed \/ EndLoop
    \/ AskDealHistory \/ PublishClose \/ BookPnl \/ DeletePlan

Entry == NoEntry \/ Send \/ StorePlan \/ PublishTrade

Next ==
    \/ Manage \/ AbortFinalise \/ DeletePlanFails
    \/ Entry \/ SendReplyLost \/ EntryFails
    \/ BrokerCloses \/ Crash \/ Restart
    \/ WriteEvent \/ WriteFails

Spec == Init /\ [][Next]_vars

\* A decision event, and with it the handler, comes with every bar; the
\* containers restart a dead process; the journal writer keeps reading.
FairSpec ==
    /\ Spec
    /\ WF_vars(Manage \/ Entry)
    /\ WF_vars(Restart)
    /\ WF_vars(WriteEvent)

-----------------------------------------------------------------------------
(* Properties.                                                             *)

\* An open position has a plan from the moment its entry is through, unless
\* the entry itself broke or an empty positions_get made the engine finalise a
\* position that was open: closes, restarts and failed calls never drop one.
PlanKeptUnlessMisread ==
    \A t \in book : \/ t \in plans \cup orphaned \cup misread
                    \/ pc = "store" /\ cur = t

\* A result enters the daily and weekly totals twice only if the engine died
\* or Redis failed between booking it and deleting the plan.
BookedAtMostOnce == \A t \in Tickets : booked[t] > 1 => t \in rebook

\* A position that is gone from broker and Redis was booked, unless its entry
\* broke or the broker had no result: no interleaving of bars, closes and
\* restarts forgets one.
EveryCloseBooked ==
    \A t \in 1..tickets :
        t \notin book \cup plans \cup orphaned \cup unbooked =>
            \/ booked[t] > 0
            \/ pc = "store" /\ cur = t

\* Nothing is booked while the position is open, as long as positions_get is
\* right about it.
NeverBookedWhileOpen == \A t \in book : booked[t] > 0 => t \in misread

\* The journal never drops a close, unless the trade event before it was lost
\* or never published.
ClosesFindTheirTrade == unmatched \subseteq untraded \cup lost

\* Every plan of a closed position is finalised, over restarts and faults.
ClosedIsFinalised ==
    \A t \in Tickets : (t \in plans /\ t \notin book) ~> (t \notin plans)

=============================================================================
