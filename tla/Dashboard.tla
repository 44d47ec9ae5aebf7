------------------------------ MODULE Dashboard ------------------------------
(***************************************************************************)
(* The dashboard process with what it shares with the others: the journal  *)
(* the writer fills, the sessions in Redis, the runtime flags, and the     *)
(* live feed of its sockets. Requests run on one event loop and interleave *)
(* at every await; `work` says which are made, by whom.                    *)
(***************************************************************************)
EXTENDS Views, LiveFeed

CONSTANTS
    Requests, Proposals, Operators,
    Works,             \* scenarios: requests, sessions, journal, events, streams and bounds, see Init
    RoleOf,            \* the configured role of each session's user
    Results,           \* what a test of a proposal may find
    Ideas              \* what a review may find worth a proposal

\* A row the journal may hold of a proposal
ProposalRows ==
    [id : Proposals, status : DOMAIN Transitions, result : Results \cup {None},
     by : Operators \cup {None}, test : {i.test : i \in Ideas}, risk : {i.risk : i \in Ideas}]

\* A scenario starts with proposals nobody has touched, and a model that is asked answers
ASSUME WorksAssumption ==
    /\ None \notin ProposalRows /\ ValidationRetries \in Nat
    /\ \A w \in Works :
        /\ DOMAIN w.journal = DOMAIN EmptyJournal
        /\ \A p \in DOMAIN w.journal.proposals :
                w.journal.proposals[p] \in {BuildProposal(p, idea) : idea \in Ideas}
        /\ \A r \in DOMAIN w.requests :
            LET q == w.requests[r]
            IN  /\ q.do \in {"propose", "approve", "reject", "validate"} => q.proposal \in Proposals
                /\ q.do \in {"approve", "reject"} => q.operator \in Operators
                /\ q.do = "propose" =>
                    /\ \A n \in 1 .. ValidationRetries + 1 :
                        (\A m \in 1 .. n - 1 : q.replies[m].kind = "malformed") => n \in DOMAIN q.replies
                    /\ \A n \in DOMAIN q.replies :
                        q.replies[n].kind = "valid" => q.replies[n].proposals \in Ideas

Opens(e) == e.known /\ e.type = "trade"
Closes(e) == e.known /\ e.type = "close"

\* Events come in the order they were published, a trade's opening before its closes. A ticket
\* that comes again, after a restart of the paper broker, is that of a later trade.
ASSUME EventsAssumption ==
    \A w \in Works :
        LET ev == w.events
            table == w.journal.trades
            IsTrade(t) == {"id", "open", "close", "tickets"} \subseteq DOMAIN t /\ t.open \in Int
        IN  /\ ev \in Seq(Range(ev))
            /\ \A id \in DOMAIN table : IsTrade(table[id]) /\ table[id].id = id
            /\ \A i \in DOMAIN ev : Opens(ev[i]) =>
                /\ IsTrade(ev[i].rec) /\ ev[i].rec.id = ev[i].of /\ ev[i].rec.id \notin DOMAIN table
                /\ \A k \in DOMAIN ev : Opens(ev[k]) /\ ev[k].of = ev[i].of => k = i
                /\ \A j \in DOMAIN ev : Closes(ev[j]) /\ ev[j].of = ev[i].of /\ i < j =>
                    LET earlier == {table[id] : id \in DOMAIN table}
                                    \cup {ev[k].rec : k \in {n \in 1 .. j - 1 : n # i /\ Opens(ev[n])}}
                    IN  /\ ev[j].ticket \in ev[i].rec.tickets
                        /\ \A t \in earlier : ev[j].ticket \in t.tickets => t.open < ev[i].rec.open

\* What the pages read: the times of what is stored, and of the entries that hold a bar
ASSUME PagesAssumption ==
    /\ {LeastFetch, MaxRows, MaxBars} \subseteq Nat /\ {MaxOverlays, HourLength} \subseteq Nat \ {0}
    /\ None \notin [bar : Int, curve : SUBSET Int]
    /\ \A w \in Works :
        LET table == w.journal.trades
            ev == w.events
            snaps == w.journal.snapshots \cup {e.rec : e \in {x \in Range(ev) : x.known /\ x.type = "snapshot"}}
            OnTime(t) == 0 <= t.open /\ t.open < EndOfTime
        IN  /\ w.now \in Int /\ (w.newestBar # None => w.newestBar \in Int)
            /\ IsFiniteSet(DOMAIN table)
            /\ \A id \in DOMAIN table : OnTime(table[id])
            /\ \A i \in DOMAIN ev : Opens(ev[i]) => OnTime(ev[i].rec)
            /\ \A s \in snaps : s.bar \in Int /\ s.overlay \in BOOLEAN
            /\ \A entries \in {w.history, w.ticks} :
                /\ entries \in Seq(Range(entries))
                /\ \A i \in DOMAIN entries : HasBar(entries[i], "X") => entries[i].bar.time \in Int

VARIABLES
    work,      \* the scenario
    up,        \* whether the database answers
    outages,
    backend,   \* store of each process: "mem" | "db"
    db,        \* the tables
    mem,       \* the store in memory of each process
    inbox,     \* events the journal writer has not taken
    lost,      \* history: trades whose opening was not stored
    misfiled,  \* history: <<trade, other, again>> where a close of other was written to
               \* trade, and whether other had been closed before
    sessions,  \* session ids in Redis
    left,      \* history: sessions that were logged out
    raced,     \* history: those with another request between its two steps at that moment
    pc,        \* where each request is
    copy,      \* the row a request holds
    past,      \* history: the versions of each proposal
    flags,     \* runtime switches
    tasks      \* backtests started from the dashboard
journalVars == <<up, outages, backend, db, mem, inbox, lost, misfiled>>
authVars == <<sessions, left, raced>>
vars == <<work, journalVars, authVars, pc, copy, past, flags, tasks, feedVars>>

Content(p) == IF backend[p] = "mem" THEN mem[p] ELSE db
SetContent(p, c) ==
    /\ mem' = IF backend[p] = "mem" THEN [mem EXCEPT ![p] = c] ELSE mem
    /\ db' = IF backend[p] = "db" THEN c ELSE db
Records == Content("dashboard")
Answers(p) == backend[p] = "mem" \/ up

Do(r) == work.requests[r].do
SidOf(r) == work.requests[r].sid
Made == DOMAIN work.requests

Openings(events) == {e.of : e \in {x \in ToSet(events) : Opens(x)}}
\* Closes whose opening was not published before them
Untraded(events) ==
    {events[j].of : j \in {k \in DOMAIN events :
        Closes(events[k]) /\ \A i \in 1 .. k - 1 : Opens(events[i]) => events[i].of # events[k].of}}

\* The dashboard's store was reachable at its start or not; a row the scenario starts with was proposed before
Init ==
    /\ work \in Works
    /\ up \in work.up /\ outages = 0
    /\ backend = [p \in {"writer", "dashboard"} |-> StoreAtStart(up)]
    /\ db = IF up THEN work.journal ELSE EmptyJournal
    /\ mem = [writer |-> EmptyJournal,
              dashboard |-> IF up THEN EmptyJournal
                            ELSE [EmptyJournal EXCEPT !.proposals = work.journal.proposals]]
    /\ inbox = work.events /\ lost = Untraded(work.events) /\ misfiled = {}
    /\ sessions = work.sessions /\ left = {} /\ raced = {}
    /\ pc = [r \in DOMAIN work.requests |-> "new"] /\ copy = [r \in DOMAIN work.requests |-> None]
    /\ past = [p \in Proposals |-> IF p \in DOMAIN work.journal.proposals
                                        THEN {work.journal.proposals[p]} ELSE {}]
    /\ flags = [ai |-> None, reasoning |-> None, emergency |-> None, mode |-> None]
    /\ tasks = [r \in {} |-> "running"]
    /\ FeedInit

-----------------------------------------------------------------------------
\* The journal writer and its store

DbFails == up /\ outages < work.outages /\ up' = FALSE /\ outages' = outages + 1
DbReturns == ~ up /\ up' = TRUE /\ UNCHANGED outages
Outage ==
    /\ DbFails \/ DbReturns
    /\ UNCHANGED <<work, backend, db, mem, inbox, lost, misfiled, authVars, pc, copy, past,
                   flags, tasks, feedVars>>

WasClosed(trades, id) == id \in DOMAIN trades /\ trades[id].close # None

\* An event whose store raises is gone: the stream hands it out once
WriteEvent ==
    /\ inbox # <<>> /\ inbox' = Tail(inbox)
    /\ LET e == Head(inbox)
           c == Content("writer")
           found == IF Closes(e) THEN TradeByTicket(backend["writer"], c, e.ticket) ELSE None
       IN  IF Answers("writer")
           THEN /\ SetContent("writer", Handle(backend["writer"], c, e))
                /\ misfiled' = IF found # None /\ found.id # e.of
                               THEN misfiled \cup {<<found.id, e.of, WasClosed(c.trades, e.of)>>} ELSE misfiled
                /\ UNCHANGED lost
           ELSE /\ lost' = IF Opens(e) THEN lost \cup {e.of} ELSE lost
                /\ UNCHANGED <<db, mem, misfiled>>
    /\ UNCHANGED <<work, up, outages, backend, authVars, pc, copy, past, flags, tasks, feedVars>>

\* The writer starts anew, with an empty store if the database does not answer just then. The
\* event it was at is not handed out again.
WriterRestarts ==
    /\ inbox # <<>>
    /\ \E taken \in 0 .. 1 : inbox' = SubSeq(inbox, 1 + taken, Len(inbox))
    /\ backend' = [backend EXCEPT !["writer"] = StoreAtStart(up)]
    /\ mem' = [mem EXCEPT !["writer"] = EmptyJournal]
    /\ lost' = IF backend["writer"] = "mem" \/ ~ up
               THEN Untraded(work.events) \cup (Openings(work.events) \ Openings(inbox'))
               ELSE lost \cup (Openings(inbox) \ Openings(inbox'))
    /\ UNCHANGED <<work, up, outages, db, misfiled, authVars, pc, copy, past, flags, tasks, feedVars>>

-----------------------------------------------------------------------------
\* Sessions

Rank == [viewer |-> 1, operator |-> 2, admin |-> 3]
LeastRole(do) ==
    CASE do \in {"approve", "reject", "validate", "ai", "reasoning", "emergency", "backtest"} -> "operator"
      [] do = "mode" -> "admin"
      [] OTHER -> "viewer"
Entitled(r) == Rank[RoleOf[SidOf(r)]] >= Rank[LeastRole(Do(r))]

Goes(r, to) == pc' = [pc EXCEPT ![r] = to]
OnlyAuth == UNCHANGED <<work, journalVars, copy, past, flags, tasks, feedVars>>
NoAuth == UNCHANGED <<work, up, outages, backend, inbox, lost, misfiled, authVars>>

\* A wrong password is refused; each login has a new session id
Login(r) ==
    /\ pc[r] = "new" /\ Do(r) = "login"
    /\ \/ sessions' = sessions \cup {SidOf(r)} /\ Goes(r, "done")
       \/ UNCHANGED sessions /\ Goes(r, "refused")
    /\ SidOf(r) \notin left
    /\ UNCHANGED <<left, raced>> /\ OnlyAuth

\* Needs no session and removes what the cookie names
Logout(r) ==
    /\ pc[r] = "new" /\ Do(r) = "logout"
    /\ sessions' = sessions \ {SidOf(r)} /\ Goes(r, "done")
    /\ left' = left \cup {SidOf(r)}
    /\ raced' = IF \E q \in Made : pc[q] = "found" /\ SidOf(q) = SidOf(r)
                THEN raced \cup {SidOf(r)} ELSE raced
    /\ OnlyAuth

Expires(s) ==
    /\ s \in sessions \cap work.expiring /\ sessions' = sessions \ {s}
    /\ \E r \in Made : SidOf(r) = s /\ pc[r] = "new"
    /\ UNCHANGED <<pc, left, raced>> /\ OnlyAuth

FindAnySession(r) ==
    /\ pc[r] = "new" /\ Do(r) \notin {"login", "logout", "propose"}
    /\ Goes(r, "found") /\ UNCHANGED authVars /\ OnlyAuth

\* GET: without a session the answer is 401, and a socket is closed
FindSession(r) ==
    /\ pc[r] = "new" /\ Do(r) \notin {"login", "logout", "propose"}
    /\ Goes(r, IF SidOf(r) \in sessions THEN "found" ELSE "refused")
    /\ UNCHANGED authVars /\ OnlyAuth

\* SET with a new expiry, whatever happened to the key meanwhile; a failed SET is passed over
RefreshSession(r) ==
    /\ pc[r] = "found"
    /\ \/ sessions' = sessions \cup {SidOf(r)}
       \/ UNCHANGED sessions
    /\ Goes(r, IF Entitled(r) THEN "run" ELSE "refused")
    /\ UNCHANGED <<left, raced>> /\ OnlyAuth

-----------------------------------------------------------------------------
\* Handlers: flags, sockets, backtests

Toggle(r) ==
    /\ pc[r] = "run" /\ Do(r) \in {"ai", "reasoning", "emergency"}
    /\ flags' = [flags EXCEPT ![Do(r)] = work.requests[r].value] /\ Goes(r, "done")
    /\ NoAuth /\ UNCHANGED <<db, mem, copy, past, tasks, feedVars>>

\* Refused unless confirmed, and for the live mode unless the settings allow it
ToggleMode(r) ==
    /\ pc[r] = "run" /\ Do(r) = "mode"
    /\ LET q == work.requests[r]
           allowed == q.confirm /\ (q.value = "live" => work.liveAllowed)
       IN  /\ flags' = IF allowed THEN [flags EXCEPT !.mode = q.value] ELSE flags
           /\ Goes(r, IF allowed THEN "done" ELSE "refused")
    /\ NoAuth /\ UNCHANGED <<db, mem, copy, past, tasks, feedVars>>

OpenSocket(r) ==
    /\ pc[r] = "run" /\ Do(r) = "ws"
    /\ Accept(work.requests[r].socket) /\ Goes(r, "done")
    /\ NoAuth /\ UNCHANGED <<db, mem, copy, past, flags, tasks>>

StartBacktest(r) ==
    /\ pc[r] = "run" /\ Do(r) = "backtest"
    /\ tasks' = (r :> "running") @@ tasks /\ Goes(r, "done")
    /\ NoAuth /\ UNCHANGED <<db, mem, copy, past, flags, feedVars>>

\* Without a source of bars the task fails. With one the engine waits for its journal by starting
\* a second event loop, which the running one forbids: only a window without bars comes through. A
\* walk-forward task fails always: its constructor is called with arguments it does not have.
EndBacktest(r) ==
    /\ r \in DOMAIN tasks /\ tasks[r] = "running"
    /\ tasks' = [tasks EXCEPT ![r] =
            IF work.requests[r].source /\ ~ work.requests[r].bars /\ ~ work.requests[r].walk
            THEN "completed" ELSE "failed"]
    /\ UNCHANGED <<work, journalVars, authVars, pc, copy, past, flags, feedVars>>

-----------------------------------------------------------------------------
\* Handlers: reviews and proposals

Row(r) == ProposalOf(Records, work.requests[r].proposal)
Raises(r) == ~ Answers("dashboard") /\ Goes(r, "refused") /\ UNCHANGED <<copy, db, mem, past>>
OnlyProposals == NoAuth /\ UNCHANGED <<flags, tasks, feedVars>>
Stored(p, v) == past' = [past EXCEPT ![p] = @ \cup {v}]

\* What the reviewing command makes of the journal
Propose(r) ==
    /\ pc[r] = "new" /\ Do(r) = "propose"
    /\ LET q == work.requests[r]
           review == RunPeriod(backend["dashboard"], Records, q.period, 0, q.replies)
           new == BuildProposal(q.proposal, review.output)
       IN  \/ Raises(r)
           \/ /\ Answers("dashboard") /\ Goes(r, "done") /\ UNCHANGED copy
              /\ IF review.output = None \/ Row(r) # None
                 THEN UNCHANGED <<db, mem, past>>
                 ELSE /\ SetContent("dashboard", AddProposal(backend["dashboard"], Records, new))
                      /\ Stored(q.proposal, new)
    /\ OnlyProposals

\* Both decisions put status and operator on the version they read
ReadForDecision(r) ==
    /\ pc[r] = "run" /\ Do(r) \in {"approve", "reject"}
    /\ \/ Raises(r)
       \/ /\ Answers("dashboard") /\ UNCHANGED <<db, mem, past>>
          /\ IF Row(r) = None THEN Goes(r, "refused") /\ UNCHANGED copy
             ELSE /\ Goes(r, "put")
                  /\ copy' = [copy EXCEPT ![r] =
                        Decided(Row(r), IF Do(r) = "approve" THEN "approved" ELSE "rejected",
                                work.requests[r].operator)]
    /\ OnlyProposals

ReadForTest(r) ==
    /\ pc[r] = "run" /\ Do(r) = "validate"
    /\ \/ Raises(r)
       \/ /\ Answers("dashboard") /\ UNCHANGED <<db, mem, past>>
          /\ IF Row(r) = None THEN Goes(r, "refused") /\ UNCHANGED copy
             ELSE Goes(r, "test") /\ copy' = [copy EXCEPT ![r] = Row(r)]
    /\ OnlyProposals

\* A test that says nothing, no engine and an engine that fails leave the proposal as it is. The
\* project's own engine fails on the running loop unless its window is empty; another may be given.
Testable(r) ==
    LET spec == ParseSpec(copy[r].test)
    IN  spec # None /\ ~ SaysNothing(spec) /\ work.engine # "none"
MayFind(r) == Testable(r) /\ (work.engine = "other" \/ ~ work.requests[r].bars)
MayFail(r) == ~ Testable(r) \/ work.engine = "other" \/ work.requests[r].bars

Test(r) ==
    /\ pc[r] = "test"
    /\ \/ MayFail(r) /\ Goes(r, "done") /\ UNCHANGED copy
       \/ /\ MayFind(r) /\ Goes(r, "put")
          /\ \E result \in Results : copy' = [copy EXCEPT ![r] = Tested(@, result)]
    /\ UNCHANGED <<db, mem, past>> /\ OnlyProposals

PutInMemory(r) ==
    /\ pc[r] = "put" /\ backend["dashboard"] = "mem"
    /\ IF MayUpdateMem(Records, copy[r])
       THEN /\ SetContent("dashboard", Replace(Records, copy[r]))
            /\ Stored(copy[r].id, copy[r]) /\ Goes(r, "done")
       ELSE Goes(r, "refused") /\ UNCHANGED <<db, mem, past>>
    /\ UNCHANGED copy /\ OnlyProposals

\* The row is selected and its status checked
CheckInDb(r) ==
    /\ pc[r] = "put" /\ backend["dashboard"] = "db"
    /\ \/ Raises(r)
       \/ /\ up /\ UNCHANGED <<copy, db, mem, past>>
          /\ Goes(r, IF MayUpdateDb(Row(r), copy[r]) THEN "replace" ELSE "refused")
    /\ OnlyProposals

\* ... and replaced in a second statement
ReplaceInDb(r) ==
    /\ pc[r] = "replace"
    /\ \/ Raises(r)
       \/ /\ up /\ SetContent("dashboard", Replace(Records, copy[r]))
          /\ Stored(copy[r].id, copy[r]) /\ Goes(r, "done") /\ UNCHANGED copy
    /\ OnlyProposals

Handler(r) ==
    \/ Login(r) \/ Logout(r) \/ FindSession(r) \/ RefreshSession(r)
    \/ Toggle(r) \/ ToggleMode(r) \/ OpenSocket(r) \/ StartBacktest(r) \/ EndBacktest(r)
    \/ Propose(r) \/ ReadForDecision(r) \/ ReadForTest(r) \/ Test(r)
    \/ PutInMemory(r) \/ CheckInDb(r) \/ ReplaceInDb(r)

\* Scenarios about something else leave the feed out
Feed ==
    /\ work.entries > 0 /\ FeedNext /\ FoldFunction(+, 0, length') <= work.entries /\ drops' <= work.drops
    /\ UNCHANGED <<work, journalVars, authVars, pc, copy, past, flags, tasks>>

Next ==
    \/ Outage \/ WriteEvent \/ WriterRestarts \/ Feed
    \/ \E r \in Made : Handler(r)
    \/ \E s \in sessions : Expires(s)

Spec == Init /\ [][Next]_vars

-----------------------------------------------------------------------------
(* A close is written to a trade that is not its own only if the opening of *)
(* its own was never stored, or its own is closed already and the close came *)
(* twice: tickets of the paper broker come again after a restart, and the   *)
(* writer finds a trade by its ticket alone, preferring one that is open    *)
(* (journal_writer.handle, JournalStore.get_trade_by_order_id).             *)
CloseFindsItsOwn == \A m \in misfiled : m[2] \in lost \/ m[3]

(* A session that was logged out answers again only if another request of   *)
(* it stood between reading and refreshing it at that moment                *)
(* (DashboardAuth.validate_session, revoke_session).                        *)
LogoutSticks == left \cap sessions \subseteq raced

(* A proposal goes through the journal's lifecycle, under every interleaving *)
(* of decisions and tests, on both stores (JournalStore                     *)
(* update_fitting_proposal, FittingProposalEngine approve, reject and       *)
(* run_validation).                                                         *)
Lifecycle == INSTANCE ProposalLifecycle WITH
    Absent <- None,
    row <- [p \in Proposals |-> ProposalOf(Records, p)],
    atomic <- backend["dashboard"] = "mem"
FollowsLifecycle == Lifecycle!Spec

-----------------------------------------------------------------------------
\* The bars both streams hold at a minute: the live one, else the historical one
KnownBars ==
    LET of(entries) == BarsOf(entries, "X", Len(entries))
    IN  Over(of(work.ticks), of(work.history))

\* From a bar on, a stream has no more entries than two for each bar that is as new
AddedTwiceAtMost(entries) ==
    LET bars == {i \in DOMAIN entries : HasBar(entries[i], "X")}
        TimesFrom(t) == {entries[j].bar.time : j \in {k \in bars : t <= entries[k].bar.time}}
    IN  \A i \in bars : Len(entries) - i + 1 <= 2 * Cardinality(TimesFrom(entries[i].bar.time))

\* As long as no bar was added more than twice
ChartIsWhole ==
    \A count \in 1 .. 2, minutes \in {1, 2, 4} :
        /\ AddedTwiceAtMost(work.history) /\ AddedTwiceAtMost(work.ticks)
        /\ count * minutes * 2 <= MaxBars
        =>
            Candles(work.history, work.ticks, "X", count, minutes)
                = Newest(Resample(KnownBars, minutes), CandleTime, count)

\* While the journal is no longer than what the list reads
TradesAreNewest ==
    LET trades == Range(Records.trades)
    IN  Cardinality(trades) <= LeastFetch =>
            \A limit \in 1 .. 2 :
                JournalTrades(backend["dashboard"], Records, limit, work.symbol)
                    = Newest({t \in trades : SameInstrument(t.symbol, work.symbol)}, Opened, limit)

\* While the journal is no longer than what one query reads
TotalsMissNothing ==
    work.newestBar # None /\ Cardinality(Range(Records.trades)) <= MaxRows =>
        Aggregate(backend["dashboard"], Records, "all", work.now, work.newestBar).trades
            >= Cardinality({t \in Range(Records.trades) :
                                2 * (work.newestBar - t.open) > HourLength})

\* A broker's clock less than a day ahead hides no snapshot
OverlayIsNewest ==
    LET snaps == {s \in Records.snapshots :
                    work.now - 2 * DayLength <= s.bar /\ s.bar < work.now + DayLength}
        view == Overlays(backend["dashboard"], Records, work.now, work.now)
    IN  \A s \in snaps : s.overlay /\ (\A o \in snaps : o.bar <= s.bar) =>
            view # None /\ view.bar = s.bar

(* What the pages show is as new and as whole as what is stored: a candle   *)
(* has all the bars of its period, the trade list ends with the newest      *)
(* trade, the totals leave out no trade older than half an hour before the  *)
(* newest bar, and the overlay is of the newest bar (api.chart_candles,     *)
(* journal_trades, journal_aggregate, chart_overlays: how much each reads,  *)
(* in which order, by whose clock).                                         *)
AnswersAreCurrent == ChartIsWhole /\ TradesAreNewest /\ TotalsMissNothing /\ OverlayIsNewest
=============================================================================
