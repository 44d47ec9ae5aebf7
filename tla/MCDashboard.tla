----------------------------- MODULE MCDashboard -----------------------------
(* Scenarios of the dashboard and the journal for TLC: each leaves out what it is not about. *)
EXTENDS Dashboard

MCRequests == {"r1", "r2", "r3", "r4"}
MCProposals == {"p1"}
MCOperators == {"ann", "bob"}
MCResults == {"good", "bad"}
MCStreams == {"ticks", "orders"}
MCTopics == {"chart", "orders"}
MCTopicOf == [s \in MCStreams |-> IF s = "ticks" THEN "chart" ELSE "orders"]
MCSockets == {"a", "b"}
MCRoleOf == [v |-> "viewer", o |-> "operator", p |-> "operator", a |-> "admin"]

Nothing ==
    [requests |-> <<>>, sessions |-> {}, expiring |-> {}, journal |-> EmptyJournal, events |-> <<>>,
     outages |-> 0, up |-> BOOLEAN,
     engine |-> "none", liveAllowed |-> FALSE, entries |-> 0, drops |-> 0,
     history |-> <<>>, ticks |-> <<>>, symbol |-> <<"X">>, now |-> 0, newestBar |-> None]
With(fields) == fields @@ Nothing

-----------------------------------------------------------------------------
\* The journal: a trade is never closed, one of a later process has its ticket, and its close
\* comes twice

Trade(id, open, ticket) ==
    [id |-> id, open |-> open, close |-> None, symbol |-> <<"X">>, tickets |-> {ticket},
     pnl |-> None, r |-> None, exit |-> None, reason |-> None, day |-> "Mon", band |-> "A"]
Opening(id, open, ticket) == [known |-> TRUE, type |-> "trade", of |-> id, rec |-> Trade(id, open, ticket)]
Closing(id, close, ticket, pnl) ==
    [known |-> TRUE, type |-> "close", of |-> id, ticket |-> ticket, close |-> close,
     exit |-> 1, reason |-> "tp", pnl |-> pnl, r |-> pnl]
Other(type) ==
    [known |-> TRUE, type |-> type,
     rec |-> [id |-> type, bar |-> 1, band |-> "A", overlay |-> TRUE, ts |-> 1,
             qualified |-> TRUE, score |-> 50]]

Journalling ==
    {With([events |-> e, outages |-> 1]) : e \in {
        <<Opening("A", 1, 7), Opening("B", 3, 7), Closing("B", 5, 7, 2), Closing("B", 5, 7, 2),
          Opening("C", 6, 8), Closing("C", 7, 8, -1)>>,
        <<Opening("A", 1, 7), Closing("A", 2, 7, 1), Opening("B", 3, 7), Closing("B", 2, 7, None)>>,
        <<Other("snapshot"), Other("decision"), Opening("A", 1, 7), Other("order"),
          [known |-> FALSE, type |-> "trade", of |-> "none"],
          [known |-> TRUE, type |-> "empty"], Closing("Z", 4, 9, 1)>>}}

-----------------------------------------------------------------------------
\* Sessions and switches

Rq(do, sid) == [do |-> do, sid |-> sid]
Sessions ==
    {With([requests |-> [r1 |-> Rq("login", "o"),
                         r2 |-> Rq("ai", "o") @@ [value |-> TRUE],
                         r3 |-> Rq("logout", "p"),
                         r4 |-> Rq(do, "p") @@ [value |-> TRUE, source |-> src, bars |-> bars, walk |-> walk]],
            sessions |-> {"p"}, expiring |-> {"p"}, up |-> {TRUE}]) :
        do \in {"emergency", "reasoning", "backtest", "me"}, src \in BOOLEAN, bars \in BOOLEAN, walk \in BOOLEAN}
    \cup
    {With([requests |-> [r1 |-> Rq("mode", "a") @@ [value |-> v, confirm |-> c],
                         r2 |-> Rq("mode", "o") @@ [value |-> "paper", confirm |-> TRUE],
                         r3 |-> Rq("logout", "a"),
                         r4 |-> Rq("backtest", "v") @@ [source |-> TRUE, bars |-> TRUE, walk |-> FALSE]],
            sessions |-> {"a", "o", "v"}, expiring |-> {"a"}, liveAllowed |-> allowed, up |-> {TRUE}]) :
        v \in {"paper", "live"}, c \in BOOLEAN, allowed \in BOOLEAN}

-----------------------------------------------------------------------------
\* Proposals

Idea == [test |-> [blank |-> FALSE, found |-> {"threshold"}], risk |-> "low"]
NoIdea == [test |-> [blank |-> TRUE, found |-> {}], risk |-> "low"]
MCIdeas == {Idea, NoIdea}
Reply(k) == IF k = "valid" THEN [kind |-> k, proposals |-> Idea] ELSE [kind |-> k]
Names == <<"t1", "t2">>
Traded(n) ==
    [EmptyJournal EXCEPT
        !.trades = [id \in {Names[k] : k \in 1 .. n} |->
                        LET k == IF id = "t1" THEN 1 ELSE 2
                        IN  [Trade(id, k, k) EXCEPT !.pnl = k, !.r = k,
                                                    !.day = IF k = 1 THEN "Mon" ELSE "Sat"]],
        !.snapshots = {[id |-> b, bar |-> b, band |-> "A", overlay |-> FALSE] : b \in 1 .. n + 2},
        !.discrepancies = {[ts |-> t, day |-> "Mon", rule |-> "long", llm |-> "none"] : t \in 1 .. n}]
Proposing(period, replies) ==
    [do |-> "propose", sid |-> "o", proposal |-> "p1", period |-> period, replies |-> replies]
Deciding(do, sid, who) ==
    [do |-> do, sid |-> sid, proposal |-> "p1", operator |-> who, bars |-> TRUE]
Proposed(idea) == [EmptyJournal EXCEPT !.proposals = "p1" :> BuildProposal("p1", idea)]

Deciders == [r2 |-> Deciding("approve", "o", "ann"), r3 |-> Deciding("reject", "p", "bob"),
             r4 |-> Deciding("validate", "o", "ann")]
Fitting ==
    {With([requests |-> Deciders, sessions |-> {"o", "p"}, expiring |-> {"o"}, journal |-> Proposed(idea),
           engine |-> engine, outages |-> 1]) : idea \in {Idea, NoIdea}, engine \in {"own", "other"}}
    \cup
    {With([requests |-> [r1 |-> Proposing(period, replies), r2 |-> Deciders.r2,
                         r4 |-> [Deciders.r4 EXCEPT !.bars = FALSE]],
           sessions |-> {"o"}, journal |-> Traded(n), engine |-> "own"]) :
        replies \in {<<Reply("valid")>>, <<Reply("malformed"), Reply("valid")>>,
                     <<Reply("failed")>>, <<Reply("malformed"), Reply("malformed")>>},
        n \in 0 .. 2, period \in {"daily", "weekly"}}

-----------------------------------------------------------------------------
\* The feed

Watch(sid, socket) == Rq("ws", sid) @@ [socket |-> socket]
Feeding ==
    {With([requests |-> [r1 |-> Watch("v", "a"), r2 |-> Watch("o", "b")],
           sessions |-> {"v", "o"}, up |-> {TRUE}, entries |-> 2]),
     With([requests |-> [r1 |-> Watch("v", "a")], sessions |-> {"v"}, up |-> {TRUE}, entries |-> 3, drops |-> 1])}

-----------------------------------------------------------------------------
\* The chart and the lists

Bar(t, v) == [readable |-> TRUE, bar |-> [time |-> t, symbol |-> "X", open |-> v, high |-> v + 1,
                                          low |-> v - 1, close |-> 5 - v, vol |-> 1]]
Unreadable == [readable |-> FALSE]
\* Every bar once or twice over
Twice(times, doubled, v) ==
    FoldLeft(LAMBDA acc, t :
                 acc \o (IF t \in doubled THEN <<Bar(t, v + (t % 3)), Bar(t, v)>> ELSE <<Bar(t, v + (t % 3))>>),
            <<>>, times)
Done(id, open, symbol) == [Trade(id, open, open) EXCEPT !.symbol = symbol, !.pnl = open - 4, !.r = open - 4]

Charts ==
    {With([history |-> Twice(old, doubled, 3), ticks |-> Twice(new, doubled, 7)]) :
        old \in {<<>>, <<1, 2, 3, 4, 5>>, <<1, 3, 4, 6>>},
        new \in {<<>>, <<5, 6, 7, 8, 9>>, <<2, 3, 8>>},
        doubled \in SUBSET {3, 5, 8}}
    \cup
    {With([ticks |-> <<Bar(1, 1), Unreadable, Bar(2, 3)>>])}
    \cup
    {With([journal |-> [EmptyJournal EXCEPT !.trades =
                [n \in names |-> Done(n, CASE n = "a" -> 1 [] n = "b" -> 4 [] n = "c" -> 10 [] n = "d" -> 18,
                                      IF n = "b" THEN <<"X", "+">> ELSE IF n = "d" THEN <<"E">> ELSE <<"X">>)]],
           symbol |-> symbol, now |-> now, newestBar |-> bar]) :
        names \in SUBSET {"a", "b", "c", "d"}, symbol \in {<<"X">>, <<"X", "+">>},
        now \in {14, 19}, bar \in {18, 20, 27}}
    \cup
    {With([journal |-> [EmptyJournal EXCEPT !.snapshots =
                {[id |-> b, bar |-> b, band |-> "A", overlay |-> b \in drawn] : b \in bars}],
           now |-> 40]) :
        bars \in {{10, 20, 30, 41, 50}, {41, 43}, {}}, drawn \in {{10, 20, 41, 50}, {43}, {}}}

MCWorks == Journalling \cup Sessions \cup Fitting \cup Feeding \cup Charts
==============================================================================
