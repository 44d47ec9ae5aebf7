------------------------------ MODULE OrderEntry ------------------------------
(***************************************************************************)
(* A qualified decision becomes a position: the plan, the safety check,    *)
(* the order over the bridge to the terminal, the trim after slippage and  *)
(* the registration; over the two bridges the factory may build, with the  *)
(* bridge dying and coming back. Zones, limits and the life of the         *)
(* position are the matter of ZoneLock, RiskManager and PositionManager.   *)
(* Prices of plans and positions are on the signed axis (TradePlan).       *)
(***************************************************************************)
EXTENDS TradePlan

CONSTANTS
    Bridges,        \* of {"mt5linux", "rpyc"}: which connector is configured
    Entries,        \* [side, price, market, ai]: decisions with what they are made on
    Risk,           \* money the risk manager grants
    Slips,          \* points the fill may be worse than the price
    Equities, DrawdownTrip, DrawdownWindow,  \* percent, checks
    MaxDecisions, MaxFaults

\* What a bundle may hold: any of its parts may be missing
ASSUME EntriesAssumption ==
    /\ Bridges \subseteq {"mt5linux", "rpyc"} /\ Risk \in Nat /\ Slips \subseteq Int
    /\ \A e \in Entries :
        LET m == e.market
            level == Int \cup {None}
        IN  /\ e.side \in Sides /\ e.price \in Int
            /\ e.ai.levels \subseteq Int /\ e.ai.rr \in [1..2 -> level]
            /\ m.atr \in Int /\ m.swings \in [Sides -> level]
            /\ m.centers # None => m.centers \subseteq Int
            /\ m.gaps # None => m.gaps \in Seq([bull : BOOLEAN, top : Int, bottom : Int])
            /\ m.profiles \in Seq([vah : level, val : level, vpoc : level])

VARIABLES
    bridge,
    server,    \* the bridge process: [up, life], a new life with every start
    client,    \* the connector: [life of the server it is connected to or None, init]
    safety,    \* [peak, checks] of PreTradeSafetyChecker
    pc,        \* "idle" | "check" | "send" | "filled" | "trimmed": where process() is
    order,     \* its local variables
    decided,   \* decisions so far; the number is the ticket of the order it leads to
    book,      \* the broker's positions by ticket
    managed,   \* the managed positions the service keeps, by ticket
    zones,     \* tickets that hold a zone
    trades,    \* tickets journaled
    counted,   \* trades counted by the risk manager
    faults,
    mishaps    \* tickets: trim refused, filled without notice, taken for closed
broker == <<bridge, server, faults>>
kept == <<managed, zones, trades, counted>>
vars == <<broker, client, safety, pc, order, decided, book, kept, mishaps>>

NoOrder == None
Put(table, t, value) == [u \in DOMAIN table \cup {t} |-> IF u = t THEN value ELSE table[u]]
Alive(c) == server.up /\ c.life = server.life

-----------------------------------------------------------------------------
\* The connectors. Each operator gives the client after the call and whether
\* the call came through.

\* _ensure: a client is built once. A client whose server has died stays, and
\* initialize() on it raises.
Mt5LinuxEnsure(c) ==
    LET built == IF c.life = None /\ server.up THEN [life |-> server.life, init |-> FALSE] ELSE c
    IN  [client |-> [built EXCEPT !.init = @ \/ Alive(built)], ok |-> built.init \/ Alive(built)]

\* Mutant: a new connection is used without initialize on it.
RpycEnsureBare(c) ==
    CASE Alive(c) -> [client |-> c, ok |-> TRUE]
      [] ~Alive(c) /\ server.up -> [client |-> [life |-> server.life, init |-> FALSE], ok |-> TRUE]
      [] OTHER -> [client |-> [life |-> None, init |-> FALSE], ok |-> FALSE]
\* _ensure_connected: ping, and after a failed one a new connection, initialised
\* and logged in; every attempt fails while the server is down.
RpycEnsure(c) ==
    CASE Alive(c) -> [client |-> c, ok |-> TRUE]
      [] ~Alive(c) /\ server.up -> [client |-> [life |-> server.life, init |-> TRUE], ok |-> TRUE]
      [] OTHER -> [client |-> [life |-> None, init |-> FALSE], ok |-> FALSE]

Ensure(c) == IF bridge = "mt5linux" THEN Mt5LinuxEnsure(c) ELSE RpycEnsure(c)

\* _reset of mt5linux forgets that it was initialised, rpyc its connection.
Reset(c) ==
    IF bridge = "mt5linux" THEN [c EXCEPT !.init = FALSE] ELSE [life |-> None, init |-> FALSE]

\* The bridge serves a connection only after initialize on it.
Serves(c) == Alive(c) /\ c.init

\* get_account and positions_get: an error passes through; mt5linux does not
\* reset on it, _call of rpyc does.
Read(c) ==
    LET e == Ensure(c)
        ok == e.ok /\ Serves(e.client)
    IN  [client |-> IF ok \/ bridge = "mt5linux" THEN e.client ELSE Reset(e.client), ok |-> ok]

\* order_send and close_position reset on an error in both.
Write(c) ==
    LET e == Ensure(c)
        ok == e.ok /\ Serves(e.client)
    IN  [client |-> IF e.ok /\ ~ok THEN Reset(e.client) ELSE e.client, ok |-> ok]

\* is_connected: rpyc pings the connection it has and makes none.
IsConnected(c) ==
    LET e == IF bridge = "mt5linux" THEN Mt5LinuxEnsure(c) ELSE [client |-> c, ok |-> c.life # None]
        ok == e.ok /\ Alive(e.client)
    IN  [client |-> IF ok THEN e.client ELSE Reset(e.client), ok |-> ok]

-----------------------------------------------------------------------------
\* The pipeline is built on a connection: its constructor reads the symbol.
Init ==
    /\ bridge \in Bridges
    /\ server = [up |-> TRUE, life |-> 1]
    /\ client = [life |-> 1, init |-> TRUE]
    /\ safety = [peak |-> 0, checks |-> 0]
    /\ pc = "idle" /\ order = NoOrder /\ decided = 0
    /\ book = << >> /\ managed = << >>
    /\ zones = {} /\ trades = {} /\ counted = 0
    /\ faults = 0
    /\ mishaps = [refused |-> {}, unnoticed |-> {}, dropped |-> {}]

BridgeDies ==
    /\ server.up /\ faults < MaxFaults
    /\ server' = [server EXCEPT !.up = FALSE]
    /\ faults' = faults + 1
    /\ UNCHANGED <<bridge, client, safety, pc, order, decided, book, kept, mishaps>>

BridgeStarts ==
    /\ ~server.up
    /\ server' = [up |-> TRUE, life |-> server.life + 1]
    /\ UNCHANGED <<bridge, client, safety, pc, order, decided, book, kept, faults, mishaps>>

\* A stop or target at the broker closes a position.
BrokerCloses(t) ==
    /\ book' = Restrict(book, DOMAIN book \ {t})
    /\ UNCHANGED <<broker, client, safety, pc, order, decided, kept, mishaps>>

\* The account and the positions are read every three seconds, whatever the
\* handler does meanwhile.
PublishState ==
    /\ client' = Read(client).client
    /\ UNCHANGED <<broker, safety, pc, order, decided, book, kept, mishaps>>

Released(gone) == zones \ gone
\* The positions on a bar. A position that is gone is dropped with its zone. The
\* terminal answers None when it cannot tell, which both bridges read as "no
\* positions".
Manage(blind) ==
    LET r == Read(client)
        open == IF blind THEN {} ELSE DOMAIN book
        gone == DOMAIN managed \ open
    IN  /\ pc = "idle" /\ DOMAIN managed # {}
        /\ blind => r.ok /\ faults < MaxFaults
        /\ client' = r.client
        /\ IF r.ok
           THEN /\ managed' = Restrict(managed, DOMAIN managed \ gone)
                /\ zones' = Released(gone)
                /\ mishaps' = [mishaps EXCEPT !.dropped = @ \cup (gone \cap DOMAIN book)]
           ELSE UNCHANGED <<managed, zones, mishaps>>
        /\ faults' = IF blind THEN faults + 1 ELSE faults
        /\ UNCHANGED <<bridge, server, safety, pc, order, decided, book, trades, counted>>

-----------------------------------------------------------------------------
\* process() for a decision that the zones and the risk manager let through:
\* account and positions are read, or process() raises; a plan is made.
Decide(entry) ==
    LET plan == Plan(entry.side, entry.price, entry.market, entry.ai, Risk)
        r == Read(client)
    IN  /\ pc = "idle" /\ decided < MaxDecisions
        /\ decided' = decided + 1
        /\ client' = r.client
        /\ IF r.ok /\ plan.sl # 0 /\ Signed(entry.side, entry.price) # plan.sl /\ plan.volume > 0
           THEN /\ pc' = "check"
                /\ order' = [plan |-> plan, price |-> Signed(entry.side, entry.price),
                             ticket |-> decided + 1, fill |-> None, volume |-> plan.volume]
           ELSE UNCHANGED <<pc, order>>
        /\ UNCHANGED <<broker, safety, book, kept, mishaps>>

\* The peak of the equity is never lowered.
Checked(equity) ==
    [peak |-> Max({safety.peak, equity}), checks |-> Min({safety.checks + 1, DrawdownWindow})]
DrawdownTrips(s, equity) ==
    /\ s.checks >= DrawdownWindow
    /\ 100 * (s.peak - equity) >= DrawdownTrip * s.peak

\* check(): connection, spread, account. clear: spread and trading permission
\* are in order.
Check(equity, clear) ==
    LET e == IsConnected(client)
        r == Read(e.client)
        checked == IF r.ok THEN Checked(equity) ELSE safety
    IN  /\ pc = "check"
        /\ client' = r.client
        /\ safety' = checked
        /\ IF e.ok /\ r.ok /\ clear /\ ~DrawdownTrips(checked, equity)
           THEN pc' = "send" /\ UNCHANGED order
           ELSE pc' = "idle" /\ order' = NoOrder
        /\ UNCHANGED <<broker, decided, book, kept, mishaps>>

\* Mutant: every answer of the terminal is an accepted order.
AcceptedAny(reply) == reply # "lost"
\* "done" is the one return code that counts as accepted; an order filled in
\* part has another.
Accepted(reply) == reply = "done"

\* A market order at the price of the moment; a part that cannot be filled is
\* cancelled (IOC).
Request(p) == [side |-> p.side, volume |-> p.volume, sl |-> p.sl, tp |-> p.backstop]
Filled(request, volume, price) ==
    [side |-> request.side, volume |-> volume, sl |-> request.sl, tp |-> request.tp, entry |-> price]

\* The order. reply: "lost" when the call raises, before the terminal has the
\* order or after; fill: what the terminal fills of it.
Send(slip, fill, reply) ==
    LET w == Write(client)
        p == order.plan
        t == order.ticket
    IN  /\ pc = "send"
        /\ ~w.ok => reply = "lost" /\ fill = 0
        /\ reply = "done" => fill = p.volume
        /\ reply = "partial" => 0 < fill /\ fill < p.volume
        /\ reply = "rejected" => fill = 0
        /\ fill <= p.volume
        /\ w.ok /\ reply = "lost" => faults < MaxFaults
        /\ faults' = IF w.ok /\ reply = "lost" THEN faults + 1 ELSE faults
        /\ client' = IF w.ok /\ reply = "lost" THEN Reset(w.client) ELSE w.client
        /\ book' = IF fill = 0 THEN book
                   ELSE Put(book, t, Filled(Request(p), fill, order.price + slip))
        /\ mishaps' = IF fill > 0 /\ reply # "done"
                      THEN [mishaps EXCEPT !.unnoticed = @ \cup {t}] ELSE mishaps
        /\ IF Accepted(reply)
           THEN /\ pc' = "filled"
                /\ order' = [order EXCEPT !.fill = order.price + slip]
                /\ counted' = counted + 1
           ELSE /\ pc' = "idle" /\ order' = NoOrder
                /\ UNCHANGED counted
        /\ UNCHANGED <<bridge, server, safety, decided, managed, zones, trades>>

OverCap(volume, dist) == 100 * volume * dist * Contract > Risk * (100 + RiskTolerance)
FittingVolume(dist) == (Risk * (100 + RiskTolerance)) \div (100 * dist * Contract)
\* Mutant: the volume is cut to the risk at the planned distance.
TrimTargetPlanned(o) == FittingVolume(Distance(o.price, o.plan.sl))
\* The volume that fits the risk at the distance from the fill
TrimTarget(o) == FittingVolume(Distance(o.fill, o.plan.sl))
MustTrim(o) ==
    /\ bridge = "mt5linux"   \* the rpyc connector has no close_position
    /\ o.fill # o.plan.sl
    /\ OverCap(o.volume, Distance(o.fill, o.plan.sl))
    /\ o.volume > TrimTarget(o) /\ TrimTarget(o) >= VolumeMin

\* Mutant: the position is managed with the volume that was ordered.
AfterTrimOrdered(o) == o
AfterTrim(o) == [o EXCEPT !.volume = TrimTarget(o)]

\* The trim after slippage. close_position reports every failure as a result,
\* which is not looked at: the order goes on with the smaller volume. closed:
\* what the terminal closes.
Trim(closed) ==
    LET w == Write(client)
        t == order.ticket
        excess == order.volume - TrimTarget(order)
    IN  /\ pc = "filled" /\ MustTrim(order)
        /\ closed <= excess
        /\ ~(w.ok /\ t \in DOMAIN book) => closed = 0
        /\ book' = IF closed > 0 THEN [book EXCEPT ![t].volume = @ - closed] ELSE book
        /\ mishaps' = IF closed < excess THEN [mishaps EXCEPT !.refused = @ \cup {t}] ELSE mishaps
        /\ client' = w.client
        /\ order' = AfterTrim(order)
        /\ pc' = "trimmed"
        /\ UNCHANGED <<broker, safety, decided, kept>>

\* The rest of process() and what the service does with its outcome
Register ==
    LET t == order.ticket
        p == order.plan
    IN  /\ pc = "trimmed" \/ (pc = "filled" /\ ~MustTrim(order))
        /\ zones' = zones \cup {t}
        /\ trades' = trades \cup {t}
        /\ managed' = Put(managed, t, [side |-> p.side, volume |-> order.volume, entry |-> order.fill,
                                       sl |-> p.sl, tps |-> {p.tp1, p.tp2, p.tp3}])
        /\ pc' = "idle" /\ order' = NoOrder
        /\ UNCHANGED <<broker, client, safety, decided, book, counted, mishaps>>

Handler ==
    \/ \E equity \in Equities, clear \in BOOLEAN : Check(equity, clear)
    \/ \E slip \in Slips, fill \in 0..VolumeMax, reply \in {"done", "partial", "rejected", "lost"} :
            Send(slip, fill, reply)
    \/ \E closed \in 0..VolumeMax : Trim(closed)
    \/ Register

Next ==
    \/ BridgeDies
    \/ BridgeStarts
    \/ PublishState
    \/ \E t \in DOMAIN book : BrokerCloses(t)
    \/ \E blind \in BOOLEAN : Manage(blind)
    \/ \E entry \in Entries : Decide(entry)
    \/ Handler

\* The state is published on a timer, and process() runs to its end.
Spec == Init /\ [][Next]_vars /\ WF_vars(PublishState) /\ WF_vars(Handler)

-----------------------------------------------------------------------------
\* What the service manages is what the broker holds: fill, stop and volume,
\* with no target beyond the broker's own one; no position the broker has is
\* unmanaged; a zone is held exactly for the managed positions; and every trade
\* the risk manager counted is journaled once process() is through.
\* Excused are the volume after a trim that was refused (pipeline.py:317), an
\* order that was filled in part or whose answer was lost
\* (mt5linux_connector.py:341), and positions the terminal once did not show.
ManagedAsHeld ==
    /\ \A t \in DOMAIN managed \cap DOMAIN book :
        /\ managed[t].volume = book[t].volume \/ t \in mishaps.refused
        /\ managed[t].sl = book[t].sl /\ managed[t].entry = book[t].entry
        /\ \A tp \in managed[t].tps : tp <= book[t].tp
    /\ pc = "idle" => DOMAIN book \subseteq DOMAIN managed \cup mishaps.unnoticed \cup mishaps.dropped
    /\ zones = DOMAIN managed
    /\ counted = Cardinality(trades) + (IF pc \in {"filled", "trimmed"} THEN 1 ELSE 0)

\* An open position risks no more than was granted, within the tolerance, at
\* the price it was really filled; beyond that only where the trim cannot help:
\* it was refused or nobody knows of the position, the connector has no partial
\* close, or what is left would be below the minimum.
RiskWithinCap ==
    \A t \in DOMAIN book :
        LET dist == Distance(book[t].entry, book[t].sl)
        IN  OverCap(book[t].volume, dist) =>
                \/ t \in mishaps.refused \cup mishaps.unnoticed
                \/ pc = "filled" /\ t = order.ticket
                \/ bridge = "rpyc" \/ FittingVolume(dist) < VolumeMin

\* Once the bridge stays up the rpyc connector is connected again, as both
\* connectors' docstrings promise (live.py:20, mt5linux_connector.py:24-27).
\* Of the mt5linux connector the same is false: its one connection is never
\* built again.
RpycComesBack == bridge = "rpyc" => (<>[](server.up) => []<>Serves(client))
=============================================================================
