------------------------------ MODULE ZoneLock ------------------------------
(***************************************************************************)
(* One entry per zone: ZoneRegistry of execution/zone_lock.py as           *)
(* ExecutionPipeline and the engine's handler drive it. A decision event   *)
(* notes its bar, finalises closed positions, then may enter. The registry *)
(* is memory only. A ticket is the number of its entry.                    *)
(***************************************************************************)
EXTENDS Integers, FiniteSets, Functions

CONSTANTS Prices,      \* closes a bar can have; an entry is at the close
          Halves,      \* half-widths of a band: max(mult * ATR, min_half)
          MaxZones,    \* max_zones of the registry
          MaxEntries,  \* bound: positions ever opened
          MaxFaults    \* bound: restarts, lost order replies, bad reads

ASSUME ZoneAssumption ==
    /\ Prices \subseteq Int
    /\ Halves \subseteq Nat
    /\ {MaxZones, MaxEntries, MaxFaults} \subseteq Nat

Sides == {"long", "short"}
NoClose == [known |-> FALSE]

VARIABLES
    zones,      \* the registry: zone id -> zone
    nextId,     \* next zone id
    byTicket,   \* _zone_by_ticket: ticket -> zone id
    lastClose,  \* close of the previous bar, if any
    pc,         \* "idle" or "bar": the handler is past note_bar
    live,       \* positions at the broker: ticket -> side, entry and band
    entries,    \* positions ever opened
    faults,     \* restarts, lost replies and bad reads so far
    evicted,    \* history: zones dropped for the cap
    killed,     \* history: zones an H1 close went beyond
    left        \* history: zones a bar closed outside of after their trade

registry == <<zones, nextId, byTicket>>
hist == <<evicted, killed, left>>
vars == <<registry, lastClose, pc, live, entries, faults, hist>>

Zone == [side : Sides, low : Int, high : Int,
         status : {"open", "used", "armed", "dead"}]

TypeOK ==
    /\ DOMAIN zones \subseteq 0..(nextId - 1)
    /\ \A z \in DOMAIN zones : zones[z] \in Zone
    /\ nextId \in 0..MaxEntries
    /\ DOMAIN byTicket \subseteq 1..entries
    /\ \A t \in DOMAIN byTicket : byTicket[t] \in 0..(nextId - 1)
    /\ lastClose \in [known : {TRUE}, price : Prices] \cup {NoClose}
    /\ pc \in {"idle", "bar"}
    /\ DOMAIN live \subseteq 1..entries
    /\ entries \in 0..MaxEntries
    /\ faults \in 0..MaxFaults

Empty == [x \in {} |-> x]

Init ==
    /\ zones = Empty
    /\ nextId = 0
    /\ byTicket = Empty
    /\ lastClose = NoClose
    /\ pc = "idle"
    /\ live = Empty
    /\ entries = 0
    /\ faults = 0
    /\ evicted = {}
    /\ killed = {}
    /\ left = {}

-----------------------------------------------------------------------------
(* ZoneRegistry.                                                           *)

Contains(z, price) == z.low <= price /\ price <= z.high

\* Mutant: an open zone does not block.
CanEnterOpen(side, price) ==
    \A id \in DOMAIN zones :
        ~ /\ zones[id].side = side
          /\ Contains(zones[id], price)
          /\ zones[id].status \in {"used", "dead"}

\* can_enter: armed zones do not block.
CanEnter(side, price) ==
    \A id \in DOMAIN zones :
        ~ /\ zones[id].side = side
          /\ Contains(zones[id], price)
          /\ zones[id].status \in {"open", "used", "dead"}

\* open: the armed zones of that side that overlap the new one are absorbed.
Absorbed(new) ==
    {id \in DOMAIN zones : /\ zones[id].side = new.side
                           /\ zones[id].status = "armed"
                           /\ ~(new.high < zones[id].low)
                           /\ ~(new.low > zones[id].high)}

WithNew(new) ==
    [id \in (DOMAIN zones \ Absorbed(new)) \cup {nextId} |->
        IF id = nextId THEN new ELSE zones[id]]

Evictable(zs) == {id \in DOMAIN zs : zs[id].status # "open"}

\* _prune: the oldest zones that are not open, as many as exceed the cap.
Victims(zs) ==
    LET excess == Cardinality(DOMAIN zs) - MaxZones IN
    {id \in Evictable(zs) :
        Cardinality({j \in Evictable(zs) : j < id}) < excess}

OpenZone(new) ==
    LET zs == WithNew(new) IN
    /\ zones' = Restrict(zs, DOMAIN zs \ Victims(zs))
    /\ nextId' = nextId + 1
    /\ evicted' = evicted \cup Victims(zs)

\* note_price and, when the hour changed, on_h1_close with the previous close.
Beyond(z, close) ==
    IF z.side = "long" THEN close < z.low ELSE close > z.high

\* Mutant: every used zone is armed by the next bar.
ArmedAtOnce(z, price) == IF z.status = "used" THEN [z EXCEPT !.status = "armed"] ELSE z

\* note_price
Armed(z, price) ==
    IF z.status = "used" /\ ~Contains(z, price)
    THEN [z EXCEPT !.status = "armed"] ELSE z

\* on_h1_close
AfterH1(z, close) ==
    IF Beyond(z, close) THEN [z EXCEPT !.status = "dead"] ELSE z

-----------------------------------------------------------------------------
(* The handler of a decision event.                                        *)

\* ExecutionPipeline.note_bar
NoteBar ==
    /\ pc = "idle"
    /\ \E price \in Prices, newHour \in BOOLEAN :
          LET h1 == newHour /\ lastClose.known
              After(z) == IF h1 THEN AfterH1(z, lastClose.price) ELSE z
          IN
          /\ zones' = [id \in DOMAIN zones |-> Armed(After(zones[id]), price)]
          /\ lastClose' = [known |-> TRUE, price |-> price]
          /\ killed' = killed \cup
                {id \in DOMAIN zones : h1 /\ Beyond(zones[id], lastClose.price)}
          /\ left' = left \cup
                {id \in DOMAIN zones :
                    /\ ~Contains(zones[id], price)
                    /\ \A t \in DOMAIN live :
                          t \in DOMAIN byTicket => byTicket[t] # id}
    /\ pc' = "bar"
    /\ UNCHANGED <<nextId, byTicket, live, entries, faults, evicted>>

\* on_position_closed for these tickets.
Released(done) ==
    /\ byTicket' = Restrict(byTicket, DOMAIN byTicket \ done)
    /\ zones' = [id \in DOMAIN zones |->
                    IF zones[id].status = "open" /\ \E t \in done : id = byTicket[t]
                    THEN [zones[id] EXCEPT !.status = "used"]
                    ELSE zones[id]]

\* A plan whose position is gone.
Finalise ==
    /\ pc = "bar"
    /\ \E t \in DOMAIN byTicket \ DOMAIN live : Released({t})
    /\ UNCHANGED <<nextId, lastClose, pc, live, entries, faults, hist>>

\* positions_get comes back empty: every plan is finalised.
FinaliseMisread ==
    /\ pc = "bar"
    /\ faults < MaxFaults
    /\ DOMAIN byTicket # {}
    /\ Released(DOMAIN byTicket)
    /\ faults' = faults + 1
    /\ UNCHANGED <<nextId, lastClose, pc, live, entries, hist>>

\* No setup, a veto, or a failed read that skipped the management.
EndBar ==
    /\ pc = "bar"
    /\ pc' = "idle"
    /\ UNCHANGED <<registry, lastClose, live, entries, faults, hist>>

Position(side, half) ==
    [side |-> side, price |-> lastClose.price,
     low |-> lastClose.price - half, high |-> lastClose.price + half]

Fill(p) ==
    /\ entries < MaxEntries
    /\ CanEnter(p.side, p.price)
    /\ entries' = entries + 1
    /\ live' = [t \in DOMAIN live \cup {entries + 1} |->
                   IF t = entries + 1 THEN p ELSE live[t]]

\* process: the zone lock, the order (whose limits are RiskManager's), open.
Enter ==
    /\ pc = "bar"
    /\ \E side \in Sides, half \in Halves :
          LET p == Position(side, half) IN
          /\ Fill(p)
          /\ OpenZone([side |-> side, low |-> p.low, high |-> p.high,
                       status |-> "open"])
    /\ byTicket' = [t \in DOMAIN byTicket \cup {entries + 1} |->
                       IF t = entries + 1 THEN nextId ELSE byTicket[t]]
    /\ pc' = "idle"
    /\ UNCHANGED <<lastClose, faults, killed, left>>

\* Filled, but reported as rejected: process returns before open.
EnterReplyLost ==
    /\ pc = "bar"
    /\ faults < MaxFaults
    /\ \E side \in Sides, half \in Halves : Fill(Position(side, half))
    /\ faults' = faults + 1
    /\ pc' = "idle"
    /\ UNCHANGED <<registry, lastClose, evicted, killed, left>>

BrokerCloses ==
    /\ \E t \in DOMAIN live : live' = Restrict(live, DOMAIN live \ {t})
    /\ UNCHANGED <<registry, lastClose, pc, entries, faults, hist>>

\* A new ExecutionPipeline: an empty registry. Its zones are numbered from 0
\* again; the model goes on counting to tell them from the old ones.
Restart ==
    /\ faults < MaxFaults
    /\ faults' = faults + 1
    /\ zones' = Empty
    /\ byTicket' = Empty
    /\ lastClose' = NoClose
    /\ pc' = "idle"
    /\ killed' = {}
    /\ left' = {}
    /\ UNCHANGED <<nextId, live, entries, evicted>>

-----------------------------------------------------------------------------
Next ==
    \/ NoteBar \/ Finalise \/ FinaliseMisread \/ EndBar
    \/ Enter \/ EnterReplyLost
    \/ BrokerCloses \/ Restart

Spec == Init /\ [][Next]_vars

-----------------------------------------------------------------------------
(* Properties.                                                             *)

Tracked == DOMAIN live \cap DOMAIN byTicket

\* "one entry per zone": of two live positions of a side the later one was
\* not entered inside the band of the earlier, unless a restart, a lost reply,
\* an empty positions_get or the cap took the zone.
OneEntryPerZone ==
    \A s \in Tracked, t \in DOMAIN live :
        /\ s < t
        /\ live[s].side = live[t].side
        /\ byTicket[s] \notin evicted
        => ~Contains(live[s], live[t].price)

\* "a fresh re-test is allowed" and "dead ... no more entries there": an entry
\* inside a band the registry knows comes only after a bar closed outside it
\* with its trade over (as far as positions_get said), and never after an H1
\* close beyond it.
EntryOnlyOnRetest ==
    [][entries' > entries =>
          LET p == live'[entries'] IN
          \A id \in DOMAIN zones :
              zones[id].side = p.side /\ Contains(zones[id], p.price) =>
                  id \in left \ killed]_vars

=============================================================================
