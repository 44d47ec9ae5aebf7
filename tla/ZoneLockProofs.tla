---------------------------- MODULE ZoneLockProofs ----------------------------
(***************************************************************************)
(* One entry per zone, and a second one only on a re-test, for any prices, *)
(* widths of a band and cap, and any number of entries and faults.         *)
(***************************************************************************)
EXTENDS ZoneLock, TLAPS

-----------------------------------------------------------------------------
(* The invariant.                                                          *)

\* The registry's numbers: every zone was opened, at most one per entry.
Numbered ==
    /\ nextId \in Nat /\ entries \in Nat
    /\ nextId <= entries
    /\ DOMAIN zones \subseteq 0..(nextId - 1)
    /\ evicted \cup killed \subseteq 0..(nextId - 1)
    /\ evicted \cap DOMAIN zones = {}
    /\ DOMAIN byTicket \cup DOMAIN live \subseteq 1..entries
    /\ \A t \in DOMAIN byTicket : byTicket[t] \in 0..(nextId - 1)

\* The tickets followed have zones of their own, which block until the trade is
\* over or the cap takes them.
Followed ==
    /\ \A s, t \in DOMAIN byTicket : byTicket[s] = byTicket[t] => s = t
    /\ \A t \in DOMAIN byTicket : byTicket[t] \notin evicted =>
            /\ byTicket[t] \in DOMAIN zones
            /\ zones[byTicket[t]].status \in {"open", "dead"}

\* The zone of a position has its side and its band.
Banded ==
    \A t \in Tracked : byTicket[t] \notin evicted =>
        LET z == zones[byTicket[t]] IN
        z.side = live[t].side /\ z.low = live[t].low /\ z.high = live[t].high

Shaped(z) ==
    /\ z = [side |-> z.side, low |-> z.low, high |-> z.high, status |-> z.status]
    /\ z.status \in {"open", "used", "armed", "dead"}

\* An armed zone was left, and a zone an H1 close went beyond is dead.
Retested ==
    \A id \in DOMAIN zones :
        /\ Shaped(zones[id])
        /\ zones[id].status = "armed" => id \in left
        /\ id \in killed => zones[id].status = "dead"

Inv == Numbered /\ Followed /\ Banded /\ Retested /\ OneEntryPerZone

LEMMA InitInv == Init => Inv
  BY DEF Init, Inv, Numbered, Followed, Banded, Retested, OneEntryPerZone, Tracked, Empty

-----------------------------------------------------------------------------
(* Steps that keep the registry.                                           *)

LEMMA RestrictDef ==
    ASSUME NEW f, NEW S
    PROVE  DOMAIN Restrict(f, S) = S /\ \A x \in S : Restrict(f, S)[x] = f[x]
  BY DEF Restrict

\* Fewer positions leave less to compare.
LEMMA BrokerClosesInv == Inv /\ BrokerCloses => Inv'
  <1> SUFFICES ASSUME Inv, BrokerCloses PROVE Inv'
    OBVIOUS
  <1>1. PICK t0 \in DOMAIN live : live' = Restrict(live, DOMAIN live \ {t0})
    BY DEF BrokerCloses
  <1>2. DOMAIN live' \subseteq DOMAIN live /\ \A t \in DOMAIN live' : live'[t] = live[t]
    BY <1>1, RestrictDef
  <1>3. UNCHANGED <<zones, nextId, byTicket, entries, evicted, killed, left>>
    BY DEF BrokerCloses, registry, hist
  <1>4. Tracked' \subseteq Tracked
    BY <1>2, <1>3 DEF Tracked
  <1>5. Numbered' /\ Followed' /\ Retested'
    BY <1>2, <1>3 DEF Inv, Numbered, Followed, Retested
  <1>6. Banded'
    BY <1>2, <1>3, <1>4 DEF Inv, Banded, Tracked
  <1>7. OneEntryPerZone'
    BY <1>2, <1>3, <1>4 DEF Inv, OneEntryPerZone, Tracked, Contains
  <1> QED BY <1>5, <1>6, <1>7 DEF Inv

LEMMA RestartInv == Inv /\ Restart => Inv'
  <1> SUFFICES ASSUME Inv, Restart PROVE Inv'
    OBVIOUS
  <1>1. DOMAIN zones' = {} /\ DOMAIN byTicket' = {} /\ killed' = {}
    BY DEF Restart, Empty
  <1>2. UNCHANGED <<nextId, live, entries, evicted>>
    BY DEF Restart
  <1>3. Numbered' /\ Followed' /\ Retested'
    BY <1>1, <1>2 DEF Inv, Numbered, Followed, Retested
  <1>4. Banded' /\ OneEntryPerZone'
    BY <1>1 DEF Banded, OneEntryPerZone, Tracked
  <1> QED BY <1>3, <1>4 DEF Inv

-----------------------------------------------------------------------------
(* The bar and the closes.                                                 *)

\* note_bar moves statuses only; a zone it arms has no ticket any more.
LEMMA NoteBarInv == Inv /\ NoteBar => Inv'
  <1> SUFFICES ASSUME Inv, NoteBar PROVE Inv'
    OBVIOUS
  <1>1. PICK price \in Prices, newHour \in BOOLEAN :
            LET h1 == newHour /\ lastClose.known
                After(z) == IF h1 THEN AfterH1(z, lastClose.price) ELSE z
            IN  /\ zones' = [id \in DOMAIN zones |-> Armed(After(zones[id]), price)]
                /\ killed' = killed \cup
                      {id \in DOMAIN zones : h1 /\ Beyond(zones[id], lastClose.price)}
                /\ left' = left \cup
                      {id \in DOMAIN zones :
                          /\ ~Contains(zones[id], price)
                          /\ \A t \in DOMAIN live :
                                t \in DOMAIN byTicket => byTicket[t] # id}
    BY DEF NoteBar
  <1> DEFINE h1 == newHour /\ lastClose.known
             After(z) == IF h1 THEN AfterH1(z, lastClose.price) ELSE z
  <1>2. UNCHANGED <<nextId, byTicket, live, entries, evicted>>
    BY DEF NoteBar
  <1>3. DOMAIN zones' = DOMAIN zones
    BY <1>1
  <1>4. ASSUME NEW id \in DOMAIN zones
        PROVE  /\ zones'[id].side = zones[id].side
               /\ zones'[id].low = zones[id].low /\ zones'[id].high = zones[id].high
               /\ Shaped(zones'[id])
               /\ zones[id].status \in {"open", "dead"} => zones'[id].status \in {"open", "dead"}
               /\ zones[id].status = "dead" => zones'[id].status = "dead"
               /\ h1 /\ Beyond(zones[id], lastClose.price) => zones'[id].status = "dead"
               /\ zones'[id].status = "armed" =>
                     zones[id].status = "armed" \/ (zones[id].status = "used" /\ ~Contains(zones[id], price))
    <2> DEFINE z == zones[id]
               a == After(z)
    <2>1. zones'[id] = Armed(a, price)
      BY <1>1
    <2>2. Shaped(z)
      BY DEF Inv, Retested
    <2>3. /\ a = z \/ a = [z EXCEPT !.status = "dead"]
          /\ h1 /\ Beyond(z, lastClose.price) => a = [z EXCEPT !.status = "dead"]
      BY DEF AfterH1
    <2> HIDE DEF a, z, h1
    <2>4. /\ Shaped(a) /\ a.side = z.side /\ a.low = z.low /\ a.high = z.high
          /\ a.status = z.status \/ a.status = "dead"
          /\ h1 /\ Beyond(z, lastClose.price) => a.status = "dead"
      BY <2>2, <2>3 DEF Shaped
    <2>5. \/ Armed(a, price) = a
          \/ /\ a.status = "used" /\ ~Contains(a, price)
             /\ Armed(a, price) = [a EXCEPT !.status = "armed"]
      BY DEF Armed
    <2>6. Contains(a, price) <=> Contains(z, price)
      BY <2>4 DEF Contains
    <2>7. CASE Armed(a, price) = a
      BY <2>1, <2>2, <2>4, <2>7 DEF z, Shaped
    <2>8. CASE /\ a.status = "used" /\ ~Contains(a, price)
               /\ Armed(a, price) = [a EXCEPT !.status = "armed"]
      <3>1. /\ Shaped(zones'[id]) /\ zones'[id].status = "armed"
            /\ zones'[id].side = a.side /\ zones'[id].low = a.low /\ zones'[id].high = a.high
        BY <2>1, <2>4, <2>8 DEF Shaped
      <3> QED BY <2>4, <2>6, <2>8, <3>1 DEF z
    <2> QED BY <2>5, <2>7, <2>8
  <1>5. Numbered'
    BY <1>1, <1>2, <1>3 DEF Inv, Numbered
  <1>6. Followed'
    BY <1>2, <1>3, <1>4 DEF Inv, Followed
  <1>7. Banded'
    BY <1>2, <1>3, <1>4 DEF Inv, Followed, Banded, Tracked
  <1>8. ASSUME NEW id \in DOMAIN zones, zones[id].status = "used", NEW t \in DOMAIN byTicket
        PROVE  byTicket[t] # id
    BY <1>8 DEF Inv, Numbered, Followed
  <1>9. Retested'
    BY <1>1, <1>3, <1>4, <1>8 DEF Inv, Retested
  <1>10. OneEntryPerZone'
    BY <1>2 DEF Inv, OneEntryPerZone, Tracked, Contains
  <1> QED BY <1>5, <1>6, <1>7, <1>9, <1>10 DEF Inv

\* on_position_closed forgets the tickets and marks their zones used.
LEMMA ReleasedInv ==
    ASSUME Inv, NEW done \in SUBSET DOMAIN byTicket, Released(done),
           UNCHANGED <<nextId, live, entries, evicted, killed, left>>
    PROVE  Inv'
  <1>1. /\ DOMAIN byTicket' = DOMAIN byTicket \ done
        /\ \A t \in DOMAIN byTicket' : byTicket'[t] = byTicket[t]
    BY RestrictDef DEF Released
  <1>2. DOMAIN zones' = DOMAIN zones
    BY DEF Released
  <1>3. ASSUME NEW id \in DOMAIN zones
        PROVE  /\ zones'[id].side = zones[id].side
               /\ zones'[id].low = zones[id].low /\ zones'[id].high = zones[id].high
               /\ (\A t \in done : id # byTicket[t]) => zones'[id] = zones[id]
               /\ Shaped(zones'[id])
               /\ zones'[id] = zones[id] \/ (zones[id].status = "open" /\ zones'[id].status = "used")
    <2>1. Shaped(zones[id])
      BY DEF Inv, Retested
    <2>2. \/ zones'[id] = zones[id]
          \/ /\ zones[id].status = "open" /\ \E t \in done : id = byTicket[t]
             /\ zones'[id] = [zones[id] EXCEPT !.status = "used"]
      BY DEF Released
    <2> QED BY <2>1, <2>2 DEF Shaped
  <1>4. Numbered'
    BY <1>1, <1>2 DEF Inv, Numbered
  <1>5. ASSUME NEW t \in DOMAIN byTicket' PROVE \A d \in done : byTicket[t] # byTicket[d]
    BY <1>1 DEF Inv, Followed
  <1>6. Followed'
    BY <1>1, <1>2, <1>3, <1>5 DEF Inv, Followed
  <1>7. Banded'
    BY <1>1, <1>2, <1>3 DEF Inv, Followed, Banded, Tracked
  <1>8. Retested'
    BY <1>2, <1>3 DEF Inv, Retested
  <1>9. OneEntryPerZone'
    BY <1>1 DEF Inv, OneEntryPerZone, Tracked, Contains
  <1> QED BY <1>4, <1>6, <1>7, <1>8, <1>9 DEF Inv

LEMMA FinaliseInv == Inv /\ (Finalise \/ FinaliseMisread) => Inv'
  <1> SUFFICES ASSUME Inv, Finalise \/ FinaliseMisread PROVE Inv'
    OBVIOUS
  <1>1. PICK done \in SUBSET DOMAIN byTicket : Released(done)
    BY DEF Finalise, FinaliseMisread
  <1>2. UNCHANGED <<nextId, live, entries, evicted, killed, left>>
    BY DEF Finalise, FinaliseMisread, hist
  <1> QED BY <1>1, <1>2, ReleasedInv

-----------------------------------------------------------------------------
(* The entry.                                                              *)

\* A fill is a new position outside every band that blocks.
LEMMA FillFacts ==
    ASSUME Inv, NEW p, Fill(p)
    PROVE  /\ entries' = entries + 1 /\ entries' \notin DOMAIN live
           /\ DOMAIN live' = DOMAIN live \cup {entries'}
           /\ live'[entries'] = p
           /\ \A t \in DOMAIN live : live'[t] = live[t] /\ t < entries'
           /\ \A s \in Tracked : live[s].side = p.side /\ byTicket[s] \notin evicted
                => ~Contains(live[s], p.price)
  <1>1. /\ entries' = entries + 1 /\ CanEnter(p.side, p.price)
        /\ live' = [t \in DOMAIN live \cup {entries + 1} |-> IF t = entries + 1 THEN p ELSE live[t]]
    BY DEF Fill
  <1>2. entries \in Nat /\ \A t \in DOMAIN live : t \in 1..entries
    BY DEF Inv, Numbered
  <1>3. ASSUME NEW s \in Tracked, live[s].side = p.side, byTicket[s] \notin evicted
        PROVE  ~Contains(live[s], p.price)
    <2>1. byTicket[s] \in DOMAIN zones /\ zones[byTicket[s]].status \in {"open", "dead"}
      BY <1>3 DEF Inv, Followed, Tracked
    <2>2. /\ zones[byTicket[s]].side = p.side
          /\ zones[byTicket[s]].low = live[s].low /\ zones[byTicket[s]].high = live[s].high
      BY <1>3 DEF Inv, Banded
    <2>3. ~Contains(zones[byTicket[s]], p.price)
      BY <1>1, <2>1, <2>2 DEF CanEnter
    <2> QED BY <2>2, <2>3 DEF Contains
  <1> QED BY <1>1, <1>2, <1>3

\* Opening absorbs armed zones and evicts what is not open: whatever else was
\* there is there as it was.
LEMMA OpenZoneFacts ==
    ASSUME Inv, NEW new, new.status = "open", OpenZone(new)
    PROVE  /\ nextId' = nextId + 1
           /\ nextId \in DOMAIN zones' /\ zones'[nextId] = new
           /\ DOMAIN zones' \subseteq DOMAIN zones \cup {nextId}
           /\ \A id \in DOMAIN zones' : id # nextId => zones'[id] = zones[id]
           /\ evicted \subseteq evicted'
           /\ evicted' \ evicted \subseteq DOMAIN zones
           /\ evicted' \cap DOMAIN zones' = {}
           /\ nextId \notin evicted'
           /\ \A id \in DOMAIN zones : zones[id].status # "armed" => id \in DOMAIN zones' \cup evicted'
  <1> DEFINE zs == WithNew(new)
  <1>1. /\ zones' = Restrict(zs, DOMAIN zs \ Victims(zs))
        /\ nextId' = nextId + 1 /\ evicted' = evicted \cup Victims(zs)
    BY DEF OpenZone
  <1>2. /\ DOMAIN zs = (DOMAIN zones \ Absorbed(new)) \cup {nextId}
        /\ \A id \in DOMAIN zs : zs[id] = IF id = nextId THEN new ELSE zones[id]
    BY DEF WithNew
  <1> HIDE DEF zs
  <1>3. Victims(zs) \subseteq {id \in DOMAIN zs : zs[id].status # "open"}
    BY DEF Victims, Evictable
  <1>4. \A id \in Absorbed(new) : zones[id].status = "armed"
    BY DEF Absorbed
  <1>5. DOMAIN zones' = DOMAIN zs \ Victims(zs) /\ \A id \in DOMAIN zones' : zones'[id] = zs[id]
    BY <1>1, RestrictDef
  <1>6. nextId \notin DOMAIN zones /\ nextId \notin evicted /\ evicted \cap DOMAIN zones = {}
    BY DEF Inv, Numbered
  <1>7. nextId \notin Victims(zs)
    BY <1>2, <1>3
  <1>8. Victims(zs) \subseteq DOMAIN zones
    BY <1>2, <1>3, <1>7
  <1> QED BY <1>1, <1>2, <1>4, <1>5, <1>6, <1>7, <1>8

LEMMA EnterInv == Inv /\ Enter => Inv'
  <1> SUFFICES ASSUME Inv, Enter PROVE Inv'
    OBVIOUS
  <1>1. PICK side \in Sides, half \in Halves :
            /\ Fill(Position(side, half))
            /\ OpenZone([side |-> side, low |-> Position(side, half).low,
                         high |-> Position(side, half).high, status |-> "open"])
    BY DEF Enter
  <1> DEFINE p == Position(side, half)
             new == [side |-> side, low |-> p.low, high |-> p.high, status |-> "open"]
  <1>2. p.side = side
    BY DEF Position
  <1> HIDE DEF p
  <1>3. new.side = side /\ new.low = p.low /\ new.high = p.high /\ new.status = "open"
    OBVIOUS
  <1>4. Fill(p) /\ OpenZone(new)
    BY <1>1 DEF p
  <1> HIDE DEF new
  <1>5. /\ entries' = entries + 1 /\ entries' \notin DOMAIN live
        /\ DOMAIN live' = DOMAIN live \cup {entries'} /\ live'[entries'] = p
        /\ \A t \in DOMAIN live : live'[t] = live[t] /\ t < entries'
        /\ \A s \in Tracked : live[s].side = p.side /\ byTicket[s] \notin evicted
             => ~Contains(live[s], p.price)
    BY <1>4, FillFacts
  <1>6. /\ nextId' = nextId + 1
        /\ nextId \in DOMAIN zones' /\ zones'[nextId] = new
        /\ DOMAIN zones' \subseteq DOMAIN zones \cup {nextId}
        /\ \A id \in DOMAIN zones' : id # nextId => zones'[id] = zones[id]
        /\ evicted \subseteq evicted' /\ evicted' \ evicted \subseteq DOMAIN zones
        /\ evicted' \cap DOMAIN zones' = {} /\ nextId \notin evicted'
        /\ \A id \in DOMAIN zones : zones[id].status # "armed" => id \in DOMAIN zones' \cup evicted'
    BY <1>3, <1>4, OpenZoneFacts
  <1>7. /\ DOMAIN byTicket' = DOMAIN byTicket \cup {entries'}
        /\ byTicket'[entries'] = nextId
        /\ \A t \in DOMAIN byTicket : t # entries' => byTicket'[t] = byTicket[t]
        /\ killed' = killed /\ left' = left
    BY <1>5 DEF Enter
  <1>8. /\ nextId \in Nat /\ entries \in Nat /\ nextId <= entries /\ entries' \notin DOMAIN byTicket
        /\ \A t \in DOMAIN byTicket : byTicket[t] \in 0..(nextId - 1)
    BY <1>5 DEF Inv, Numbered
  <1>9. \A t \in DOMAIN byTicket : byTicket'[t] = byTicket[t] /\ byTicket[t] # nextId
    BY <1>7, <1>8
  <1>10. Numbered'
    <2>1. nextId' \in Nat /\ entries' \in Nat /\ nextId' <= entries'
      BY <1>5, <1>6, <1>8
    <2>2. 0..(nextId - 1) \subseteq 0..(nextId' - 1) /\ nextId \in 0..(nextId' - 1)
      BY <1>6, <1>8
    <2>3. 1..entries \subseteq 1..entries' /\ entries' \in 1..entries'
      BY <1>5, <1>8
    <2>4. DOMAIN zones' \subseteq 0..(nextId' - 1) /\ evicted' \cup killed' \subseteq 0..(nextId' - 1)
      BY <1>6, <1>7, <2>2 DEF Inv, Numbered
    <2>5. DOMAIN byTicket' \cup DOMAIN live' \subseteq 1..entries'
      BY <1>5, <1>7, <2>3 DEF Inv, Numbered
    <2>6. \A t \in DOMAIN byTicket' : byTicket'[t] \in 0..(nextId' - 1)
      BY <1>7, <1>8, <1>9, <2>2
    <2> QED BY <1>6, <2>1, <2>4, <2>5, <2>6 DEF Numbered
  <1>11. Followed'
    <2>1. \A s, t \in DOMAIN byTicket' : byTicket'[s] = byTicket'[t] => s = t
      BY <1>7, <1>9 DEF Inv, Followed
    <2>2. ASSUME NEW t \in DOMAIN byTicket, byTicket[t] \notin evicted'
          PROVE  byTicket[t] \in DOMAIN zones' /\ zones'[byTicket[t]].status \in {"open", "dead"}
      <3>1. byTicket[t] \in DOMAIN zones /\ zones[byTicket[t]].status \in {"open", "dead"}
        BY <1>6, <2>2 DEF Inv, Followed
      <3> QED BY <1>6, <1>9, <2>2, <3>1
    <2> QED BY <1>3, <1>6, <1>7, <1>9, <2>1, <2>2 DEF Followed
  <1>12. Banded'
    <2>1. ASSUME NEW t \in Tracked, byTicket[t] \notin evicted'
          PROVE  /\ zones'[byTicket[t]] = zones[byTicket[t]]
                 /\ zones[byTicket[t]].side = live[t].side /\ zones[byTicket[t]].low = live[t].low
                 /\ zones[byTicket[t]].high = live[t].high
      <3>1. byTicket[t] \in DOMAIN zones /\ zones[byTicket[t]].status \in {"open", "dead"}
        BY <1>6, <2>1 DEF Inv, Followed, Tracked
      <3>2. zones'[byTicket[t]] = zones[byTicket[t]]
        BY <1>6, <1>9, <2>1, <3>1 DEF Tracked
      <3> QED BY <1>6, <2>1, <3>2 DEF Inv, Banded
    <2>2. Tracked' = Tracked \cup {entries'}
      BY <1>5, <1>7, <1>8 DEF Tracked
    <2>3. \A t \in Tracked : byTicket'[t] = byTicket[t] /\ live'[t] = live[t]
      BY <1>5, <1>9 DEF Tracked
    <2> QED BY <1>2, <1>3, <1>5, <1>6, <1>7, <2>1, <2>2, <2>3 DEF Banded
  <1>13. Retested'
    <2>1. nextId \notin killed
      BY <1>8 DEF Inv, Numbered
    <2>2. Shaped(new)
      BY DEF new, Shaped
    <2> QED BY <1>3, <1>6, <1>7, <2>1, <2>2 DEF Inv, Retested
  <1>14. OneEntryPerZone'
    <2> SUFFICES ASSUME NEW s \in Tracked', NEW t \in DOMAIN live', s < t,
                        live'[s].side = live'[t].side, byTicket'[s] \notin evicted'
                 PROVE  ~Contains(live'[s], live'[t].price)
      BY DEF OneEntryPerZone, Contains
    <2>1. entries' \in Nat /\ \A d \in DOMAIN live : d \in Nat
      BY <1>5, <1>8 DEF Inv, Numbered
    <2>2. s # entries'
      BY <1>5, <2>1
    <2>3. s \in Tracked /\ live'[s] = live[s] /\ byTicket[s] \notin evicted
      BY <1>5, <1>6, <1>7, <1>9, <2>2 DEF Tracked
    <2>4. CASE t = entries'
      BY <1>5, <2>3, <2>4
    <2>5. CASE t # entries'
      BY <1>5, <2>3, <2>5 DEF Inv, OneEntryPerZone
    <2> QED BY <2>4, <2>5
  <1> QED BY <1>10, <1>11, <1>12, <1>13, <1>14 DEF Inv

\* A position nobody was told of has no ticket in the registry.
LEMMA EnterReplyLostInv == Inv /\ EnterReplyLost => Inv'
  <1> SUFFICES ASSUME Inv, EnterReplyLost PROVE Inv'
    OBVIOUS
  <1>1. PICK p : Fill(p)
    BY DEF EnterReplyLost
  <1>2. UNCHANGED <<zones, nextId, byTicket, evicted, killed, left>>
    BY DEF EnterReplyLost, registry
  <1>3. /\ entries' = entries + 1 /\ entries' \notin DOMAIN live
        /\ DOMAIN live' = DOMAIN live \cup {entries'} /\ live'[entries'] = p
        /\ \A t \in DOMAIN live : live'[t] = live[t] /\ t < entries'
        /\ \A s \in Tracked : live[s].side = p.side /\ byTicket[s] \notin evicted
             => ~Contains(live[s], p.price)
    BY <1>1, FillFacts
  <1>4. entries \in Nat /\ entries' \notin DOMAIN byTicket
    BY <1>3 DEF Inv, Numbered
  <1>5. Tracked' = Tracked
    BY <1>2, <1>3, <1>4 DEF Tracked
  <1>6. Numbered'
    BY <1>2, <1>3, <1>4 DEF Inv, Numbered
  <1>7. Followed' /\ Retested'
    BY <1>2 DEF Inv, Followed, Retested
  <1>8. Banded'
    BY <1>2, <1>3, <1>5 DEF Inv, Banded, Tracked
  <1>9. OneEntryPerZone'
    <2> SUFFICES ASSUME NEW s \in Tracked, NEW t \in DOMAIN live', s < t,
                        live'[s].side = live'[t].side, byTicket[s] \notin evicted
                 PROVE  ~Contains(live'[s], live'[t].price)
      BY <1>2, <1>5 DEF OneEntryPerZone, Contains
    <2>1. live'[s] = live[s]
      BY <1>3 DEF Tracked
    <2>2. CASE t = entries'
      BY <1>3, <2>1, <2>2
    <2>3. CASE t # entries'
      BY <1>3, <2>1, <2>3 DEF Inv, OneEntryPerZone
    <2> QED BY <2>2, <2>3
  <1> QED BY <1>6, <1>7, <1>8, <1>9 DEF Inv

-----------------------------------------------------------------------------
LEMMA StepInv == Inv /\ [Next]_vars => Inv'
  <1> SUFFICES ASSUME Inv, [Next]_vars PROVE Inv'
    OBVIOUS
  <1>1. CASE EndBar \/ UNCHANGED vars
    <2>1. UNCHANGED <<zones, nextId, byTicket, live, entries, evicted, killed, left>>
      BY <1>1 DEF EndBar, vars, registry, hist
    <2> QED BY <2>1 DEF Inv, Numbered, Followed, Banded, Retested, OneEntryPerZone, Tracked, Contains
  <1> QED BY <1>1, NoteBarInv, FinaliseInv, EnterInv, EnterReplyLostInv, BrokerClosesInv, RestartInv
          DEF Next

LEMMA Invariant == Spec => []Inv
  BY InitInv, StepInv, PTL DEF Spec

(* Of two live positions of a side the later one was not entered inside the *)
(* band of the earlier, unless a restart, a lost reply, an empty            *)
(* positions_get or the cap took the zone (ZoneRegistry.can_enter, open).   *)
THEOREM ZoneOneEntryPerZone == Spec => []OneEntryPerZone
  BY Invariant, PTL DEF Inv

(* An entry inside a band the registry knows comes only after a bar closed  *)
(* outside of it with its trade over, and never after an H1 close beyond it *)
(* (note_price, on_h1_close, can_enter).                                    *)
THEOREM ZoneEntryOnlyOnRetest == Spec => EntryOnlyOnRetest
  <1> DEFINE Retest ==
        entries' > entries =>
          LET p == live'[entries'] IN
          \A id \in DOMAIN zones :
              zones[id].side = p.side /\ Contains(zones[id], p.price) => id \in left \ killed
  <1>1. ASSUME Inv, [Next]_vars PROVE [Retest]_vars
    <2> SUFFICES ASSUME entries' > entries,
                        NEW id \in DOMAIN zones, zones[id].side = live'[entries'].side,
                        Contains(zones[id], live'[entries'].price)
                 PROVE  id \in left \ killed
      OBVIOUS
    <2>1. entries \in Nat
      BY <1>1 DEF Inv, Numbered
    <2>2. Enter \/ EnterReplyLost
      BY <1>1, <2>1 DEF Next, vars, NoteBar, Finalise, FinaliseMisread, EndBar, BrokerCloses, Restart
    <2>3. PICK p : Fill(p)
      BY <2>2 DEF Enter, EnterReplyLost
    <2>4. live'[entries'] = p
      BY <1>1, <2>3, FillFacts
    <2>5. zones[id].status \notin {"open", "used", "dead"}
      BY <2>3, <2>4 DEF Fill, CanEnter
    <2> QED BY <1>1, <2>5 DEF Inv, Retested, Shaped
  <1> QED BY <1>1, Invariant, PTL DEF Spec, EntryOnlyOnRetest
=============================================================================
