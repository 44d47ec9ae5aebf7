--------------------------- MODULE DashboardProofs ---------------------------
(***************************************************************************)
(* What the dashboard guarantees in every scenario - any requests, any     *)
(* interleaving of them, any sockets, topics and streams: the broker's     *)
(* registers, the sessions, the order of the live feed, and that its       *)
(* proposals go through the lifecycle of ProposalLifecycle.                *)
(***************************************************************************)
EXTENDS Dashboard, WellFoundedInduction, FiniteSetTheorems, TLAPS

-----------------------------------------------------------------------------
\* The broker's registers

\* Registers in one shape, and in agreement
Registers ==
    /\ clients = [w \in DOMAIN clients |-> clients[w]]
    /\ byTopic = [t \in Topics |-> byTopic[t]]
    /\ \A w \in DOMAIN clients : clients[w] \subseteq Topics
    /\ IndexAgrees

LEMMA LeaveRegisters ==
    ASSUME Registers, NEW gone, Leave(clients, gone)
    PROVE  Registers'
  <1>1. DOMAIN clients' = DOMAIN clients \ gone /\ \A w \in DOMAIN clients' : clients'[w] = clients[w]
    BY DEF Leave
  <1>2. clients' = [w \in DOMAIN clients' |-> clients'[w]] /\ byTopic' = [t \in Topics |-> byTopic'[t]]
    BY DEF Leave
  <1>3. ASSUME NEW t \in Topics PROVE byTopic'[t] = {w \in DOMAIN clients' : t \in clients'[w]}
    <2>1. byTopic'[t] = byTopic[t] \ {w \in gone : w \in DOMAIN clients /\ t \in clients[w]}
      BY DEF Leave
    <2>2. byTopic[t] = {w \in DOMAIN clients : t \in clients[w]}
      BY DEF Registers, IndexAgrees
    <2> QED BY <1>1, <2>1, <2>2
  <1> QED BY <1>1, <1>2, <1>3 DEF Registers, IndexAgrees

\* A socket's topics change to `topics`, in both registers
LEMMA ChangeRegisters ==
    ASSUME Registers, NEW w, NEW topics \in SUBSET Topics,
           DOMAIN clients' = DOMAIN clients \cup {w},
           \A v \in DOMAIN clients' : clients'[v] = IF v = w THEN topics ELSE clients[v],
           clients' = [v \in DOMAIN clients' |-> clients'[v]],
           byTopic' = [t \in Topics |-> IF t \in topics THEN byTopic[t] \cup {w} ELSE byTopic[t] \ {w}]
    PROVE  Registers'
  <1>1. ASSUME NEW t \in Topics PROVE byTopic'[t] = {v \in DOMAIN clients' : t \in clients'[v]}
    <2>1. byTopic[t] = {v \in DOMAIN clients : t \in clients[v]}
      BY DEF Registers, IndexAgrees
    <2> QED BY <2>1
  <1> QED BY <1>1 DEF Registers, IndexAgrees

LEMMA AcceptRegisters == ASSUME Registers, NEW w, Accept(w) PROVE Registers'
  <1>1. w \notin DOMAIN clients
    BY DEF Accept
  <1>2. /\ DOMAIN clients' = DOMAIN clients \cup {w}
        /\ \A v \in DOMAIN clients' : clients'[v] = IF v = w THEN Topics ELSE clients[v]
        /\ clients' = [v \in DOMAIN clients' |-> clients'[v]]
    BY <1>1 DEF Accept
  <1>3. byTopic' = [t \in Topics |-> IF t \in Topics THEN byTopic[t] \cup {w} ELSE byTopic[t] \ {w}]
    BY DEF Accept
  <1> QED BY <1>2, <1>3, ChangeRegisters

LEMMA SubscribeRegisters ==
    ASSUME Registers, NEW w, NEW t \in Topics, Subscribe(w, t) PROVE Registers'
  <1> DEFINE topics == clients[w] \cup {t}
  <1>1. w \in DOMAIN clients /\ topics \in SUBSET Topics
    BY DEF Subscribe, Registers
  <1>2. /\ DOMAIN clients' = DOMAIN clients \cup {w}
        /\ \A v \in DOMAIN clients' : clients'[v] = IF v = w THEN topics ELSE clients[v]
        /\ clients' = [v \in DOMAIN clients' |-> clients'[v]]
    BY <1>1 DEF Subscribe
  <1>3. ASSUME NEW u \in Topics
        PROVE  byTopic'[u] = IF u \in topics THEN byTopic[u] \cup {w} ELSE byTopic[u] \ {w}
    <2>1. byTopic[u] = {v \in DOMAIN clients : u \in clients[v]}
      BY DEF Registers, IndexAgrees
    <2>2. byTopic'[u] = IF u = t THEN byTopic[u] \cup {w} ELSE byTopic[u]
      BY DEF Subscribe, Registers
    <2> QED BY <1>1, <2>1, <2>2
  <1>4. byTopic' = [u \in Topics |-> byTopic'[u]]
    BY DEF Subscribe, Registers
  <1>5. byTopic' = [u \in Topics |-> IF u \in topics THEN byTopic[u] \cup {w} ELSE byTopic[u] \ {w}]
    BY <1>3, <1>4
  <1> HIDE DEF topics
  <1> QED BY <1>1, <1>2, <1>5, ChangeRegisters

LEMMA UnsubscribeRegisters ==
    ASSUME Registers, NEW w, NEW t \in Topics, Unsubscribe(w, t) PROVE Registers'
  <1> DEFINE topics == clients[w] \ {t}
  <1>1. w \in DOMAIN clients /\ topics \in SUBSET Topics
    BY DEF Unsubscribe, Registers
  <1>2. /\ DOMAIN clients' = DOMAIN clients \cup {w}
        /\ \A v \in DOMAIN clients' : clients'[v] = IF v = w THEN topics ELSE clients[v]
        /\ clients' = [v \in DOMAIN clients' |-> clients'[v]]
    BY <1>1 DEF Unsubscribe
  <1>3. ASSUME NEW u \in Topics
        PROVE  byTopic'[u] = IF u \in topics THEN byTopic[u] \cup {w} ELSE byTopic[u] \ {w}
    <2>1. byTopic[u] = {v \in DOMAIN clients : u \in clients[v]}
      BY DEF Registers, IndexAgrees
    <2>2. byTopic'[u] = IF u = t THEN byTopic[u] \ {w} ELSE byTopic[u]
      BY DEF Unsubscribe, Registers
    <2> QED BY <1>1, <2>1, <2>2
  <1>4. byTopic' = [u \in Topics |-> byTopic'[u]]
    BY DEF Unsubscribe, Registers
  <1>5. byTopic' = [u \in Topics |-> IF u \in topics THEN byTopic[u] \cup {w} ELSE byTopic[u] \ {w}]
    BY <1>3, <1>4
  <1> HIDE DEF topics
  <1> QED BY <1>1, <1>2, <1>5, ChangeRegisters

LEMMA FeedRegisters == ASSUME Registers, FeedNext PROVE Registers'
  <1>1. ASSUME UNCHANGED <<clients, byTopic>> PROVE Registers'
    BY <1>1 DEF Registers, IndexAgrees
  <1>2. CASE \E s \in Streams : Publish(s)
    BY <1>1, <1>2 DEF Publish
  <1>3. CASE Connect \/ Read \/ Answer \/ Drop
    BY <1>1, <1>3 DEF Connect, Read, Answer, Drop
  <1>4. CASE \E readable \in BOOLEAN : Forward(readable)
    BY <1>1, <1>4 DEF Forward
  <1>5. CASE EndBroadcast
    BY <1>5, LeaveRegisters DEF EndBroadcast
  <1>6. ASSUME NEW w \in Sockets, Send(w) \/ HangUp(w) PROVE Registers'
    BY <1>1, <1>6 DEF Send, HangUp
  <1>7. ASSUME NEW w \in Sockets, Disconnect(w) PROVE Registers'
    BY <1>7, LeaveRegisters DEF Disconnect
  <1>8. ASSUME NEW w \in Sockets, NEW t \in Topics, Subscribe(w, t) \/ Unsubscribe(w, t) PROVE Registers'
    BY <1>8, SubscribeRegisters, UnsubscribeRegisters
  <1> QED BY <1>2, <1>3, <1>4, <1>5, <1>6, <1>7, <1>8 DEF FeedNext

\* The steps that leave the feed alone
LEMMA OthersLeaveFeed ==
    ASSUME [Next]_vars, ~Feed, ~\E r \in Made : OpenSocket(r)
    PROVE  UNCHANGED feedVars
  <1>1. CASE UNCHANGED vars
    BY <1>1 DEF vars
  <1>2. CASE Outage \/ WriteEvent \/ WriterRestarts
    BY <1>2 DEF Outage, WriteEvent, WriterRestarts
  <1>3. ASSUME NEW s \in sessions, Expires(s) PROVE UNCHANGED feedVars
    BY <1>3 DEF Expires, OnlyAuth
  <1>4. ASSUME NEW r \in Made, Handler(r), ~OpenSocket(r) PROVE UNCHANGED feedVars
    <2>2. CASE Login(r) \/ Logout(r) \/ FindSession(r) \/ RefreshSession(r)
      BY <2>2 DEF Login, Logout, FindSession, RefreshSession, OnlyAuth
    <2>3. CASE Toggle(r) \/ ToggleMode(r) \/ StartBacktest(r) \/ EndBacktest(r)
      BY <2>3 DEF Toggle, ToggleMode, StartBacktest, EndBacktest
    <2>4. CASE Propose(r) \/ ReadForDecision(r) \/ ReadForTest(r) \/ Test(r)
      BY <2>4 DEF Propose, ReadForDecision, ReadForTest, Test, OnlyProposals
    <2>5. CASE PutInMemory(r) \/ CheckInDb(r) \/ ReplaceInDb(r)
      BY <2>5 DEF PutInMemory, CheckInDb, ReplaceInDb, OnlyProposals
    <2> QED BY <1>4, <2>2, <2>3, <2>4, <2>5 DEF Handler
  <1> QED BY <1>1, <1>2, <1>3, <1>4 DEF Next

LEMMA RegistersHold == Spec => []Registers
  <1>1. Init => Registers
    BY DEF Init, FeedInit, Registers, IndexAgrees
  <1>2. Registers /\ [Next]_vars => Registers'
    <2> SUFFICES ASSUME Registers, [Next]_vars PROVE Registers'
      OBVIOUS
    <2>1. ASSUME UNCHANGED feedVars PROVE Registers'
      BY <2>1 DEF feedVars, Registers, IndexAgrees
    <2>2. CASE Feed
      BY <2>2, FeedRegisters DEF Feed
    <2>3. ASSUME NEW r \in Made, OpenSocket(r) PROVE Registers'
      BY <2>3, AcceptRegisters DEF OpenSocket
    <2>4. CASE ~Feed /\ ~\E r \in Made : OpenSocket(r)
      BY <2>1, <2>4, OthersLeaveFeed
    <2> QED BY <2>2, <2>3, <2>4
  <1> QED BY <1>1, <1>2, PTL DEF Spec

\* The broker's two registers agree under any order of arrivals, changes of
\* subscription, departures and clean-ups.
THEOREM DashboardIndexAgrees == Spec => []IndexAgrees
  <1>1. Registers => IndexAgrees
    BY DEF Registers
  <1> QED BY <1>1, RegistersHold, PTL

-----------------------------------------------------------------------------
\* Sessions

\* A request that was between its two steps when its session was logged out
\* is on record; only such a request can bring the session back.
Revocable ==
    /\ pc = [r \in Made |-> pc[r]]
    /\ LogoutSticks
    /\ \A r \in Made : pc[r] = "found" /\ SidOf(r) \in left => SidOf(r) \in raced

\* A step of another request that neither finds nor revokes a session
LEMMA ElsewhereRevocable ==
    ASSUME Revocable, UNCHANGED <<work, sessions, left, raced>>,
           NEW r \in Made, NEW to, to # "found", pc' = [pc EXCEPT ![r] = to]
    PROVE  Revocable'
  BY DEF Revocable, LogoutSticks, Made, SidOf

LEMMA HandlerRevocable ==
    ASSUME Revocable, NEW r \in Made, Handler(r)
    PROVE  Revocable'
  <1> USE DEF Revocable, LogoutSticks, Made, SidOf, Goes, OnlyAuth
  <1>1. CASE Login(r)
    BY <1>1 DEF Login
  <1>2. CASE Logout(r)
    <2>1. \A q \in Made : pc'[q] = "found" => pc[q] = "found"
      BY <1>2 DEF Logout
    <2>2. sessions' = sessions \ {SidOf(r)} /\ left' = left \cup {SidOf(r)} /\ raced \subseteq raced'
      BY <1>2 DEF Logout
    <2>3. \A q \in Made : pc[q] = "found" /\ SidOf(q) = SidOf(r) => SidOf(r) \in raced'
      BY <1>2 DEF Logout
    <2>4. work' = work /\ pc' = [q \in Made |-> pc'[q]]
      BY <1>2 DEF Logout
    <2> QED BY <2>1, <2>2, <2>3, <2>4
  <1>3. CASE FindSession(r)
    <2>1. UNCHANGED <<work, sessions, left, raced>>
      BY <1>3 DEF FindSession, authVars
    <2>2. pc' = [pc EXCEPT ![r] = IF SidOf(r) \in sessions THEN "found" ELSE "refused"]
      BY <1>3 DEF FindSession
    <2> QED BY <2>1, <2>2
  <1>4. CASE RefreshSession(r)
    <2>1. UNCHANGED <<work, left, raced>> /\ sessions' \subseteq sessions \cup {SidOf(r)}
      BY <1>4 DEF RefreshSession
    <2>2. pc[r] = "found" /\ \E to \in {"run", "refused"} : pc' = [pc EXCEPT ![r] = to]
      BY <1>4 DEF RefreshSession
    <2> QED BY <2>1, <2>2
  <1>5. ASSUME UNCHANGED <<work, sessions, left, raced, pc>> PROVE Revocable'
    BY <1>5
  <1>6. ASSUME NoAuth, \E to \in {"done", "refused", "put", "test", "replace"} : Goes(r, to) PROVE Revocable'
    BY <1>6, ElsewhereRevocable DEF NoAuth, authVars
  <1>7. CASE EndBacktest(r)
    BY <1>5, <1>7 DEF EndBacktest, authVars
  <1>8. CASE Toggle(r) \/ ToggleMode(r) \/ OpenSocket(r) \/ StartBacktest(r)
    BY <1>6, <1>8 DEF Toggle, ToggleMode, OpenSocket, StartBacktest
  <1>9. CASE Propose(r) \/ ReadForDecision(r) \/ ReadForTest(r) \/ Test(r)
    BY <1>6, <1>9 DEF Propose, ReadForDecision, ReadForTest, Test, OnlyProposals, Raises
  <1>10. CASE PutInMemory(r) \/ CheckInDb(r) \/ ReplaceInDb(r)
    BY <1>6, <1>10 DEF PutInMemory, CheckInDb, ReplaceInDb, OnlyProposals, Raises
  <1> QED BY <1>1, <1>2, <1>3, <1>4, <1>7, <1>8, <1>9, <1>10 DEF Handler

\* A session that was logged out answers again only if one of its requests
\* stood between reading and refreshing it, whoever else does what.
THEOREM DashboardLogoutSticks == Spec => []LogoutSticks
  <1>1. Init => Revocable
    BY DEF Init, Revocable, LogoutSticks, Made
  <1>2. Revocable /\ [Next]_vars => Revocable'
    <2> SUFFICES ASSUME Revocable, [Next]_vars PROVE Revocable'
      OBVIOUS
    <2>1. ASSUME UNCHANGED <<work, sessions, left, raced, pc>> PROVE Revocable'
      BY <2>1 DEF Revocable, LogoutSticks, Made, SidOf
    <2>2. CASE UNCHANGED vars
      BY <2>1, <2>2 DEF vars, authVars
    <2>3. CASE Outage \/ WriteEvent \/ WriterRestarts \/ Feed
      BY <2>1, <2>3 DEF Outage, WriteEvent, WriterRestarts, Feed, authVars
    <2>4. ASSUME NEW s \in sessions, Expires(s) PROVE Revocable'
      BY <2>4 DEF Expires, OnlyAuth, Revocable, LogoutSticks, Made, SidOf
    <2>5. ASSUME NEW r \in Made, Handler(r) PROVE Revocable'
      BY <2>5, HandlerRevocable
    <2> QED BY <2>2, <2>3, <2>4, <2>5 DEF Next
  <1>3. Revocable => LogoutSticks
    BY DEF Revocable
  <1> QED BY <1>1, <1>2, <1>3, PTL DEF Spec

-----------------------------------------------------------------------------
\* The live feed

FeedTypeOK ==
    /\ length \in [Streams -> Nat]
    /\ cursor \in [Streams -> Nat \cup {None}]
    /\ since \in [Streams -> Nat]
    /\ response \in [Streams -> Nat]
    /\ shown \in [Streams -> SUBSET Nat]
    /\ got \in [Sockets -> Seq(Streams \X Nat)]

\* Where the reader is in each stream: an answer goes on right after the last
\* entry forwarded, but for the one in work, and holds only what is there.
Position ==
    /\ \A s \in Streams : cursor[s] # None => cursor[s] <= length[s]
    /\ reader = "waiting" =>
          \A s \in Streams : since[s] <= length[s] /\ cursor[s] \in {None, since[s]}
    /\ reader \in {"sending", "broadcasting"} =>
          /\ \E s \in Streams : response[s] > 0
          /\ \A s \in Streams :
                /\ since[s] + response[s] <= length[s]
                /\ \/ cursor[s] \in {None, since[s]}
                   \/ reader = "broadcasting" /\ s = Current
    /\ reader = "broadcasting" => cursor[Current] = Entry

\* Of a stream a socket has received nothing after entry n
Reached(w, s, n) ==
    \A i \in DOMAIN got[w] : got[w][i][1] = s => got[w][i][2] <= n

\* What is forwarded next is new to every socket it still goes to, on this
\* connection and over reconnects.
Received ==
    \A w \in Sockets, s \in Streams :
        /\ Reached(w, s, length[s])
        /\ cursor[s] # None => Reached(w, s, cursor[s])
        /\ reader \in {"waiting", "sending"} => Reached(w, s, since[s])
        /\ reader = "broadcasting" /\ (s # Current \/ w \in targets) => Reached(w, s, since[s])

Ascending ==
    \A w \in Sockets : \A i, j \in DOMAIN got[w] :
        i < j /\ got[w][i][1] = got[w][j][1] => got[w][i][2] < got[w][j][2]

\* What was shown since the last connect ends at the cursor and has no gap.
Gapless ==
    \A s \in Streams :
        /\ cursor[s] = None => shown[s] = {}
        /\ cursor[s] # None => \E a \in 0 .. cursor[s] : shown[s] = a .. cursor[s]

FeedInv == FeedTypeOK /\ Position /\ Received /\ Ascending /\ Gapless

LEMMA CurrentHasMore ==
    ASSUME \E s \in Streams : response[s] > 0
    PROVE  Current \in Streams /\ response[Current] > 0
  BY DEF Current

LEMMA InitFeed == FeedInit => FeedInv
  <1> SUFFICES ASSUME FeedInit PROVE FeedInv
    OBVIOUS
  <1>1. \A w \in Sockets : got[w] = <<>> /\ DOMAIN got[w] = {}
    BY DEF FeedInit
  <1>2. FeedTypeOK
    BY DEF FeedInit, FeedTypeOK
  <1>3. \A s \in Streams : cursor[s] = None /\ shown[s] = {}
    BY DEF FeedInit
  <1>4. reader = "down"
    BY DEF FeedInit
  <1> QED BY <1>1, <1>2, <1>3, <1>4 DEF FeedInv, Position, Received, Reached, Ascending, Gapless

\* A step that the reader takes without sending.
LEMMA QuietFeed ==
    ASSUME FeedInv, got' = got, FeedTypeOK', Position', Gapless',
           \A s \in Streams :
              /\ length[s] <= length'[s]
              /\ cursor'[s] # None => cursor'[s] = cursor[s]
              /\ reader' \in {"waiting", "sending"} =>
                    \/ since'[s] = length[s]
                    \/ cursor[s] # None /\ since'[s] = cursor[s]
                    \/ reader \in {"waiting", "sending"} /\ since'[s] = since[s]
                    \/ reader = "broadcasting" /\ s # Current /\ since'[s] = since[s],
           reader' # "broadcasting"
    PROVE  FeedInv'
  <1>1. ASSUME NEW w \in Sockets, NEW s \in Streams PROVE Reached(w, s, length[s])'
    <2>1. Reached(w, s, length[s]) /\ length[s] <= length'[s] /\ length[s] \in Nat /\ length'[s] \in Nat
      BY DEF FeedInv, Received, FeedTypeOK
    <2>2. \A i \in DOMAIN got[w] : got[w][i] \in Streams \X Nat
      BY DEF FeedInv, FeedTypeOK
    <2>3. \A i \in DOMAIN got[w] : got[w][i][2] \in Nat
      BY <2>2
    <2> QED BY <2>1, <2>3 DEF Reached
  <1>2. ASSUME NEW w \in Sockets, NEW s \in Streams
        PROVE  /\ cursor'[s] # None => Reached(w, s, cursor[s])'
               /\ reader' \in {"waiting", "sending"} => Reached(w, s, since[s])'
    BY DEF FeedInv, Received, Reached
  <1>3. Received'
    BY <1>1, <1>2 DEF Received
  <1>4. Ascending'
    BY DEF FeedInv, Ascending
  <1> QED BY <1>3, <1>4 DEF FeedInv

\* A step of the others: streams grow, sockets come and go.
LEMMA OutsideFeed ==
    ASSUME FeedInv, UNCHANGED <<cursor, since, response, shown, got>>,
           reader' = reader \/ reader' = "down",
           targets' \subseteq targets,
           length' \in [Streams -> Nat], \A s \in Streams : length[s] <= length'[s]
    PROVE  FeedInv'
  <1>1. Current' = Current /\ Entry' = Entry
    BY DEF Current, Entry
  <1>2. FeedTypeOK' /\ Gapless' /\ Ascending'
    BY DEF FeedInv, FeedTypeOK, Gapless, Ascending
  <1>3. \A s \in Streams : /\ length[s] \in Nat /\ length'[s] \in Nat /\ length[s] <= length'[s]
                           /\ since[s] \in Nat /\ response[s] \in Nat
                           /\ cursor[s] # None => cursor[s] \in Nat
    BY DEF FeedInv, FeedTypeOK
  <1>4. Position'
    BY <1>1, <1>3 DEF FeedInv, Position
  <1>5. ASSUME NEW w \in Sockets, NEW s \in Streams, Reached(w, s, length[s])
        PROVE  Reached(w, s, length[s])'
    <2>1. \A i \in DOMAIN got[w] : got[w][i] \in Streams \X Nat
      BY DEF FeedInv, FeedTypeOK
    <2>2. \A i \in DOMAIN got[w] : got[w][i][2] \in Nat
      BY <2>1
    <2> QED BY <1>3, <1>5, <2>2 DEF Reached
  <1>6. ASSUME NEW w \in Sockets, NEW s \in Streams, NEW n, Reached(w, s, n)
        PROVE  \A i \in DOMAIN got'[w] : got'[w][i][1] = s => got'[w][i][2] <= n
    BY <1>6 DEF Reached
  <1>7. Received'
    BY <1>1, <1>5, <1>6 DEF FeedInv, Received, Reached
  <1> QED BY <1>2, <1>4, <1>7 DEF FeedInv

LEMMA ForwardFeed ==
    ASSUME FeedInv, NEW readable, Forward(readable) PROVE FeedInv'
  <1>1. /\ Current \in Streams /\ response[Current] > 0
        /\ Current' = Current /\ Entry' = Entry
    BY CurrentHasMore DEF FeedInv, Position, Forward, Current, Entry
  <1>2. /\ Entry \in Nat /\ Entry = since[Current] + 1 /\ Entry <= length[Current]
        /\ since[Current] + response[Current] <= length[Current]
    BY <1>1 DEF FeedInv, FeedTypeOK, Position, Entry, Forward
  <1>3. /\ UNCHANGED <<length, since, response, got>>
        /\ \A s \in Streams : cursor'[s] = IF s = Current THEN Entry ELSE cursor[s]
        /\ \A s \in Streams : shown'[s] = IF s = Current THEN shown[s] \cup {Entry} ELSE shown[s]
        /\ reader = "sending" /\ reader' = "broadcasting"
    BY DEF Forward, FeedInv, FeedTypeOK
  <1>4. FeedTypeOK'
    BY <1>1, <1>2 DEF Forward, FeedInv, FeedTypeOK
  <1> HIDE DEF Entry, Current
  <1>5. None # Entry
    BY <1>2, FeedAssumption DEF FeedAssumption
  <1>6. Position'
    BY <1>1, <1>2, <1>3 DEF FeedInv, Position
  <1>7. Gapless'
    <2> SUFFICES ASSUME NEW s \in Streams
                 PROVE  /\ cursor'[s] = None => shown'[s] = {}
                        /\ cursor'[s] # None => \E a \in 0 .. cursor'[s] : shown'[s] = a .. cursor'[s]
      BY DEF Gapless
    <2>1. CASE s # Current
      BY <1>3, <2>1 DEF FeedInv, Gapless
    <2>2. CASE s = Current /\ cursor[s] = None
      <3>1. shown'[s] = {Entry} /\ cursor'[s] = Entry
        BY <1>3, <2>2 DEF FeedInv, Gapless
      <3> QED BY <1>2, <1>5, <3>1
    <2>3. CASE s = Current /\ cursor[s] # None
      <3>1. cursor[s] = since[s] /\ cursor[s] \in Nat
        BY <1>3, <2>3 DEF FeedInv, Position, FeedTypeOK
      <3>2. PICK a \in 0 .. cursor[s] : shown[s] = a .. cursor[s]
        BY <2>3 DEF FeedInv, Gapless
      <3>3. shown'[s] = (a .. cursor[s]) \cup {cursor[s] + 1} /\ cursor'[s] = cursor[s] + 1
        BY <1>2, <1>3, <2>3, <3>1, <3>2
      <3>4. (a .. cursor[s]) \cup {cursor[s] + 1} = a .. (cursor[s] + 1)
        BY <3>1
      <3>5. a \in 0 .. cursor'[s] /\ shown'[s] = a .. cursor'[s]
        BY <3>1, <3>3, <3>4
      <3>6. cursor'[s] # None
        BY <1>3, <1>5, <2>3
      <3> QED BY <3>5, <3>6
    <2> QED BY <2>1, <2>2, <2>3
  <1>8. Received'
    <2> SUFFICES ASSUME NEW w \in Sockets, NEW s \in Streams
                 PROVE  /\ Reached(w, s, length[s])'
                        /\ cursor'[s] # None => Reached(w, s, cursor[s])'
                        /\ Reached(w, s, since[s])'
      BY <1>1, <1>3 DEF Received
    <2>1. Reached(w, s, length[s])' /\ Reached(w, s, since[s])'
      BY <1>3 DEF FeedInv, Received, Reached
    <2>2. CASE s = Current
      <3>1. \A i \in DOMAIN got[w] : got[w][i] \in Streams \X Nat
        BY DEF FeedInv, FeedTypeOK
      <3>2. \A i \in DOMAIN got[w] : got[w][i][2] \in Nat
        BY <3>1
      <3>3. Reached(w, s, since[s]) /\ since[s] \in Nat
        BY <1>3 DEF FeedInv, Received, FeedTypeOK
      <3> QED BY <1>2, <1>3, <2>1, <2>2, <3>2, <3>3 DEF Reached
    <2>3. CASE s # Current
      BY <1>3, <2>1, <2>3 DEF FeedInv, Received, Reached
    <2> QED BY <2>1, <2>2, <2>3
  <1>9. Ascending'
    BY <1>3 DEF FeedInv, Ascending
  <1> QED BY <1>4, <1>6, <1>7, <1>8, <1>9 DEF FeedInv

LEMMA SendFeed ==
    ASSUME FeedInv, NEW w \in Sockets, Send(w) PROVE FeedInv'
  <1>1. CASE w \notin alive
    <2>1. /\ UNCHANGED <<length, cursor, since, response, shown, got, reader>>
          /\ targets' \subseteq targets
      BY <1>1 DEF Send
    <2> QED BY <2>1, OutsideFeed DEF FeedInv, FeedTypeOK
  <1>2. CASE w \in alive
    <2> DEFINE e == <<Current, Entry>>
    <2>1. /\ UNCHANGED <<length, cursor, since, response, shown, reader>>
          /\ reader = "broadcasting" /\ w \in targets /\ targets' = targets \ {w}
          /\ got' = [got EXCEPT ![w] = Append(@, e)]
      BY <1>2 DEF Send
    <2>2. /\ Current \in Streams /\ Current' = Current /\ Entry' = Entry
          /\ Entry = since[Current] + 1 /\ Entry \in Nat /\ since[Current] \in Nat
          /\ cursor[Current] = Entry /\ Entry <= length[Current] /\ length[Current] \in Nat
      <3>1. Current \in Streams /\ response[Current] > 0
        BY <2>1, CurrentHasMore DEF FeedInv, Position
      <3>2. Current' = Current /\ Entry' = Entry
        BY <2>1 DEF Current, Entry
      <3>3. Entry = since[Current] + 1
        BY DEF Entry
      <3> HIDE DEF Current, Entry
      <3>4. /\ since[Current] \in Nat /\ length[Current] \in Nat /\ response[Current] \in Nat
            /\ since[Current] + response[Current] <= length[Current]
            /\ cursor[Current] = Entry
        BY <2>1, <3>1 DEF FeedInv, FeedTypeOK, Position
      <3> QED BY <3>1, <3>2, <3>3, <3>4
    <2> HIDE DEF Current, Entry
    <2>3. /\ got[w] \in Seq(Streams \X Nat) /\ e \in Streams \X Nat
          /\ e[1] = Current /\ e[2] = Entry
      BY <2>2 DEF FeedInv, FeedTypeOK
    <2>4. /\ got'[w] \in Seq(Streams \X Nat)
          /\ DOMAIN got[w] = 1 .. Len(got[w]) /\ DOMAIN got'[w] = 1 .. Len(got[w]) + 1
          /\ Len(got[w]) \in Nat
          /\ got'[w][Len(got[w]) + 1] = e
          /\ \A i \in 1 .. Len(got[w]) : got'[w][i] = got[w][i]
      <3> HIDE DEF e
      <3>1. got'[w] = Append(got[w], e)
        BY <2>1 DEF FeedInv, FeedTypeOK
      <3> QED BY <2>3, <3>1
    <2>5. \A v \in Sockets : v # w => got'[v] = got[v]
      BY <2>1 DEF FeedInv, FeedTypeOK
    <2>6. FeedTypeOK'
      BY <2>1, <2>4 DEF FeedInv, FeedTypeOK
    <2>7. Position' /\ Gapless'
      BY <2>1, <2>2 DEF FeedInv, Position, Gapless
    <2>8. \A i \in DOMAIN got[w] : got[w][i][1] = Current => got[w][i][2] <= since[Current]
      BY <2>1, <2>2 DEF FeedInv, Received, Reached
    <2>9. \A i \in DOMAIN got[w] : got[w][i][2] \in Nat
      <3>1. \A i \in DOMAIN got[w] : got[w][i] \in Streams \X Nat
        BY <2>3
      <3> QED BY <3>1
    <2>10. Ascending'
      <3>1. ASSUME NEW v \in Sockets, v # w, NEW i \in DOMAIN got'[v], NEW j \in DOMAIN got'[v],
                   i < j, got'[v][i][1] = got'[v][j][1]
            PROVE  got'[v][i][2] < got'[v][j][2]
        BY <2>5, <3>1 DEF FeedInv, Ascending
      <3>2. ASSUME NEW i \in 1 .. Len(got[w]), NEW j \in 1 .. Len(got[w]),
                   i < j, got'[w][i][1] = got'[w][j][1]
            PROVE  got'[w][i][2] < got'[w][j][2]
        <4>1. got'[w][i] = got[w][i] /\ got'[w][j] = got[w][j]
          BY <2>4
        <4> QED BY <2>4, <3>2, <4>1 DEF FeedInv, Ascending
      <3>3. ASSUME NEW i \in 1 .. Len(got[w]), got'[w][i][1] = e[1]
            PROVE  got'[w][i][2] < e[2]
        <4>1. got'[w][i] = got[w][i] /\ i \in DOMAIN got[w]
          BY <2>4
        <4>2. got[w][i][2] <= since[Current] /\ got[w][i][2] \in Nat
          BY <2>3, <2>8, <2>9, <3>3, <4>1
        <4> QED BY <2>2, <2>3, <4>1, <4>2
      <3>4. ASSUME NEW i \in DOMAIN got'[w], NEW j \in DOMAIN got'[w],
                   i < j, got'[w][i][1] = got'[w][j][1]
            PROVE  got'[w][i][2] < got'[w][j][2]
        <4> HIDE DEF e
        <4>1. /\ i \in 1 .. Len(got[w]) /\ Len(got[w]) \in Nat
              /\ j \in 1 .. Len(got[w]) \/ j = Len(got[w]) + 1
          <5>1. i \in 1 .. Len(got[w]) + 1 /\ j \in 1 .. Len(got[w]) + 1 /\ Len(got[w]) \in Nat
            BY <2>4
          <5> QED BY <3>4, <5>1
        <4>2. CASE j = Len(got[w]) + 1
          <5>1. got'[w][j] = e
            BY <2>4, <4>2
          <5> QED BY <3>3, <3>4, <4>1, <5>1
        <4> QED BY <3>2, <3>4, <4>1, <4>2
      <3> QED BY <3>1, <3>4 DEF Ascending
    <2>11. Received'
      <3> SUFFICES ASSUME NEW v \in Sockets, NEW s \in Streams
                   PROVE  /\ Reached(v, s, length[s])'
                          /\ cursor[s] # None => Reached(v, s, cursor[s])'
                          /\ s # Current \/ v \in targets' => Reached(v, s, since[s])'
        BY <2>1, <2>2 DEF Received
      <3>1. /\ Reached(v, s, length[s])
            /\ cursor[s] # None => Reached(v, s, cursor[s])
            /\ s # Current \/ v \in targets => Reached(v, s, since[s])
        BY <2>1 DEF FeedInv, Received
      <3>2. ASSUME NEW n, Reached(v, s, n), s = Current /\ v = w => Entry <= n
            PROVE  \A i \in DOMAIN got'[v] : got'[v][i][1] = s => got'[v][i][2] <= n
        <4>1. CASE v # w
          BY <2>5, <3>2, <4>1 DEF Reached
        <4>2. CASE v = w
          <5> SUFFICES ASSUME NEW i \in DOMAIN got'[w], got'[w][i][1] = s
                       PROVE  got'[w][i][2] <= n
            BY <4>2
          <5>1. i \in 1 .. Len(got[w]) \/ i = Len(got[w]) + 1
            BY <2>4
          <5>2. CASE i \in 1 .. Len(got[w])
            BY <2>4, <3>2, <4>2, <5>2 DEF Reached
          <5>3. CASE i = Len(got[w]) + 1
            <6>1. got'[w][i] = e
              <7> HIDE DEF e
              <7> QED BY <2>4, <5>3
            <6> QED BY <2>3, <3>2, <4>2, <6>1
          <5> QED BY <5>1, <5>2, <5>3
        <4> QED BY <4>1, <4>2
      <3> QED BY <2>1, <2>2, <3>1, <3>2 DEF Reached
    <2> QED BY <2>6, <2>7, <2>10, <2>11 DEF FeedInv
  <1> QED BY <1>1, <1>2

LEMMA FeedStep == ASSUME FeedInv, FeedNext PROVE FeedInv'
  <1>1. ASSUME NEW s \in Streams, Publish(s) PROVE FeedInv'
    <2>1. length' \in [Streams -> Nat] /\ \A u \in Streams : length[u] <= length'[u]
      <3>1. length' = [length EXCEPT ![s] = @ + 1]
        BY <1>1 DEF Publish
      <3> QED BY <3>1 DEF FeedInv, FeedTypeOK
    <2> QED BY <1>1, <2>1, OutsideFeed DEF Publish, readerVars
  <1>2. CASE Drop
    BY <1>2, OutsideFeed DEF Drop, FeedInv, FeedTypeOK
  <1>3. ASSUME NEW w \in Sockets, HangUp(w) \/ Disconnect(w) PROVE FeedInv'
    BY <1>3, OutsideFeed DEF HangUp, Disconnect, readerVars, FeedInv, FeedTypeOK
  <1>4. ASSUME NEW w \in Sockets, NEW t \in Topics, Subscribe(w, t) \/ Unsubscribe(w, t)
        PROVE  FeedInv'
    BY <1>4, OutsideFeed DEF Subscribe, Unsubscribe, readerVars, FeedInv, FeedTypeOK
  <1>5. CASE Connect
    <2>1. FeedTypeOK' /\ Position' /\ Gapless'
      BY <1>5 DEF Connect, FeedInv, FeedTypeOK, Position, Gapless
    <2>2. \A s \in Streams : length[s] <= length'[s] /\ cursor'[s] = None
      BY <1>5 DEF Connect, FeedInv, FeedTypeOK
    <2> QED BY <1>5, <2>1, <2>2, QuietFeed DEF Connect
  <1>6. CASE Read
    <2>1. \A s \in Streams : since'[s] = IF cursor[s] = None THEN length[s] ELSE cursor[s]
      BY <1>6 DEF Read, Since
    <2>2. FeedTypeOK'
      BY <1>6, <2>1 DEF Read, Since, FeedInv, FeedTypeOK
    <2>3. \A s \in Streams : length[s] \in Nat
      BY DEF FeedInv, FeedTypeOK
    <2>4. Position' /\ Gapless'
      BY <1>6, <2>1, <2>3 DEF Read, FeedInv, Position, Gapless
    <2> QED BY <1>6, <2>1, <2>2, <2>3, <2>4, QuietFeed DEF Read
  <1>7. CASE Answer
    <2>1. /\ \A s \in Streams : response'[s] = Fetched(s)
          /\ response' = [s \in Streams |-> Fetched(s)]
          /\ UNCHANGED <<length, cursor, since, shown, got>> /\ reader = "waiting"
          /\ reader' = IF \A s \in Streams : response'[s] = 0 THEN "ready" ELSE "sending"
      BY <1>7 DEF Answer
    <2>2. \A s \in Streams : /\ length[s] \in Nat /\ since[s] \in Nat /\ since[s] <= length[s]
                             /\ cursor[s] \in {None, since[s]}
      BY <2>1 DEF FeedInv, FeedTypeOK, Position
    <2>3. \A s \in Streams : Fetched(s) \in Nat /\ since[s] + Fetched(s) <= length[s]
      BY <2>2, FeedAssumption DEF FeedAssumption, Fetched
    <2>4. FeedTypeOK' /\ Gapless'
      <3>1. response' \in [Streams -> Nat]
        BY <2>1, <2>3
      <3>2. FeedTypeOK'
        BY <2>1, <3>1 DEF FeedInv, FeedTypeOK
      <3>3. Gapless'
        BY <2>1 DEF FeedInv, Gapless
      <3> QED BY <3>2, <3>3
    <2>5. reader' = "sending" => \E s \in Streams : response'[s] > 0
      BY <2>1, <2>3
    <2>6. Position'
      BY <2>1, <2>2, <2>3, <2>5 DEF FeedInv, Position
    <2> QED BY <2>1, <2>2, <2>4, <2>6, QuietFeed
  <1>8. CASE EndBroadcast
    <2>1. /\ Current \in Streams /\ response[Current] > 0 /\ reader = "broadcasting"
          /\ cursor[Current] = Entry /\ Entry = since[Current] + 1
      <3>1. reader = "broadcasting"
        BY <1>8 DEF EndBroadcast
      <3>2. \E s \in Streams : response[s] > 0
        BY <3>1 DEF FeedInv, Position
      <3> QED BY <3>1, <3>2, CurrentHasMore DEF FeedInv, Position, Entry
    <2> HIDE DEF Current, Entry
    <2>2. /\ UNCHANGED <<length, cursor, shown, got>>
          /\ \A s \in Streams : since'[s] = IF s = Current THEN since[s] + 1 ELSE since[s]
          /\ \A s \in Streams : response'[s] = IF s = Current THEN response[s] - 1 ELSE response[s]
          /\ reader' = IF \A s \in Streams : response'[s] = 0 THEN "ready" ELSE "sending"
      BY <1>8, <2>1 DEF EndBroadcast, FeedInv, FeedTypeOK
    <2>3. \A s \in Streams : /\ length[s] \in Nat /\ since[s] \in Nat /\ response[s] \in Nat
                             /\ since[s] + response[s] <= length[s]
                             /\ s # Current => cursor[s] \in {None, since[s]}
      BY <2>1 DEF FeedInv, FeedTypeOK, Position
    <2>4. FeedTypeOK' /\ Gapless'
      <3>1. /\ since' = [since EXCEPT ![Current] = since[Current] + 1]
            /\ response' = [response EXCEPT ![Current] = response[Current] - 1]
        BY <1>8 DEF EndBroadcast
      <3>2. since' \in [Streams -> Nat]
        BY <2>1, <2>3, <3>1 DEF FeedInv, FeedTypeOK
      <3>3. response[Current] - 1 \in Nat
        BY <2>1, <2>3
      <3>4. response' \in [Streams -> Nat]
        BY <3>1, <3>3 DEF FeedInv, FeedTypeOK
      <3>5. FeedTypeOK'
        BY <2>2, <3>2, <3>4 DEF FeedInv, FeedTypeOK
      <3>6. Gapless'
        BY <2>2 DEF FeedInv, Gapless
      <3> QED BY <3>5, <3>6
    <2>5. \A s \in Streams : response'[s] \in Nat
      BY <2>4 DEF FeedTypeOK
    <2>6. Position'
      <3>1. \A s \in Streams : since'[s] + response'[s] <= length'[s] /\ cursor'[s] \in {None, since'[s]}
        BY <2>1, <2>2, <2>3
      <3>2. reader' = "sending" => \E s \in Streams : response'[s] > 0
        BY <2>2, <2>5
      <3>3. reader' \in {"ready", "sending"}
        BY <2>2
      <3>4. \A s \in Streams : cursor'[s] # None => cursor'[s] <= length'[s]
        BY <2>2 DEF FeedInv, Position
      <3> QED BY <3>1, <3>2, <3>3, <3>4 DEF Position
    <2>7. cursor[Current] # None
      BY <2>1, <2>3, FeedAssumption DEF FeedAssumption
    <2>8. ASSUME NEW s \in Streams
          PROVE  \/ s # Current /\ since'[s] = since[s]
                 \/ cursor[s] # None /\ since'[s] = cursor[s]
      BY <2>1, <2>2, <2>7
    <2>9. reader' # "broadcasting"
      BY <2>2
    <2>10. \A s \in Streams : length[s] <= length'[s]
      BY <2>2, <2>3
    <2> QED BY <2>1, <2>2, <2>4, <2>6, <2>8, <2>9, <2>10, QuietFeed
  <1>9. CASE \E readable \in BOOLEAN : Forward(readable)
    BY <1>9, ForwardFeed
  <1>10. CASE \E w \in Sockets : Send(w)
    BY <1>10, SendFeed
  <1> QED BY <1>1, <1>2, <1>3, <1>4, <1>5, <1>6, <1>7, <1>8, <1>9, <1>10 DEF FeedNext

LEMMA FeedInvHolds == Spec => []FeedInv
  <1>1. Init => FeedInv
    BY InitFeed DEF Init
  <1>2. FeedInv /\ [Next]_vars => FeedInv'
    <2> SUFFICES ASSUME FeedInv, [Next]_vars PROVE FeedInv'
      OBVIOUS
    <2>1. ASSUME UNCHANGED readerVars, UNCHANGED <<length, got>> PROVE FeedInv'
      BY <2>1, OutsideFeed DEF readerVars, FeedInv, FeedTypeOK
    <2>2. ASSUME UNCHANGED feedVars PROVE FeedInv'
      BY <2>1, <2>2 DEF feedVars, readerVars
    <2>3. CASE Feed
      BY <2>3, FeedStep DEF Feed
    <2>4. ASSUME NEW r \in Made, OpenSocket(r) PROVE FeedInv'
      BY <2>1, <2>4 DEF OpenSocket, Accept
    <2>5. CASE ~Feed /\ ~\E r \in Made : OpenSocket(r)
      BY <2>2, <2>5, OthersLeaveFeed
    <2> QED BY <2>3, <2>4, <2>5
  <1> QED BY <1>1, <1>2, PTL DEF Spec

\* No socket is sent an entry twice nor after a newer one of its stream, over
\* every reconnect and change of subscription, and nothing is left out
\* between two entries shown on one connection.
THEOREM DashboardFeedInOrder == Spec => []FeedInOrder
  <1>1. FeedInv => FeedInOrder
    <2> SUFFICES ASSUME FeedInv PROVE FeedInOrder
      OBVIOUS
    <2>1. ASSUME NEW s \in Streams, NEW a \in shown[s], NEW b \in shown[s]
          PROVE  a .. b \subseteq shown[s]
      <3>1. cursor[s] # None /\ cursor[s] \in Nat
        BY DEF FeedInv, Gapless, FeedTypeOK
      <3>2. PICK c \in Nat : shown[s] = c .. cursor[s]
        BY <3>1 DEF FeedInv, Gapless
      <3> QED BY <3>1, <3>2
    <2> QED BY <2>1 DEF FeedInv, Ascending, FeedInOrder
  <1> QED BY <1>1, FeedInvHolds, PTL
-----------------------------------------------------------------------------
\* Proposals

\* A bounded set of numbers that is not empty has a greatest member.
LEMMA Greatest ==
    ASSUME NEW n \in Nat, NEW S \in SUBSET (1 .. n), S # {}
    PROVE  \E i \in S : \A j \in S : j <= i
  <1> DEFINE Less == OpToRel(<, Nat)
             Bounds == {k \in Nat : \A j \in S : j <= k}
  <1>1. n \in Bounds
    OBVIOUS
  <1>2. PICK k \in Bounds : \A m \in Bounds : ~ (<<m, k>> \in Less)
    BY <1>1, NatLessThanWellFounded, WFMin
  <1>3. ASSUME NEW m \in Bounds, m < k PROVE FALSE
    <2>1. <<m, k>> \in Less
      BY <1>3 DEF OpToRel
    <2> QED BY <1>2, <2>1
  <1>4. k \in S
    <2> SUFFICES ASSUME k \notin S PROVE FALSE
      OBVIOUS
    <2>1. \A j \in S : j <= k - 1
      OBVIOUS
    <2>2. k - 1 \in Nat
      <3>1. PICK j \in S : TRUE
        OBVIOUS
      <3> QED BY <2>1, <3>1
    <2> QED BY <1>3, <2>1, <2>2
  <1> QED BY <1>4

\* A review proposes nothing but an idea of the model it asked.
LEMMA ReviewFindsAnIdea ==
    ASSUME NEW r \in Made, Do(r) = "propose", work \in Works,
           NEW kind, NEW c, NEW period,
           RunPeriod(kind, c, period, 0, work.requests[r].replies).output # None
    PROVE  RunPeriod(kind, c, period, 0, work.requests[r].replies).output \in Ideas
  <1> DEFINE replies == work.requests[r].replies
             asked == {i \in 1 .. ValidationRetries + 1 : \A j \in 1 .. i - 1 : replies[j].kind = "malformed"}
             i == CHOOSE i \in asked : \A j \in asked : j <= i
  <1>1. /\ ValidationRetries \in Nat
        /\ \A n \in 1 .. ValidationRetries + 1 :
              (\A m \in 1 .. n - 1 : replies[m].kind = "malformed") => n \in DOMAIN replies
        /\ \A n \in DOMAIN replies : replies[n].kind = "valid" => replies[n].proposals \in Ideas
    BY WorksAssumption DEF WorksAssumption, Made, Do
  <1>2. 1 \in asked /\ asked \in SUBSET (1 .. ValidationRetries + 1) /\ ValidationRetries + 1 \in Nat
    BY <1>1
  <1>3. i \in asked
    BY <1>2, Greatest
  <1>4. i \in DOMAIN replies
    BY <1>1, <1>3
  <1>5. Reviewed(replies).output \in Ideas \cup {None}
    BY <1>1, <1>4 DEF Reviewed
  <1>6. RunPeriod(kind, c, period, 0, replies).output \in {Reviewed(replies).output, None}
    BY DEF RunPeriod
  <1> QED BY <1>5, <1>6

\* The versions a proposal may be given next
Revisions(p) == UNION {Lifecycle!Versions(old) : old \in past[p]}

\* Whatever the writer does, the proposals are the dashboard's.
LEMMA HandleLeavesProposals ==
    ASSUME NEW kind, NEW c, "proposals" \in DOMAIN c, NEW e
    PROVE  "proposals" \in DOMAIN Handle(kind, c, e) /\ Handle(kind, c, e).proposals = c.proposals
  <1>1. CASE ~ e.known
    BY <1>1 DEF Handle
  <1>2. CASE e.known /\ e.type = "trade"
    <2>1. Handle(kind, c, e) \in {WriteTradeMem(c, e.rec), WriteTradeDb(c, e.rec)}
      BY <1>2 DEF Handle, WriteTrade
    <2> QED BY <2>1 DEF WriteTradeMem, WriteTradeDb
  <1>3. CASE e.known /\ e.type = "close"
    <2>1. PICK id, updates : Handle(kind, c, e) \in {c, UpdateTradeMem(c, id, updates), UpdateTradeDb(c, id, updates)}
      BY <1>3 DEF Handle, UpdateTrade
    <2> QED BY <2>1 DEF UpdateTradeMem, UpdateTradeDb
  <1>4. CASE e.known /\ e.type \in {"snapshot", "order", "decision"}
    <2>1. Handle(kind, c, e) \in {WriteSnapshotMem(c, e.rec), WriteSnapshotDb(c, e.rec),
                                  WriteOrderMem(c, e.rec), WriteOrderDb(c, e.rec),
                                  WriteDecisionMem(c, e.rec), WriteDecisionDb(c, e.rec)}
      BY <1>4 DEF Handle, Record
    <2> QED BY <2>1 DEF WriteSnapshotMem, WriteSnapshotDb, WriteOrderMem, WriteOrderDb,
                        WriteDecisionMem, WriteDecisionDb
  <1>5. CASE e.known /\ e.type \notin {"trade", "close", "snapshot", "order", "decision"}
    BY <1>5 DEF Handle
  <1> QED BY <1>1, <1>2, <1>3, <1>4, <1>5

\* The proposals as the dashboard's store has them
Table == Records.proposals
Subject(r) == work.requests[r].proposal

Stores ==
    /\ work \in Works
    /\ backend = [p \in {"writer", "dashboard"} |-> backend[p]]
    /\ backend["dashboard"] \in {"mem", "db"}
    /\ mem = [p \in {"writer", "dashboard"} |-> mem[p]]
    /\ "proposals" \in DOMAIN db /\ "proposals" \in DOMAIN mem["dashboard"]

\* What is stored of a proposal is the last of the versions it has had.
Rows ==
    /\ past = [p \in Proposals |-> past[p]]
    /\ \A p \in Proposals :
        /\ past[p] \subseteq {v \in ProposalRows : v.id = p}
        /\ p \in DOMAIN Table <=> past[p] # {}
        /\ p \in DOMAIN Table => Table[p] \in past[p]

\* A request holds a version the proposal has had, then a revision of one; after the check in the
\* database the revision follows some version, though the row may have changed since.
Copies ==
    /\ pc = [r \in Made |-> pc[r]] /\ copy = [r \in Made |-> copy[r]]
    /\ \A r \in Made :
        /\ pc[r] \in {"test", "put", "replace"} => Subject(r) \in Proposals
        /\ pc[r] = "test" => copy[r] \in past[Subject(r)]
        /\ pc[r] \in {"put", "replace"} => copy[r] \in Revisions(Subject(r))
        /\ pc[r] = "replace" =>
              /\ backend["dashboard"] = "db"
              /\ \E seen \in past[Subject(r)] : copy[r].status \in Transitions[seen.status]

ProposalInv == Stores /\ Rows /\ Copies

\* The transitions the stores allow are those of the lifecycle.
LEMMA TransitionsFollow ==
    ASSUME NEW old \in DOMAIN Transitions, NEW new \in Transitions[old]
    PROVE  new \in DOMAIN Transitions /\ Lifecycle!Follows(old, new)
  BY DEF Transitions, Lifecycle!Follows, Lifecycle!Final

LEMMA RevisionIsARow ==
    ASSUME Rows, NEW p \in Proposals, NEW v \in Revisions(p)
    PROVE  v \in ProposalRows /\ v.id = p /\ past[p] # {}
  <1>1. PICK old \in past[p] : v \in Lifecycle!Versions(old)
    BY DEF Revisions
  <1>2. old \in ProposalRows /\ old.id = p
    BY DEF Rows
  <1>3. CASE \E result \in Results : v = Lifecycle!WithResult(old, result)
    BY <1>2, <1>3 DEF Lifecycle!WithResult, ProposalRows, Transitions
  <1>4. CASE \E status \in Lifecycle!Final, operator \in Operators : v = Lifecycle!WithDecision(old, status, operator)
    BY <1>2, <1>4 DEF Lifecycle!WithDecision, Lifecycle!Final, ProposalRows, Transitions
  <1> QED BY <1>1, <1>3, <1>4 DEF Lifecycle!Versions

\* A request goes on; its row, if it holds one, is no longer wanted.
LEMMA CopiesKept ==
    ASSUME Rows, Copies, UNCHANGED <<work, copy>>, backend'["dashboard"] = backend["dashboard"],
           \A p \in Proposals : past[p] \subseteq past'[p],
           pc' = [r \in Made |-> pc'[r]],
           \A r \in Made : pc'[r] = pc[r] \/ pc'[r] \notin {"test", "put", "replace"}
    PROVE  Copies'
  <1>1. \A p \in Proposals : Revisions(p) \subseteq Revisions(p)'
    BY DEF Revisions
  <1> QED BY <1>1 DEF Copies, Made, Subject

\* A step after which the table is as it was, stutters in the lifecycle.
LEMMA TableKept ==
    ASSUME ProposalInv, Stores', Copies', past' = past, Table' = Table,
           backend'["dashboard"] = backend["dashboard"]
    PROVE  ProposalInv' /\ UNCHANGED Lifecycle!lifecycleVars
  <1>1. Rows'
    BY DEF ProposalInv, Rows
  <1>2. \A p \in Proposals : ProposalOf(Records, p)' = ProposalOf(Records, p)
    BY DEF ProposalOf, Table
  <1> QED BY <1>1, <1>2 DEF ProposalInv, Lifecycle!lifecycleVars

\* A step that touches no store and no row
LEMMA OthersKeepProposals ==
    ASSUME ProposalInv, UNCHANGED <<work, backend, db, mem, copy, past>>,
           pc' = [r \in Made |-> pc'[r]],
           \A r \in Made : pc'[r] = pc[r] \/ pc'[r] \notin {"test", "put", "replace"}
    PROVE  ProposalInv' /\ UNCHANGED Lifecycle!lifecycleVars
  <1>1. Stores' /\ Table' = Table
    BY DEF ProposalInv, Stores, Table, Records, Content
  <1>2. Copies'
    BY CopiesKept DEF ProposalInv
  <1> QED BY <1>1, <1>2, TableKept

LEMMA SetContentOfDashboard ==
    ASSUME Stores, NEW c, "proposals" \in DOMAIN c, SetContent("dashboard", c), UNCHANGED <<work, backend>>
    PROVE  Stores' /\ Table' = c.proposals
  BY DEF Stores, SetContent, Table, Records, Content

LEMMA SetContentOfWriter ==
    ASSUME Stores, NEW c, "proposals" \in DOMAIN c, c.proposals = Content("writer").proposals,
           SetContent("writer", c), UNCHANGED <<work, backend>>
    PROVE  Stores' /\ Table' = Table
  BY DEF Stores, SetContent, Table, Records, Content

\* A version is stored, in the table and in the history.
LEMMA RowWritten ==
    ASSUME ProposalInv, Stores', Copies', UNCHANGED backend,
           NEW p \in Proposals, NEW v \in ProposalRows, v.id = p, Stored(p, v),
           DOMAIN Table' = DOMAIN Table \cup {p},
           \A q \in DOMAIN Table' : Table'[q] = IF q = p THEN v ELSE Table[q]
    PROVE  ProposalInv' /\ Lifecycle!Write(p, v)
  <1>1. \A q \in Proposals : past'[q] = IF q = p THEN past[p] \cup {v} ELSE past[q]
    BY DEF ProposalInv, Rows, Stored
  <1>2. past' = [q \in Proposals |-> past'[q]]
    BY DEF ProposalInv, Rows, Stored
  <1>3. Rows'
    BY <1>1, <1>2 DEF ProposalInv, Rows
  <1>4. \A q \in Proposals :
          ProposalOf(Records, q)' = IF q = p THEN v ELSE ProposalOf(Records, q)
    BY DEF ProposalOf, Table
  <1>5. Lifecycle!Write(p, v)
    BY <1>4 DEF Lifecycle!Write, Stored
  <1> QED BY <1>3, <1>5 DEF ProposalInv

\* What is stored is a row, and None is not.
LEMMA RowIsPresent ==
    ASSUME Rows, NEW p \in Proposals
    PROVE  /\ ProposalOf(Records, p) = None <=> p \notin DOMAIN Table
           /\ p \in DOMAIN Table => ProposalOf(Records, p) = Table[p] /\ Table[p] \in past[p]
  BY WorksAssumption DEF Rows, ProposalOf, Table, WorksAssumption

LEMMA ProposeFollows ==
    ASSUME ProposalInv, NEW r \in Made, Propose(r)
    PROVE  ProposalInv' /\ [Lifecycle!Next]_Lifecycle!lifecycleVars
  <1> DEFINE p == Subject(r)
             found == RunPeriod(backend["dashboard"], Records,
                                work.requests[r].period, 0, work.requests[r].replies).output
             new == BuildProposal(p, found)
  <1>1. UNCHANGED <<work, backend, copy>> /\ pc' = [q \in Made |-> pc'[q]]
    BY DEF Propose, OnlyProposals, NoAuth, Raises, Goes, ProposalInv, Copies
  <1>2. \A q \in Made : pc'[q] = pc[q] \/ pc'[q] \notin {"test", "put", "replace"}
    BY DEF Propose, Raises, Goes, ProposalInv, Copies
  <1>3. CASE UNCHANGED <<db, mem, past>>
    BY <1>1, <1>2, <1>3, OthersKeepProposals
  <1>4. CASE ~ UNCHANGED <<db, mem, past>>
    <2>1. /\ found # None /\ Row(r) = None /\ Stored(p, new)
          /\ SetContent("dashboard", AddProposal(backend["dashboard"], Records, new))
      BY <1>4 DEF Propose, Raises, Subject
    <2>2. p \in Proposals /\ found \in Ideas
      BY <2>1, ReviewFindsAnIdea, WorksAssumption DEF Propose, ProposalInv, Stores, WorksAssumption, Made, Do, Subject
    <2> HIDE DEF found
    <2>3. new \in ProposalRows /\ new.id = p
      BY <2>2 DEF BuildProposal, ProposalRows, Transitions
    <2>4. p \notin DOMAIN Table /\ past[p] = {}
      BY <2>1, <2>2, RowIsPresent DEF ProposalInv, Row, Subject, Rows
    <2>5. "proposals" \in DOMAIN Records
      BY DEF ProposalInv, Stores, Records, Content
    <2> HIDE DEF new
    <2>6. AddProposal(backend["dashboard"], Records, new)
            = [Records EXCEPT !.proposals = Insert(Table, new)]
      BY DEF AddProposal, AddProposalMem, AddProposalDb, Table
    <2>7. Stores' /\ Table' = Insert(Table, new)
      BY <1>1, <2>1, <2>5, <2>6, SetContentOfDashboard DEF ProposalInv
    <2>8. /\ DOMAIN Table' = DOMAIN Table \cup {p}
          /\ \A q \in DOMAIN Table' : Table'[q] = IF q = p THEN new ELSE Table[q]
      <3>1. Insert(Table, new) = [q \in DOMAIN Table \cup {p} |-> IF q \in DOMAIN Table THEN Table[q] ELSE new]
        BY <2>3 DEF Insert
      <3> QED BY <2>4, <2>7, <3>1
    <2>9. Copies'
      <3>1. \A q \in Proposals : past[q] \subseteq past'[q]
        BY <2>1 DEF Stored, ProposalInv, Rows
      <3> QED BY <1>1, <1>2, <3>1, CopiesKept DEF ProposalInv
    <2>10. ProposalInv' /\ Lifecycle!Write(p, new)
      BY <1>1, <2>1, <2>2, <2>3, <2>7, <2>8, <2>9, RowWritten
    <2>11. [q \in Proposals |-> ProposalOf(Records, q)]'[p] = new
      BY <2>2, <2>10 DEF Lifecycle!Write
    <2>12. new # None /\ Lifecycle!Fresh(new)
      BY <2>3, WorksAssumption DEF WorksAssumption, new, BuildProposal, Lifecycle!Fresh
    <2>13. Lifecycle!Propose(p)
      BY <2>2, <2>4, <2>10, <2>11, <2>12 DEF Lifecycle!Propose, Lifecycle!Written
    <2> QED BY <2>2, <2>10, <2>13 DEF Lifecycle!Next
  <1> QED BY <1>3, <1>4

LEMMA ReadForDecisionFollows ==
    ASSUME ProposalInv, NEW r \in Made, ReadForDecision(r)
    PROVE  ProposalInv' /\ UNCHANGED Lifecycle!lifecycleVars
  <1>1. UNCHANGED <<work, backend, db, mem, past>> /\ pc' = [q \in Made |-> pc'[q]]
    BY DEF ReadForDecision, OnlyProposals, NoAuth, Raises, Goes, ProposalInv, Copies
  <1>2. CASE UNCHANGED copy /\ pc'[r] = "refused"
    <2>1. \A q \in Made : pc'[q] = pc[q] \/ pc'[q] \notin {"test", "put", "replace"}
      BY <1>2 DEF ReadForDecision, Raises, Goes, ProposalInv, Copies
    <2> QED BY <1>1, <1>2, <2>1, OthersKeepProposals
  <1>3. CASE ~ (UNCHANGED copy /\ pc'[r] = "refused")
    <2> DEFINE status == IF Do(r) = "approve" THEN "approved" ELSE "rejected"
               new == Decided(Row(r), status, work.requests[r].operator)
    <2>1. Row(r) # None /\ Goes(r, "put") /\ copy' = [copy EXCEPT ![r] = new]
      BY <1>3 DEF ReadForDecision, Raises, Goes, ProposalInv, Copies
    <2>2. Subject(r) \in Proposals /\ work.requests[r].operator \in Operators
      BY WorksAssumption DEF WorksAssumption, ReadForDecision, ProposalInv, Stores, Made, Do, Subject
    <2>3. Row(r) \in past[Subject(r)]
      BY <2>1, <2>2, RowIsPresent DEF ProposalInv, Row, Subject
    <2>4. new \in Lifecycle!Versions(Row(r))
      <3>1. new = Lifecycle!WithDecision(Row(r), status, work.requests[r].operator)
        BY DEF Decided, Lifecycle!WithDecision
      <3>2. status \in Lifecycle!Final
        BY DEF Lifecycle!Final
      <3> HIDE DEF new, status
      <3> QED BY <2>2, <3>1, <3>2 DEF Lifecycle!Versions
    <2> HIDE DEF new
    <2>5. new \in Revisions(Subject(r))
      BY <2>3, <2>4 DEF Revisions
    <2>6. Stores' /\ Table' = Table
      BY <1>1 DEF ProposalInv, Stores, Table, Records, Content
    <2>7. \A p : Revisions(p)' = Revisions(p)
      BY <1>1 DEF Revisions
    <2>8. Copies'
      BY <1>1, <2>1, <2>2, <2>5, <2>7 DEF ProposalInv, Copies, Made, Subject, Goes
    <2> QED BY <1>1, <2>6, <2>8, TableKept
  <1> QED BY <1>2, <1>3

LEMMA ReadForTestFollows ==
    ASSUME ProposalInv, NEW r \in Made, ReadForTest(r)
    PROVE  ProposalInv' /\ UNCHANGED Lifecycle!lifecycleVars
  <1>1. UNCHANGED <<work, backend, db, mem, past>> /\ pc' = [q \in Made |-> pc'[q]]
    BY DEF ReadForTest, OnlyProposals, NoAuth, Raises, Goes, ProposalInv, Copies
  <1>2. CASE UNCHANGED copy /\ pc'[r] = "refused"
    <2>1. \A q \in Made : pc'[q] = pc[q] \/ pc'[q] \notin {"test", "put", "replace"}
      BY <1>2 DEF ReadForTest, Raises, Goes, ProposalInv, Copies
    <2> QED BY <1>1, <1>2, <2>1, OthersKeepProposals
  <1>3. CASE ~ (UNCHANGED copy /\ pc'[r] = "refused")
    <2>1. Row(r) # None /\ Goes(r, "test") /\ copy' = [copy EXCEPT ![r] = Row(r)]
      BY <1>3 DEF ReadForTest, Raises, Goes, ProposalInv, Copies
    <2>2. Subject(r) \in Proposals
      BY WorksAssumption DEF WorksAssumption, ReadForTest, ProposalInv, Stores, Made, Do, Subject
    <2>3. Row(r) \in past[Subject(r)]
      BY <2>1, <2>2, RowIsPresent DEF ProposalInv, Row, Subject
    <2>4. Stores' /\ Table' = Table
      BY <1>1 DEF ProposalInv, Stores, Table, Records, Content
    <2>5. \A p : Revisions(p)' = Revisions(p)
      BY <1>1 DEF Revisions
    <2>6. Copies'
      BY <1>1, <2>1, <2>2, <2>3, <2>5 DEF ProposalInv, Copies, Made, Subject, Goes
    <2> QED BY <1>1, <2>4, <2>6, TableKept
  <1> QED BY <1>2, <1>3

LEMMA TestFollows ==
    ASSUME ProposalInv, NEW r \in Made, Test(r)
    PROVE  ProposalInv' /\ UNCHANGED Lifecycle!lifecycleVars
  <1>1. UNCHANGED <<work, backend, db, mem, past>> /\ pc' = [q \in Made |-> pc'[q]]
    BY DEF Test, OnlyProposals, NoAuth, Goes, ProposalInv, Copies
  <1>2. CASE UNCHANGED copy /\ Goes(r, "done")
    <2>1. \A q \in Made : pc'[q] = pc[q] \/ pc'[q] \notin {"test", "put", "replace"}
      BY <1>2 DEF Goes, ProposalInv, Copies
    <2> QED BY <1>1, <1>2, <2>1, OthersKeepProposals
  <1>3. CASE ~ (UNCHANGED copy /\ Goes(r, "done"))
    <2>1. PICK result \in Results : Goes(r, "put") /\ copy' = [copy EXCEPT ![r] = Tested(copy[r], result)]
      BY <1>3 DEF Test
    <2>2. Subject(r) \in Proposals /\ copy[r] \in past[Subject(r)]
      BY DEF Test, ProposalInv, Copies
    <2>3. Tested(copy[r], result) \in Lifecycle!Versions(copy[r])
      <3>1. Tested(copy[r], result) = Lifecycle!WithResult(copy[r], result)
        BY DEF Tested, Lifecycle!WithResult
      <3> QED BY <3>1 DEF Lifecycle!Versions
    <2>4. Tested(copy[r], result) \in Revisions(Subject(r))
      BY <2>2, <2>3 DEF Revisions
    <2>5. Stores' /\ Table' = Table
      BY <1>1 DEF ProposalInv, Stores, Table, Records, Content
    <2>6. \A p : Revisions(p)' = Revisions(p)
      BY <1>1 DEF Revisions
    <2>7. Copies'
      BY <1>1, <2>1, <2>2, <2>4, <2>6 DEF ProposalInv, Copies, Made, Subject, Goes
    <2> QED BY <1>1, <2>5, <2>7, TableKept
  <1> QED BY <1>2, <1>3

\* A request replaces the row by its revision.
LEMMA ReplaceFollows ==
    ASSUME ProposalInv, NEW r \in Made, NEW p \in Proposals, p = Subject(r), copy[r] \in Revisions(p),
           SetContent("dashboard", Replace(Records, copy[r])), Stored(copy[r].id, copy[r]),
           Goes(r, "done"), UNCHANGED <<work, backend, copy>>,
           \E seen \in Lifecycle!Checked(p) : copy[r].status \in Transitions[seen.status]
    PROVE  ProposalInv' /\ Lifecycle!Revise(p)
  <1> DEFINE v == copy[r]
  <1>1. v \in ProposalRows /\ v.id = p /\ past[p] # {}
    BY RevisionIsARow DEF ProposalInv
  <1>2. p \in DOMAIN Table
    BY <1>1 DEF ProposalInv, Rows
  <1> DEFINE c == Replace(Records, v)
  <1>3. "proposals" \in DOMAIN c /\ c.proposals = [Table EXCEPT ![p] = v]
    BY <1>1 DEF ProposalInv, Stores, Records, Content, Replace, Table
  <1>4. Stores' /\ Table' = [Table EXCEPT ![p] = v]
    <2> HIDE DEF c
    <2> QED BY <1>3, SetContentOfDashboard DEF ProposalInv, c
  <1>5. DOMAIN Table' = DOMAIN Table \cup {p} /\ \A q \in DOMAIN Table' : Table'[q] = IF q = p THEN v ELSE Table[q]
    BY <1>2, <1>4
  <1>6. Copies'
    <2>1. \A q \in Proposals : past[q] \subseteq past'[q]
      BY <1>1 DEF Stored, ProposalInv, Rows
    <2>2. pc' = [q \in Made |-> pc'[q]] /\ \A q \in Made : pc'[q] = pc[q] \/ pc'[q] = "done"
      BY DEF Goes, ProposalInv, Copies
    <2> QED BY <2>1, <2>2, CopiesKept DEF ProposalInv
  <1>7. ProposalInv' /\ Lifecycle!Write(p, v)
    BY <1>1, <1>4, <1>5, <1>6, RowWritten
  <1>8. PICK seen \in Lifecycle!Checked(p) : v.status \in Transitions[seen.status]
    OBVIOUS
  <1>9. seen \in past[p]
    BY <1>2, RowIsPresent DEF Lifecycle!Checked, ProposalInv
  <1>10. Lifecycle!Follows(seen.status, v.status)
    BY <1>8, <1>9, TransitionsFollow DEF ProposalInv, Rows, ProposalRows
  <1>11. PICK old \in past[p] : v \in Lifecycle!Versions(old)
    BY DEF Revisions
  <1> QED BY <1>1, <1>7, <1>8, <1>10, <1>11 DEF Lifecycle!Revise, Lifecycle!Written

LEMMA PutInMemoryFollows ==
    ASSUME ProposalInv, NEW r \in Made, PutInMemory(r)
    PROVE  ProposalInv' /\ [Lifecycle!Next]_Lifecycle!lifecycleVars
  <1>1. UNCHANGED <<work, backend, copy>>
    BY DEF PutInMemory, OnlyProposals, NoAuth
  <1>2. CASE ~ MayUpdateMem(Records, copy[r])
    <2>1. UNCHANGED <<db, mem, past>> /\ Goes(r, "refused")
      BY <1>2 DEF PutInMemory
    <2>2. pc' = [q \in Made |-> pc'[q]] /\ \A q \in Made : pc'[q] = pc[q] \/ pc'[q] = "refused"
      BY <2>1 DEF Goes, ProposalInv, Copies
    <2> QED BY <1>1, <2>1, <2>2, OthersKeepProposals
  <1>3. CASE MayUpdateMem(Records, copy[r])
    <2>1. Subject(r) \in Proposals /\ copy[r] \in Revisions(Subject(r))
      BY DEF PutInMemory, ProposalInv, Copies
    <2>2. copy[r].id = Subject(r)
      BY <2>1, RevisionIsARow DEF ProposalInv
    <2>3. Subject(r) \in DOMAIN Table /\ copy[r].status \in Transitions[Table[Subject(r)].status]
      BY <1>3, <2>2 DEF MayUpdateMem, Table
    <2>4. Lifecycle!Checked(Subject(r)) = {ProposalOf(Records, Subject(r))}
      BY <2>1 DEF PutInMemory, Lifecycle!Checked
    <2>5. ProposalOf(Records, Subject(r)) = Table[Subject(r)]
      BY <2>3 DEF ProposalOf, Table
    <2>6. \E seen \in Lifecycle!Checked(Subject(r)) : copy[r].status \in Transitions[seen.status]
      BY <2>3, <2>4, <2>5
    <2>7. /\ SetContent("dashboard", Replace(Records, copy[r]))
          /\ Stored(copy[r].id, copy[r]) /\ Goes(r, "done")
      BY <1>3 DEF PutInMemory
    <2>8. ProposalInv' /\ Lifecycle!Revise(Subject(r))
      BY <1>1, <2>1, <2>6, <2>7, ReplaceFollows
    <2> QED BY <2>1, <2>8 DEF Lifecycle!Next
  <1> QED BY <1>2, <1>3

LEMMA CheckInDbFollows ==
    ASSUME ProposalInv, NEW r \in Made, CheckInDb(r)
    PROVE  ProposalInv' /\ UNCHANGED Lifecycle!lifecycleVars
  <1>1. UNCHANGED <<work, backend, db, mem, copy, past>> /\ pc' = [q \in Made |-> pc'[q]]
    BY DEF CheckInDb, OnlyProposals, NoAuth, Raises, Goes, ProposalInv, Copies
  <1>2. CASE Goes(r, "refused")
    <2>1. \A q \in Made : pc'[q] = pc[q] \/ pc'[q] = "refused"
      BY <1>2 DEF Goes, ProposalInv, Copies
    <2> QED BY <1>1, <2>1, OthersKeepProposals
  <1>3. CASE Goes(r, "replace") /\ MayUpdateDb(Row(r), copy[r])
    <2>1. Subject(r) \in Proposals /\ copy[r] \in Revisions(Subject(r))
      BY DEF CheckInDb, ProposalInv, Copies
    <2>2. Row(r) \in past[Subject(r)] /\ copy[r].status \in Transitions[Row(r).status]
      BY <1>3, <2>1, RowIsPresent DEF MayUpdateDb, ProposalInv, Row, Subject
    <2>3. Stores' /\ Table' = Table
      BY <1>1 DEF ProposalInv, Stores, Table, Records, Content
    <2>4. \A p : Revisions(p)' = Revisions(p)
      BY <1>1 DEF Revisions
    <2>5. Copies'
      BY <1>1, <1>3, <2>1, <2>2, <2>4 DEF CheckInDb, ProposalInv, Copies, Made, Subject, Goes
    <2> QED BY <1>1, <2>3, <2>5, TableKept
  <1> QED BY <1>2, <1>3 DEF CheckInDb, Raises

LEMMA ReplaceInDbFollows ==
    ASSUME ProposalInv, NEW r \in Made, ReplaceInDb(r)
    PROVE  ProposalInv' /\ [Lifecycle!Next]_Lifecycle!lifecycleVars
  <1>1. UNCHANGED <<work, backend, copy>>
    BY DEF ReplaceInDb, OnlyProposals, NoAuth, Raises
  <1>2. CASE Raises(r)
    <2>1. pc' = [q \in Made |-> pc'[q]] /\ \A q \in Made : pc'[q] = pc[q] \/ pc'[q] = "refused"
      BY <1>2 DEF Raises, Goes, ProposalInv, Copies
    <2> QED BY <1>1, <1>2, <2>1, OthersKeepProposals DEF Raises
  <1>3. CASE ~ Raises(r)
    <2>1. Subject(r) \in Proposals /\ copy[r] \in Revisions(Subject(r))
      BY DEF ReplaceInDb, ProposalInv, Copies
    <2>2. Lifecycle!Checked(Subject(r)) = past[Subject(r)]
      BY DEF ReplaceInDb, ProposalInv, Copies, Lifecycle!Checked
    <2>3. \E seen \in Lifecycle!Checked(Subject(r)) : copy[r].status \in Transitions[seen.status]
      BY <2>2 DEF ReplaceInDb, ProposalInv, Copies
    <2>4. /\ SetContent("dashboard", Replace(Records, copy[r]))
          /\ Stored(copy[r].id, copy[r]) /\ Goes(r, "done")
      BY <1>3 DEF ReplaceInDb
    <2>5. ProposalInv' /\ Lifecycle!Revise(Subject(r))
      BY <1>1, <2>1, <2>3, <2>4, ReplaceFollows
    <2> QED BY <2>1, <2>5 DEF Lifecycle!Next
  <1> QED BY <1>2, <1>3

\* Requests, sessions and the feed do not touch the proposals.
LEMMA HandlerFollows ==
    ASSUME ProposalInv, NEW r \in Made, Handler(r)
    PROVE  ProposalInv' /\ [Lifecycle!Next]_Lifecycle!lifecycleVars
  <1>1. ASSUME UNCHANGED <<work, backend, db, mem, copy, past>>,
               UNCHANGED pc \/ \E to \in {"done", "refused", "found", "run"} : Goes(r, to)
        PROVE  ProposalInv' /\ UNCHANGED Lifecycle!lifecycleVars
    <2>1. pc' = [q \in Made |-> pc'[q]]
      BY <1>1 DEF Goes, ProposalInv, Copies
    <2>2. \A q \in Made : pc'[q] = pc[q] \/ pc'[q] \notin {"test", "put", "replace"}
      BY <1>1 DEF Goes, ProposalInv, Copies
    <2> QED BY <1>1, <2>1, <2>2, OthersKeepProposals
  <1>2. CASE Login(r) \/ Logout(r) \/ FindSession(r) \/ RefreshSession(r)
    BY <1>1, <1>2 DEF Login, Logout, FindSession, RefreshSession, OnlyAuth, journalVars
  <1>3. CASE Toggle(r) \/ ToggleMode(r) \/ OpenSocket(r) \/ StartBacktest(r)
    BY <1>1, <1>3 DEF Toggle, ToggleMode, OpenSocket, StartBacktest, NoAuth
  <1>4. CASE EndBacktest(r)
    BY <1>1, <1>4 DEF EndBacktest, journalVars
  <1>5. CASE Propose(r)
    BY <1>5, ProposeFollows
  <1>6. CASE ReadForDecision(r) \/ ReadForTest(r) \/ Test(r) \/ CheckInDb(r)
    BY <1>6, ReadForDecisionFollows, ReadForTestFollows, TestFollows, CheckInDbFollows
  <1>7. CASE PutInMemory(r) \/ ReplaceInDb(r)
    BY <1>7, PutInMemoryFollows, ReplaceInDbFollows
  <1> QED BY <1>2, <1>3, <1>4, <1>5, <1>6, <1>7 DEF Handler

\* The writer shares the tables or has a store of its own; either way the
\* proposals stay.
LEMMA WriterFollows ==
    ASSUME ProposalInv, WriteEvent \/ WriterRestarts
    PROVE  ProposalInv' /\ UNCHANGED Lifecycle!lifecycleVars
  <1>1. UNCHANGED <<work, past, pc, copy>> /\ backend'["dashboard"] = backend["dashboard"]
    BY DEF WriteEvent, WriterRestarts, ProposalInv, Stores
  <1>2. Stores' /\ Table' = Table
    <2>1. CASE WriteEvent /\ ~ Answers("writer")
      BY <2>1 DEF WriteEvent, ProposalInv, Stores, Table, Records, Content
    <2>2. CASE WriteEvent /\ Answers("writer") /\ backend["writer"] = "mem"
      BY <2>2 DEF WriteEvent, ProposalInv, Stores, Table, Records, Content, SetContent
    <2>3. CASE WriteEvent /\ Answers("writer") /\ backend["writer"] # "mem"
      <3> DEFINE c == Handle(backend["writer"], Content("writer"), Head(inbox))
      <3>1. "proposals" \in DOMAIN c /\ c.proposals = Content("writer").proposals
        BY <2>3, HandleLeavesProposals DEF ProposalInv, Stores, Records, Content
      <3>2. SetContent("writer", c) /\ UNCHANGED <<work, backend>>
        BY <2>3 DEF WriteEvent
      <3> HIDE DEF c
      <3> QED BY <3>1, <3>2, SetContentOfWriter DEF ProposalInv
    <2>4. CASE WriterRestarts
      BY <2>4 DEF WriterRestarts, ProposalInv, Stores, Table, Records, Content
    <2> QED BY <2>1, <2>2, <2>3, <2>4
  <1>3. Copies'
    BY <1>1, CopiesKept DEF ProposalInv, Copies
  <1> QED BY <1>1, <1>2, <1>3, TableKept

LEMMA InitFollows == Init => ProposalInv /\ Lifecycle!Init
  <1> SUFFICES ASSUME Init PROVE ProposalInv /\ Lifecycle!Init
    OBVIOUS
  <1>1. /\ "proposals" \in DOMAIN EmptyJournal /\ DOMAIN EmptyJournal.proposals = {}
        /\ DOMAIN work.journal = DOMAIN EmptyJournal
        /\ \A p \in DOMAIN work.journal.proposals :
              work.journal.proposals[p] \in {BuildProposal(p, idea) : idea \in Ideas}
    BY WorksAssumption DEF EmptyJournal, WorksAssumption, Init
  <1>2. Table = work.journal.proposals /\ Stores
    BY <1>1 DEF Init, Table, Records, Content, Stores, StoreAtStart
  <1>3. ASSUME NEW p \in Proposals, p \in DOMAIN Table
        PROVE  Table[p] \in ProposalRows /\ Table[p].id = p /\ Lifecycle!Fresh(Table[p])
    <2>1. PICK idea \in Ideas : Table[p] = BuildProposal(p, idea)
      BY <1>1, <1>2, <1>3
    <2> QED BY <2>1 DEF BuildProposal, ProposalRows, Transitions, Lifecycle!Fresh
  <1>4. \A p \in Proposals : past[p] = IF p \in DOMAIN Table THEN {Table[p]} ELSE {}
    BY <1>2 DEF Init
  <1>5. past = [p \in Proposals |-> past[p]]
    BY DEF Init
  <1>6. Rows
    BY <1>3, <1>4, <1>5 DEF Rows
  <1>7. Copies
    BY DEF Init, Copies, Made
  <1>8. \A p \in Proposals : p \in DOMAIN Table => ProposalOf(Records, p) = Table[p]
    BY DEF ProposalOf, Table
  <1>9. Lifecycle!Init
    BY <1>3, <1>4, <1>5, <1>8 DEF Lifecycle!Init, Lifecycle!Written
  <1> QED BY <1>2, <1>6, <1>7, <1>9 DEF ProposalInv

LEMMA StepFollows ==
    ASSUME ProposalInv, [Next]_vars
    PROVE  ProposalInv' /\ [Lifecycle!Next]_Lifecycle!lifecycleVars
  <1>1. ASSUME UNCHANGED <<work, backend, db, mem, copy, past, pc>>
        PROVE  ProposalInv' /\ UNCHANGED Lifecycle!lifecycleVars
    <2>1. pc' = [q \in Made |-> pc'[q]] /\ \A q \in Made : pc'[q] = pc[q]
      BY <1>1 DEF ProposalInv, Copies
    <2> QED BY <1>1, <2>1, OthersKeepProposals
  <1>2. CASE UNCHANGED vars
    BY <1>1, <1>2 DEF vars, journalVars
  <1>3. CASE Outage \/ Feed
    BY <1>1, <1>3 DEF Outage, Feed, journalVars
  <1>4. CASE WriteEvent \/ WriterRestarts
    BY <1>4, WriterFollows
  <1>5. ASSUME NEW s \in sessions, Expires(s) PROVE ProposalInv' /\ UNCHANGED Lifecycle!lifecycleVars
    BY <1>1, <1>5 DEF Expires, OnlyAuth, journalVars
  <1>6. ASSUME NEW r \in Made, Handler(r)
        PROVE  ProposalInv' /\ [Lifecycle!Next]_Lifecycle!lifecycleVars
    BY <1>6, HandlerFollows
  <1> QED BY <1>2, <1>3, <1>4, <1>5, <1>6 DEF Next

\* The dashboard implements the lifecycle of a proposal: its stores, its
\* requests in any order, and a database that goes and comes back.
THEOREM DashboardFollowsLifecycle == Spec => FollowsLifecycle
  <1> QED BY InitFollows, StepFollows, PTL DEF Spec, FollowsLifecycle, Lifecycle!Spec

-----------------------------------------------------------------------------
\* The lifecycle itself, and so the dashboard's proposals

\* What the lifecycle's variables are here
row == [p \in Proposals |-> ProposalOf(Records, p)]
atomic == backend["dashboard"] = "mem"

\* A version has the fields a revision puts its result or decision in.
Shaped(v) == {"status", "result", "by"} \subseteq DOMAIN v /\ v.status \in Lifecycle!Statuses

\* The stored version is one of the versions the proposal has had.
Recorded ==
    /\ atomic \in BOOLEAN
    /\ row = [p \in Proposals |-> row[p]]
    /\ past = [p \in Proposals |-> past[p]]
    /\ \A p \in Proposals :
        /\ Lifecycle!Written(p) => row[p] \in past[p]
        /\ \A v \in past[p] : Shaped(v)

LEMMA FreshIsShaped == ASSUME NEW v, Lifecycle!Fresh(v) PROVE Shaped(v)
  BY DEF Lifecycle!Fresh, Shaped, Lifecycle!Statuses

\* A revision never carries the status of a new proposal.
LEMMA VersionIsShaped ==
    ASSUME NEW old, Shaped(old), NEW v \in Lifecycle!Versions(old)
    PROVE  Shaped(v) /\ v.status # "proposed"
  <1>1. CASE \E result \in Results : v = Lifecycle!WithResult(old, result)
    <2>1. PICK result \in Results : v = [old EXCEPT !.status = "backtested", !.result = result]
      BY <1>1 DEF Lifecycle!WithResult
    <2>2. v.status = "backtested" /\ DOMAIN v = DOMAIN old
      BY <2>1 DEF Shaped
    <2> QED BY <2>2 DEF Shaped, Lifecycle!Statuses
  <1>2. CASE \E status \in Lifecycle!Final, operator \in Operators : v = Lifecycle!WithDecision(old, status, operator)
    <2>1. PICK status \in Lifecycle!Final, operator \in Operators :
             v = [old EXCEPT !.status = status, !.by = operator]
      BY <1>2 DEF Lifecycle!WithDecision
    <2>2. v.status = status /\ DOMAIN v = DOMAIN old
      BY <2>1 DEF Shaped
    <2> QED BY <2>2 DEF Shaped, Lifecycle!Statuses, Lifecycle!Final
  <1> QED BY <1>1, <1>2 DEF Lifecycle!Versions

LEMMA WriteRecorded ==
    ASSUME Recorded, NEW p \in Proposals, NEW v, Shaped(v), Lifecycle!Write(p, v)
    PROVE  Recorded'
  <1>1. \A q \in Proposals : row'[q] = IF q = p THEN v ELSE row[q]
    BY DEF Recorded, Lifecycle!Write, row, atomic
  <1>2. \A q \in Proposals : past'[q] = IF q = p THEN past[p] \cup {v} ELSE past[q]
    BY DEF Recorded, Lifecycle!Write, row, atomic
  <1>3. row' = [q \in Proposals |-> row'[q]] /\ past' = [q \in Proposals |-> past'[q]]
    BY DEF Recorded, Lifecycle!Write, row, atomic
  <1> QED BY <1>1, <1>2, <1>3 DEF Recorded, Lifecycle!Write, Lifecycle!Written, row, atomic

LEMMA RecordedHolds == Lifecycle!Spec => []Recorded
  <1>1. Lifecycle!Init => Recorded
    BY FreshIsShaped DEF Lifecycle!Init, Recorded, Lifecycle!Written, row, atomic
  <1>2. Recorded /\ [Lifecycle!Next]_Lifecycle!lifecycleVars => Recorded'
    <2> SUFFICES ASSUME Recorded, [Lifecycle!Next]_Lifecycle!lifecycleVars PROVE Recorded'
      OBVIOUS
    <2>1. CASE UNCHANGED Lifecycle!lifecycleVars
      BY <2>1 DEF Lifecycle!lifecycleVars, Recorded, Lifecycle!Written, row, atomic
    <2>2. ASSUME NEW p \in Proposals, Lifecycle!Propose(p) PROVE Recorded'
      BY <2>2, FreshIsShaped, WriteRecorded DEF Lifecycle!Propose, row, atomic
    <2>3. ASSUME NEW p \in Proposals, Lifecycle!Revise(p) PROVE Recorded'
      <3>1. PICK old \in past[p] : \E v \in Lifecycle!Versions(old) : Lifecycle!Write(p, v)
        BY <2>3 DEF Lifecycle!Revise, row, atomic
      <3>2. PICK v \in Lifecycle!Versions(old) : Lifecycle!Write(p, v)
        BY <3>1
      <3>3. Shaped(v)
        BY <3>1, <3>2, VersionIsShaped DEF Recorded
      <3> QED BY <3>2, <3>3, WriteRecorded
    <2> QED BY <2>1, <2>2, <2>3 DEF Lifecycle!Next
  <1> QED BY <1>1, <1>2, PTL DEF Lifecycle!Spec

\* A proposal with a decision keeps its status where the store checks and
\* writes in one step, as the store in memory does.
THEOREM LifecycleDecisionIsFinal == Lifecycle!Spec => Lifecycle!DecisionIsFinal
  <1> DEFINE Kept == \A p \in Proposals :
                atomic /\ Lifecycle!Written(p) /\ row[p].status \in Lifecycle!Final => row'[p].status = row[p].status
  <1>1. Recorded /\ [Lifecycle!Next]_Lifecycle!lifecycleVars => [Kept]_Lifecycle!lifecycleVars
    <2> SUFFICES ASSUME Recorded, Lifecycle!Next, NEW p \in Proposals,
                        atomic, Lifecycle!Written(p), row[p].status \in Lifecycle!Final
                 PROVE  row'[p].status = row[p].status
      BY DEF Lifecycle!lifecycleVars, row, atomic
    <2>1. PICK q \in Proposals : Lifecycle!Propose(q) \/ Lifecycle!Revise(q)
      BY DEF Lifecycle!Next
    <2>2. CASE q # p
      BY <2>1, <2>2 DEF Lifecycle!Propose, Lifecycle!Revise, Lifecycle!Write, Recorded, row, atomic
    <2>3. CASE q = p
      <3>1. Lifecycle!Revise(p)
        BY <2>1, <2>3 DEF Lifecycle!Propose, row, atomic
      <3>2. PICK old \in past[p] : \E v \in Lifecycle!Versions(old) :
               (\E seen \in Lifecycle!Checked(p) : Lifecycle!Follows(seen.status, v.status)) /\ Lifecycle!Write(p, v)
        BY <3>1 DEF Lifecycle!Revise, row, atomic
      <3>3. PICK v \in Lifecycle!Versions(old) :
               (\E seen \in Lifecycle!Checked(p) : Lifecycle!Follows(seen.status, v.status)) /\ Lifecycle!Write(p, v)
        BY <3>2
      <3>4. Lifecycle!Follows(row[p].status, v.status)
        BY <3>3 DEF Lifecycle!Checked, row, atomic
      <3>5. v.status = row[p].status
        BY <3>4 DEF Lifecycle!Follows, Lifecycle!Final
      <3>6. row'[p] = v
        BY <3>3 DEF Lifecycle!Write, Recorded, row, atomic
      <3> QED BY <3>5, <3>6
    <2> QED BY <2>2, <2>3
  <1> QED BY <1>1, RecordedHolds, PTL DEF Lifecycle!Spec, Lifecycle!DecisionIsFinal, row, atomic

\* On either store a proposal keeps its past and is never reopened.
THEOREM LifecycleNeverReopened == Lifecycle!Spec => Lifecycle!NeverReopened
  <1> DEFINE Kept == \A p \in Proposals : Lifecycle!Written(p) =>
                /\ past[p] \subseteq past'[p]
                /\ row[p].status # "proposed" => row'[p].status # "proposed"
  <1>1. Recorded /\ [Lifecycle!Next]_Lifecycle!lifecycleVars => [Kept]_Lifecycle!lifecycleVars
    <2> SUFFICES ASSUME Recorded, Lifecycle!Next, NEW p \in Proposals, Lifecycle!Written(p)
                 PROVE  /\ past[p] \subseteq past'[p]
                        /\ row[p].status # "proposed" => row'[p].status # "proposed"
      BY DEF Lifecycle!lifecycleVars, row, atomic
    <2>1. PICK q \in Proposals : Lifecycle!Propose(q) \/ Lifecycle!Revise(q)
      BY DEF Lifecycle!Next
    <2>2. CASE q # p
      BY <2>1, <2>2 DEF Lifecycle!Propose, Lifecycle!Revise, Lifecycle!Write, Recorded, row, atomic
    <2>3. CASE q = p
      <3>1. Lifecycle!Revise(p)
        BY <2>1, <2>3 DEF Lifecycle!Propose, row, atomic
      <3>2. PICK old \in past[p] : \E v \in Lifecycle!Versions(old) : Lifecycle!Write(p, v)
        BY <3>1 DEF Lifecycle!Revise, row, atomic
      <3>3. PICK v \in Lifecycle!Versions(old) : Lifecycle!Write(p, v)
        BY <3>2
      <3>4. v.status # "proposed"
        BY <3>3, VersionIsShaped DEF Recorded
      <3>5. row'[p] = v /\ past'[p] = past[p] \cup {v}
        BY <3>3 DEF Lifecycle!Write, Recorded, row, atomic
      <3> QED BY <3>4, <3>5
    <2> QED BY <2>2, <2>3
  <1> QED BY <1>1, RecordedHolds, PTL DEF Lifecycle!Spec, Lifecycle!NeverReopened, row, atomic

\* What was decided on a proposal stays while the dashboard's store is the one
\* in memory.
THEOREM DashboardDecisionIsFinal == Spec => Lifecycle!DecisionIsFinal
  <1> QED BY DashboardFollowsLifecycle, LifecycleDecisionIsFinal, PTL DEF FollowsLifecycle

\* On either store no request, in any order with others, forgets a version of
\* a proposal or brings one that was tested or decided back to its start.
THEOREM DashboardNeverReopened == Spec => Lifecycle!NeverReopened
  <1> QED BY DashboardFollowsLifecycle, LifecycleNeverReopened, PTL DEF FollowsLifecycle

-----------------------------------------------------------------------------
\* The journal writer

Taken == Len(work.events) - Len(inbox)
Tables == {"trades", "orders", "snapshots", "decisions", "discrepancies", "proposals"}
TradeFields == {"id", "open", "close", "tickets"}

JournalShape ==
    /\ work \in Works
    /\ backend = [p \in {"writer", "dashboard"} |-> backend[p]]
    /\ backend["writer"] \in {"mem", "db"} /\ backend["dashboard"] \in {"mem", "db"}
    /\ mem = [p \in {"writer", "dashboard"} |-> mem[p]]
    /\ DOMAIN db = Tables /\ DOMAIN mem["writer"] = Tables /\ DOMAIN mem["dashboard"] = Tables

\* The writer has taken the first events.
InboxOK(w, rest) ==
    /\ rest \in Seq(Range(w.events)) /\ Len(rest) <= Len(w.events)
    /\ \A i \in 1 .. Len(rest) : rest[i] = w.events[Len(w.events) - Len(rest) + i]

\* A trade keeps what it was opened with.
SameTrade(t, u) == t.id = u.id /\ t.open = u.open /\ t.tickets = u.tickets
FromJournal(w, t) == \E id \in DOMAIN w.journal.trades : SameTrade(t, w.journal.trades[id])
FromEvent(w, n, t) == \E i \in 1 .. n : Opens(w.events[i]) /\ SameTrade(t, w.events[i].rec)
FiledAsOpened(w, n, trades) ==
    \A id \in DOMAIN trades :
        /\ trades[id].id = id /\ TradeFields \subseteq DOMAIN trades[id]
        /\ FromJournal(w, trades[id]) \/ FromEvent(w, n, trades[id])

\* Each opening the writer has taken is in its store or known as lost.
FiledOrLost(w, n, trades, missing) ==
    \A i \in 1 .. n : Opens(w.events[i]) => w.events[i].of \in DOMAIN trades \cup missing
\* What is lost was taken, or never published in time.
LostWasTaken(w, n, missing) ==
    /\ Untraded(w.events) \subseteq missing
    /\ \A x \in missing : x \in Untraded(w.events)
                            \/ \E i \in 1 .. n : Opens(w.events[i]) /\ w.events[i].of = x

JournalInv ==
    /\ JournalShape /\ InboxOK(work, inbox)
    /\ FiledAsOpened(work, Taken, db.trades) /\ FiledAsOpened(work, Taken, mem["writer"].trades)
    /\ FiledOrLost(work, Taken, Content("writer").trades, lost) /\ LostWasTaken(work, Taken, lost)
    /\ CloseFindsItsOwn

LEMMA EventsAreASequence ==
    ASSUME NEW w \in Works
    PROVE  /\ w.events \in Seq(Range(w.events)) /\ Len(w.events) \in Nat
           /\ DOMAIN w.events = 1 .. Len(w.events)
  BY EventsAssumption DEF EventsAssumption

\* What the assumption says of an opening, and of a close after it
LEMMA OpeningIsNew ==
    ASSUME NEW w \in Works, NEW i \in DOMAIN w.events, Opens(w.events[i])
    PROVE  /\ TradeFields \subseteq DOMAIN w.events[i].rec /\ w.events[i].rec.open \in Int
           /\ w.events[i].rec.id = w.events[i].of /\ w.events[i].of \notin DOMAIN w.journal.trades
           /\ \A k \in DOMAIN w.events : Opens(w.events[k]) /\ w.events[k].of = w.events[i].of => k = i
  BY EventsAssumption DEF EventsAssumption, TradeFields

LEMMA JournalIsOld ==
    ASSUME NEW w \in Works, NEW id \in DOMAIN w.journal.trades
    PROVE  /\ TradeFields \subseteq DOMAIN w.journal.trades[id] /\ w.journal.trades[id].open \in Int
           /\ w.journal.trades[id].id = id
  BY EventsAssumption DEF EventsAssumption, TradeFields

LEMMA CloseIsOfTheNewest ==
    ASSUME NEW w \in Works, NEW i \in DOMAIN w.events, Opens(w.events[i]),
           NEW j \in DOMAIN w.events, Closes(w.events[j]), w.events[j].of = w.events[i].of, i < j
    PROVE  /\ w.events[j].ticket \in w.events[i].rec.tickets
           /\ \A id \in DOMAIN w.journal.trades :
                w.events[j].ticket \in w.journal.trades[id].tickets =>
                    w.journal.trades[id].open < w.events[i].rec.open
           /\ \A k \in 1 .. j - 1 :
                k # i /\ Opens(w.events[k]) /\ w.events[j].ticket \in w.events[k].rec.tickets =>
                    w.events[k].rec.open < w.events[i].rec.open
  <1> DEFINE earlier == {w.journal.trades[id] : id \in DOMAIN w.journal.trades}
                    \cup {w.events[k].rec : k \in {n \in 1 .. j - 1 : n # i /\ Opens(w.events[n])}}
  <1>1. /\ w.events[j].ticket \in w.events[i].rec.tickets
        /\ \A t \in earlier : w.events[j].ticket \in t.tickets => t.open < w.events[i].rec.open
    BY EventsAssumption DEF EventsAssumption
  <1> QED BY <1>1

-----------------------------------------------------------------------------
\* What the writer's handling of an event does to the trades

SameTrades(old, new) ==
    /\ DOMAIN new = DOMAIN old
    /\ \A id \in DOMAIN old :
        TradeFields \subseteq DOMAIN old[id] =>
            TradeFields \subseteq DOMAIN new[id] /\ SameTrade(new[id], old[id])
TradeAdded(old, new, rec) ==
    /\ DOMAIN new = DOMAIN old \cup {rec.id}
    /\ \A id \in DOMAIN old : id # rec.id => new[id] = old[id]
    /\ rec.id \notin DOMAIN old => new[rec.id] = rec

LEMMA UpdateKeepsTrade ==
    ASSUME NEW c, DOMAIN c = Tables, NEW id, NEW kind, NEW e
    PROVE  /\ DOMAIN UpdateTrade(kind, c, id, CloseUpdates(e)) = Tables
           /\ SameTrades(c.trades, UpdateTrade(kind, c, id, CloseUpdates(e)).trades)
  <1> DEFINE updates == CloseUpdates(e)
             new == [c EXCEPT !.trades[id] = Patch(@, updates)]
  <1>1. {"id", "open", "tickets"} \cap DOMAIN updates = {}
    BY DEF CloseUpdates
  <1> HIDE DEF updates
  <1>2. \/ UpdateTrade(kind, c, id, updates) = c
        \/ id \in DOMAIN c.trades /\ UpdateTrade(kind, c, id, updates) = new
    <2>1. \/ UpdateTradeMem(c, id, updates) = c
          \/ id \in DOMAIN c.trades /\ UpdateTradeMem(c, id, updates) = new
      BY DEF UpdateTradeMem
    <2>2. \/ UpdateTradeDb(c, id, updates) = c
          \/ id \in DOMAIN c.trades /\ UpdateTradeDb(c, id, updates) = new
      BY DEF UpdateTradeDb
    <2> HIDE DEF new
    <2> QED BY <2>1, <2>2 DEF UpdateTrade
  <1>3. SameTrades(c.trades, c.trades)
    BY DEF SameTrades, SameTrade
  <1>4. ASSUME id \in DOMAIN c.trades PROVE DOMAIN new = Tables /\ SameTrades(c.trades, new.trades)
    <2>1. DOMAIN new = Tables /\ new.trades = [c.trades EXCEPT ![id] = Patch(@, updates)]
      BY DEF Tables
    <2>2. DOMAIN new.trades = DOMAIN c.trades
      BY <2>1
    <2>3. ASSUME NEW x \in DOMAIN c.trades, TradeFields \subseteq DOMAIN c.trades[x]
          PROVE  TradeFields \subseteq DOMAIN new.trades[x] /\ SameTrade(new.trades[x], c.trades[x])
      <3>1. CASE x # id
        BY <2>1, <3>1, <2>3 DEF SameTrade
      <3>2. CASE x = id
        <4>1. new.trades[x] = Patch(c.trades[x], updates)
          BY <2>1, <3>2, <1>4
        <4>2. DOMAIN Patch(c.trades[x], updates) = DOMAIN c.trades[x]
          BY DEF Patch
        <4>3. \A f \in {"id", "open", "tickets"} : Patch(c.trades[x], updates)[f] = c.trades[x][f]
          BY <1>1, <2>3 DEF Patch, TradeFields
        <4> QED BY <2>3, <4>1, <4>2, <4>3 DEF SameTrade
      <3> QED BY <3>1, <3>2
    <2> QED BY <2>1, <2>2, <2>3 DEF SameTrades
  <1> HIDE DEF new
  <1> QED BY <1>2, <1>3, <1>4 DEF updates

LEMMA WriteAddsTrade ==
    ASSUME NEW c, DOMAIN c = Tables, NEW kind, NEW rec
    PROVE  /\ DOMAIN WriteTrade(kind, c, rec) = Tables
           /\ TradeAdded(c.trades, WriteTrade(kind, c, rec).trades, rec)
  <1>1. PICK new \in {Insert(c.trades, rec), Upsert(c.trades, rec)} :
            WriteTrade(kind, c, rec) = [c EXCEPT !.trades = new]
    BY DEF WriteTrade, WriteTradeMem, WriteTradeDb
  <1>2. TradeAdded(c.trades, new, rec)
    BY DEF TradeAdded, Insert, Upsert
  <1>3. DOMAIN [c EXCEPT !.trades = new] = Tables /\ [c EXCEPT !.trades = new].trades = new
    BY DEF Tables
  <1> QED BY <1>1, <1>2, <1>3

LEMMA RecordKeepsTrades ==
    ASSUME NEW c, DOMAIN c = Tables, NEW kind, NEW type \in {"snapshot", "order", "decision"}, NEW rec
    PROVE  DOMAIN Record(kind, c, type, rec) = Tables /\ Record(kind, c, type, rec).trades = c.trades
  <1>1. \/ \E x : Record(kind, c, type, rec) = [c EXCEPT !.snapshots = x]
        \/ \E x : Record(kind, c, type, rec) = [c EXCEPT !.orders = x]
        \/ \E x : Record(kind, c, type, rec) = [c EXCEPT !.decisions = x]
    BY DEF Record, WriteSnapshotMem, WriteSnapshotDb, WriteOrderMem, WriteOrderDb,
           WriteDecisionMem, WriteDecisionDb
  <1> QED BY <1>1 DEF Tables

LEMMA HandleFiles ==
    ASSUME NEW c, DOMAIN c = Tables, NEW kind, NEW e
    PROVE  /\ DOMAIN Handle(kind, c, e) = Tables
           /\ IF Opens(e) THEN TradeAdded(c.trades, Handle(kind, c, e).trades, e.rec)
              ELSE SameTrades(c.trades, Handle(kind, c, e).trades)
  <1>1. SameTrades(c.trades, c.trades)
    BY DEF SameTrades, SameTrade
  <1>2. CASE ~ e.known
    BY <1>1, <1>2 DEF Handle, Opens
  <1>3. CASE e.known /\ e.type = "trade"
    BY <1>3, WriteAddsTrade DEF Handle, Opens
  <1>4. CASE e.known /\ e.type = "close"
    <2>1. PICK id : Handle(kind, c, e) \in {c, UpdateTrade(kind, c, id, CloseUpdates(e))}
      BY <1>4 DEF Handle
    <2> QED BY <1>1, <1>4, <2>1, UpdateKeepsTrade DEF Opens
  <1>5. CASE e.known /\ e.type \in {"snapshot", "order", "decision"}
    <2>1. Handle(kind, c, e) = Record(kind, c, e.type, e.rec)
      BY <1>5 DEF Handle
    <2> QED BY <1>1, <1>5, <2>1, RecordKeepsTrades DEF Opens
  <1>6. CASE e.known /\ e.type \notin {"trade", "close", "snapshot", "order", "decision"}
    BY <1>1, <1>6 DEF Handle, Opens
  <1> QED BY <1>2, <1>3, <1>4, <1>5, <1>6

LEMMA LaterFiled ==
    ASSUME NEW w, NEW n \in Nat, NEW m \in Nat, n <= m, NEW trades, FiledAsOpened(w, n, trades)
    PROVE  FiledAsOpened(w, m, trades)
  BY DEF FiledAsOpened, FromEvent

LEMMA OpeningIsNotFiled ==
    ASSUME NEW w \in Works, NEW n \in Nat, n + 1 \in DOMAIN w.events, Opens(w.events[n + 1]),
           NEW trades, FiledAsOpened(w, n, trades)
    PROVE  w.events[n + 1].of \notin DOMAIN trades
  <1> DEFINE id == w.events[n + 1].of
  <1> SUFFICES ASSUME id \in DOMAIN trades PROVE FALSE
    OBVIOUS
  <1>1. id \notin DOMAIN w.journal.trades
    BY OpeningIsNew
  <1>2. ~ FromJournal(w, trades[id])
    BY <1>1, JournalIsOld DEF FiledAsOpened, FromJournal, SameTrade
  <1>3. PICK k \in 1 .. n : Opens(w.events[k]) /\ SameTrade(trades[id], w.events[k].rec)
    BY <1>2 DEF FiledAsOpened, FromEvent
  <1>4. k \in DOMAIN w.events /\ k # n + 1
    BY EventsAreASequence
  <1>5. w.events[k].of = id
    BY <1>3, <1>4, OpeningIsNew DEF FiledAsOpened, SameTrade
  <1> QED BY <1>3, <1>4, <1>5, OpeningIsNew

LEMMA HandledFiles ==
    ASSUME NEW w \in Works, NEW n \in Nat, n + 1 \in DOMAIN w.events, NEW kind,
           NEW c, DOMAIN c = Tables, FiledAsOpened(w, n, c.trades)
    PROVE  LET new == Handle(kind, c, w.events[n + 1])
           IN  /\ DOMAIN new = Tables /\ FiledAsOpened(w, n + 1, new.trades)
               /\ DOMAIN c.trades \subseteq DOMAIN new.trades
               /\ Opens(w.events[n + 1]) => w.events[n + 1].of \in DOMAIN new.trades
  <1> DEFINE e == w.events[n + 1]
             new == Handle(kind, c, e)
  <1>1. FiledAsOpened(w, n + 1, c.trades)
    BY LaterFiled
  <1>2. CASE Opens(e)
    <2>1. DOMAIN new = Tables /\ TradeAdded(c.trades, new.trades, e.rec)
      BY <1>2, HandleFiles
    <2>2. /\ TradeFields \subseteq DOMAIN e.rec /\ e.rec.id = e.of /\ e.of \notin DOMAIN c.trades
      BY <1>2, OpeningIsNew, OpeningIsNotFiled
    <2> HIDE DEF new
    <2>3. /\ DOMAIN new.trades = DOMAIN c.trades \cup {e.of} /\ new.trades[e.of] = e.rec
          /\ \A id \in DOMAIN c.trades : new.trades[id] = c.trades[id]
      BY <2>1, <2>2 DEF TradeAdded
    <2>4. FromEvent(w, n + 1, e.rec)
      BY <1>2 DEF FromEvent, SameTrade
    <2>5. FiledAsOpened(w, n + 1, new.trades)
      BY <1>1, <2>2, <2>3, <2>4 DEF FiledAsOpened
    <2> QED BY <2>1, <2>3, <2>5 DEF new
  <1>3. CASE ~ Opens(e)
    <2>1. DOMAIN new = Tables /\ SameTrades(c.trades, new.trades)
      BY <1>3, HandleFiles
    <2> HIDE DEF new
    <2>2. ASSUME NEW id \in DOMAIN c.trades
          PROVE  /\ TradeFields \subseteq DOMAIN new.trades[id] /\ SameTrade(new.trades[id], c.trades[id])
      BY <1>1, <2>1 DEF SameTrades, FiledAsOpened
    <2>3. ASSUME NEW id \in DOMAIN c.trades
          PROVE  /\ new.trades[id].id = id
                 /\ FromJournal(w, new.trades[id]) \/ FromEvent(w, n + 1, new.trades[id])
      BY <1>1, <2>2 DEF FiledAsOpened, FromJournal, FromEvent, SameTrade
    <2>4. FiledAsOpened(w, n + 1, new.trades)
      BY <2>1, <2>2, <2>3 DEF FiledAsOpened, SameTrades
    <2> QED BY <1>3, <2>1, <2>4 DEF SameTrades, new
  <1> QED BY <1>2, <1>3

\* The newest of trades is theirs, if one is newer than every other.
LEMMA NewerIs ==
    ASSUME NEW ts, NEW x \in ts, \A u \in ts : u.open \in Int, \A u \in ts : u # x => u.open < x.open
    PROVE  Newer(ts) = x
  BY DEF Newer

\* A close finds its own trade if that is filed and open.
LEMMA CloseFinds ==
    ASSUME NEW w \in Works, NEW n \in Nat, n + 1 \in DOMAIN w.events, Closes(w.events[n + 1]),
           NEW kind, NEW c, FiledAsOpened(w, n, c.trades),
           NEW missing, FiledOrLost(w, n, c.trades, missing), LostWasTaken(w, n, missing)
    PROVE  LET e == w.events[n + 1]
               found == TradeByTicket(kind, c, e.ticket)
           IN  found # None /\ found.id # e.of => e.of \in missing \/ WasClosed(c.trades, e.of)
  <1> DEFINE e == w.events[n + 1]
             found == TradeByTicket(kind, c, e.ticket)
  <1> SUFFICES ASSUME e.of \notin missing, ~ WasClosed(c.trades, e.of) PROVE found.id = e.of
    OBVIOUS
  <1>1. PICK i \in 1 .. n : Opens(w.events[i]) /\ w.events[i].of = e.of
    <2>1. e.of \notin Untraded(w.events)
      BY DEF LostWasTaken
    <2> QED BY <2>1 DEF Untraded
  <1>2. i \in DOMAIN w.events /\ i < n + 1
    BY EventsAreASequence
  <1> DEFINE own == w.events[i].rec
             x == c.trades[e.of]
             matches == {t \in Range(c.trades) : e.ticket \in t.tickets}
             open == {t \in matches : t.close = None}
  <1>3. e.of \in DOMAIN c.trades
    BY <1>1 DEF FiledOrLost
  <1>4. ASSUME NEW id \in DOMAIN c.trades
        PROVE  /\ c.trades[id].id = id
               /\ \/ FromJournal(w, c.trades[id])
                  \/ \E k \in 1 .. n : /\ k \in DOMAIN w.events /\ Opens(w.events[k]) /\ w.events[k].of = id
                                       /\ SameTrade(c.trades[id], w.events[k].rec)
    <2>1. c.trades[id].id = id /\ (FromJournal(w, c.trades[id]) \/ FromEvent(w, n, c.trades[id]))
      BY DEF FiledAsOpened
    <2>2. \A k \in 1 .. n : k \in DOMAIN w.events
      BY EventsAreASequence
    <2>3. \A k \in 1 .. n : Opens(w.events[k]) => w.events[k].rec.id = w.events[k].of
      BY <2>2, OpeningIsNew
    <2> QED BY <2>1, <2>2, <2>3 DEF FromEvent, SameTrade
  <1>5. SameTrade(x, own)
    <2>1. ~ FromJournal(w, x)
      BY <1>1, <1>2, <1>3, <1>4, OpeningIsNew, JournalIsOld, SMTT(30) DEF FromJournal, SameTrade
    <2>2. \A k \in DOMAIN w.events : Opens(w.events[k]) /\ w.events[k].of = e.of => k = i
      BY <1>1, <1>2, OpeningIsNew
    <2> QED BY <1>3, <1>4, <2>1, <2>2
  <1>6. own.open \in Int /\ e.ticket \in own.tickets
    BY <1>1, <1>2, OpeningIsNew, CloseIsOfTheNewest
  <1>7. x \in open
    BY <1>3, <1>5, <1>6 DEF WasClosed, SameTrade, Range
  <1>8. ASSUME NEW u \in matches, u # x PROVE u.open \in Int /\ u.open < x.open
    <2>1. PICK id \in DOMAIN c.trades : c.trades[id] = u
      BY DEF Range
    <2>2. id # e.of
      BY <1>8, <2>1
    <2>3. CASE FromJournal(w, u)
      <3>1. PICK k \in DOMAIN w.journal.trades : SameTrade(u, w.journal.trades[k])
        BY <2>3 DEF FromJournal
      <3>2. w.journal.trades[k].open \in Int /\ w.journal.trades[k].open < own.open
        BY <1>1, <1>2, <3>1, JournalIsOld, CloseIsOfTheNewest DEF SameTrade
      <3> QED BY <1>5, <3>1, <3>2 DEF SameTrade
    <2>4. CASE ~ FromJournal(w, u)
      <3>1. PICK k \in 1 .. n : /\ k \in DOMAIN w.events /\ Opens(w.events[k]) /\ w.events[k].of = id
                                /\ SameTrade(u, w.events[k].rec)
        BY <1>4, <2>1, <2>4
      <3>2. k # i /\ k \in 1 .. (n + 1) - 1
        BY <1>1, <2>2, <3>1
      <3>3. w.events[k].rec.open \in Int /\ w.events[k].rec.open < own.open
        BY <1>1, <1>2, <3>1, <3>2, OpeningIsNew, CloseIsOfTheNewest DEF SameTrade
      <3> QED BY <1>5, <3>1, <3>3 DEF SameTrade
    <2> QED BY <2>3, <2>4
  <1>9. Newer(open) = x
    BY <1>5, <1>6, <1>7, <1>8, NewerIs DEF SameTrade
  <1>10. found = Newer(open)
    <2>1. found = PickByTicket(matches)
      BY DEF TradeByTicket, TradeByTicketMem, TradeByTicketDb
    <2> QED BY <1>7, <2>1 DEF PickByTicket
  <1> QED BY <1>3, <1>4, <1>9, <1>10

\* Nothing of the journal's trades changes, nor of the writer and its inbox.
LEMMA TradesKept ==
    ASSUME JournalInv, UNCHANGED <<work, backend, inbox, lost, misfiled>>,
           mem' = [p \in {"writer", "dashboard"} |-> mem'[p]],
           DOMAIN db' = Tables, DOMAIN mem'["writer"] = Tables, DOMAIN mem'["dashboard"] = Tables,
           db'.trades = db.trades, mem'["writer"].trades = mem["writer"].trades
    PROVE  JournalInv'
  <1>1. JournalShape' /\ InboxOK(work, inbox)' /\ Taken' = Taken /\ CloseFindsItsOwn'
    BY DEF JournalInv, JournalShape, InboxOK, Taken, CloseFindsItsOwn
  <1>2. Content("writer").trades' = Content("writer").trades
    BY DEF Content
  <1> QED BY <1>1, <1>2 DEF JournalInv, FiledAsOpened, FromJournal, FromEvent, FiledOrLost, LostWasTaken

\* What the dashboard writes are proposals.
LEMMA DashboardKeepsTrades ==
    ASSUME JournalInv, UNCHANGED <<work, backend, inbox, lost, misfiled>>,
           NEW c, SetContent("dashboard", c), DOMAIN c = Tables, c.trades = Records.trades
    PROVE  JournalInv'
  <1>1. CASE backend["dashboard"] = "mem"
    <2>1. db' = db /\ mem' = [mem EXCEPT !["dashboard"] = c]
      BY <1>1 DEF SetContent
    <2>2. /\ mem' = [p \in {"writer", "dashboard"} |-> mem'[p]]
          /\ mem'["writer"] = mem["writer"] /\ mem'["dashboard"] = c
      BY <2>1 DEF JournalInv, JournalShape
    <2> QED BY <2>1, <2>2, TradesKept DEF JournalInv, JournalShape
  <1>2. CASE backend["dashboard"] = "db"
    <2>1. mem' = mem /\ db' = c /\ c.trades = db.trades
      BY <1>2 DEF SetContent, Records, Content
    <2> QED BY <2>1, TradesKept DEF JournalInv, JournalShape
  <1> QED BY <1>1, <1>2 DEF JournalInv, JournalShape

LEMMA HandlerWrites ==
    ASSUME JournalInv, NEW r \in Made, Handler(r)
    PROVE  \/ UNCHANGED <<db, mem>>
           \/ \E x : SetContent("dashboard", [Records EXCEPT !.proposals = x])
  <1>1. DOMAIN Records = Tables
    BY DEF JournalInv, JournalShape, Records, Content
  <1>2. CASE Propose(r) /\ ~ UNCHANGED <<db, mem>>
    <2>1. PICK new : SetContent("dashboard", AddProposal(backend["dashboard"], Records, new))
      BY <1>2 DEF Propose, Raises
    <2>2. AddProposal(backend["dashboard"], Records, new)
            = [Records EXCEPT !.proposals = Insert(Records.proposals, new)]
      BY <1>1 DEF AddProposal, AddProposalMem, AddProposalDb, Tables
    <2> QED BY <2>1, <2>2
  <1>3. CASE (PutInMemory(r) \/ ReplaceInDb(r)) /\ ~ UNCHANGED <<db, mem>>
    <2>1. SetContent("dashboard", Replace(Records, copy[r]))
      BY <1>3 DEF PutInMemory, ReplaceInDb, Raises
    <2>2. Replace(Records, copy[r])
            = [Records EXCEPT !.proposals = [@ EXCEPT ![copy[r].id] = copy[r]]]
      BY <1>1 DEF Replace, Tables
    <2> QED BY <2>1, <2>2
  <1>4. \/ UNCHANGED <<db, mem>>
        \/ Propose(r) \/ PutInMemory(r) \/ ReplaceInDb(r)
    BY DEF Handler, Login, Logout, FindSession, RefreshSession, Toggle, ToggleMode, OpenSocket,
           StartBacktest, EndBacktest, ReadForDecision, ReadForTest, Test,
           CheckInDb, OnlyAuth, OnlyProposals, NoAuth, journalVars, Raises
  <1> QED BY <1>2, <1>3, <1>4

LEMMA HandlerJournal == ASSUME JournalInv, NEW r \in Made, Handler(r) PROVE JournalInv'
  <1>1. UNCHANGED <<work, backend, inbox, lost, misfiled>>
    BY DEF Handler, Login, Logout, FindSession, RefreshSession, Toggle, ToggleMode, OpenSocket,
           StartBacktest, EndBacktest, Propose, ReadForDecision, ReadForTest, Test, PutInMemory,
           CheckInDb, ReplaceInDb, OnlyAuth, OnlyProposals, NoAuth, journalVars
  <1>2. CASE UNCHANGED <<db, mem>>
    BY <1>1, <1>2, TradesKept DEF JournalInv, JournalShape
  <1>3. DOMAIN Records = Tables
    BY DEF JournalInv, JournalShape, Records, Content
  <1>4. ASSUME NEW x, SetContent("dashboard", [Records EXCEPT !.proposals = x]) PROVE JournalInv'
    <2> DEFINE c == [Records EXCEPT !.proposals = x]
    <2>1. DOMAIN c = Tables /\ c.trades = Records.trades
      BY <1>3 DEF Tables
    <2> HIDE DEF c
    <2> QED BY <1>1, <1>4, <2>1, DashboardKeepsTrades DEF c
  <1> QED BY <1>2, <1>4, HandlerWrites

\* The first event is taken, or none.
LEMMA FirstIsTaken ==
    ASSUME NEW w \in Works, NEW rest, InboxOK(w, rest), rest # <<>>
    PROVE  LET n == Len(w.events) - Len(rest)
           IN  /\ n \in Nat /\ n + 1 \in DOMAIN w.events /\ Head(rest) = w.events[n + 1]
               /\ InboxOK(w, Tail(rest)) /\ Len(w.events) - Len(Tail(rest)) = n + 1
               /\ SubSeq(rest, 1, Len(rest)) = rest /\ SubSeq(rest, 2, Len(rest)) = Tail(rest)
  <1> DEFINE S == Range(w.events)
             events == w.events
             N == Len(events)
             L == Len(rest)
  <1>1. N \in Nat /\ DOMAIN events = 1 .. N
    BY EventsAreASequence
  <1> HIDE DEF S, events, N
  <1>2. /\ rest \in Seq(S) /\ L <= N /\ \A i \in 1 .. L : rest[i] = events[N - L + i]
    BY DEF InboxOK, S, events, N
  <1>3. L \in Nat /\ L # 0
    BY <1>2
  <1>4. /\ Tail(rest) \in Seq(S) /\ Len(Tail(rest)) = L - 1
        /\ \A i \in 1 .. L - 1 : Tail(rest)[i] = rest[i + 1]
    BY <1>2, <1>3
  <1>5. Head(rest) = events[N - L + 1] /\ N - L \in Nat /\ N - L + 1 \in 1 .. N
    BY <1>1, <1>2, <1>3
  <1>6. SubSeq(rest, 1, L) = rest /\ SubSeq(rest, 2, L) = Tail(rest)
    BY <1>2, <1>3
  <1> HIDE DEF L
  <1>7. \A i \in 1 .. Len(Tail(rest)) : Tail(rest)[i] = events[N - Len(Tail(rest)) + i]
    BY <1>1, <1>2, <1>3, <1>4
  <1>8. N - Len(Tail(rest)) = N - L + 1
    BY <1>1, <1>3, <1>4
  <1>9. InboxOK(w, Tail(rest))
    BY <1>1, <1>2, <1>3, <1>4, <1>7 DEF InboxOK, S, events, N
  <1> QED BY <1>1, <1>5, <1>6, <1>8, <1>9 DEF events, N, L

LEMMA WriteEventJournal == ASSUME JournalInv, WriteEvent PROVE JournalInv'
  <1> DEFINE n == Taken
             e == work.events[n + 1]
             c == Content("writer")
             kind == backend["writer"]
             new == Handle(kind, c, e)
             found == TradeByTicket(kind, c, e.ticket)
  <1>1. /\ work \in Works /\ inbox # <<>> /\ inbox' = Tail(inbox) /\ UNCHANGED <<work, backend>>
    BY DEF WriteEvent, JournalInv, JournalShape
  <1>2. /\ n \in Nat /\ n + 1 \in DOMAIN work.events /\ Head(inbox) = e
        /\ InboxOK(work, inbox') /\ Len(work.events) - Len(inbox') = n + 1
    BY <1>1, FirstIsTaken DEF JournalInv, Taken
  <1>3. Taken' = n + 1 /\ InboxOK(work, inbox)'
    BY <1>1, <1>2 DEF Taken, InboxOK
  <1>4. /\ DOMAIN c = Tables /\ FiledAsOpened(work, n, c.trades)
        /\ FiledOrLost(work, n, c.trades, lost) /\ LostWasTaken(work, n, lost)
    BY DEF JournalInv, JournalShape, Content
  <1>5. FiledAsOpened(work, n + 1, db.trades) /\ FiledAsOpened(work, n + 1, mem["writer"].trades)
    BY <1>2, LaterFiled DEF JournalInv
  <1>6. CASE Answers("writer")
    <2>1. /\ SetContent("writer", new) /\ UNCHANGED lost
          /\ misfiled' = misfiled
             \/ /\ Closes(e) /\ found # None /\ found.id # e.of
                /\ misfiled' = misfiled \cup {<<found.id, e.of, WasClosed(c.trades, e.of)>>}
      BY <1>2, <1>6 DEF WriteEvent
    <2>2. /\ DOMAIN new = Tables /\ FiledAsOpened(work, n + 1, new.trades)
          /\ DOMAIN c.trades \subseteq DOMAIN new.trades
          /\ Opens(e) => e.of \in DOMAIN new.trades
      BY <1>1, <1>2, <1>4, HandledFiles
    <2>3. CloseFindsItsOwn'
      <3>1. Closes(e) /\ found # None /\ found.id # e.of => e.of \in lost \/ WasClosed(c.trades, e.of)
        BY <1>1, <1>2, <1>4, CloseFinds
      <3> HIDE DEF found, e, c
      <3>2. ASSUME NEW m \in misfiled' PROVE m[2] \in lost \/ m[3]
        <4>1. CASE m \in misfiled
          BY <4>1 DEF JournalInv, CloseFindsItsOwn
        <4>2. CASE m \notin misfiled
          <5>1. /\ Closes(e) /\ found # None /\ found.id # e.of
                /\ m = <<found.id, e.of, WasClosed(c.trades, e.of)>>
            BY <2>1, <3>2, <4>2
          <5>2. m[2] = e.of /\ m[3] = WasClosed(c.trades, e.of)
            BY <5>1
          <5> QED BY <3>1, <5>1, <5>2
        <4> QED BY <4>1, <4>2
      <3> QED BY <2>1, <3>2 DEF CloseFindsItsOwn
    <2>4. FiledOrLost(work, n + 1, new.trades, lost) /\ LostWasTaken(work, n + 1, lost)
      BY <1>2, <1>4, <2>2 DEF FiledOrLost, LostWasTaken
    <2> HIDE DEF new, n
    <2>5. /\ JournalShape' /\ Content("writer")' = new
          /\ FiledAsOpened(work, n + 1, db'.trades) /\ FiledAsOpened(work, n + 1, mem'["writer"].trades)
      <3>1. CASE kind = "mem"
        <4>1. db' = db /\ mem' = [mem EXCEPT !["writer"] = new]
          BY <2>1, <3>1 DEF SetContent
        <4>2. /\ mem' = [p \in {"writer", "dashboard"} |-> mem'[p]]
              /\ mem'["writer"] = new /\ mem'["dashboard"] = mem["dashboard"]
          BY <4>1 DEF JournalInv, JournalShape
        <4> QED BY <1>1, <1>5, <2>2, <3>1, <4>1, <4>2 DEF JournalInv, JournalShape, Content
      <3>2. CASE kind = "db"
        <4>1. db' = new /\ mem' = mem
          BY <2>1, <3>2 DEF SetContent
        <4> QED BY <1>1, <1>5, <2>2, <3>2, <4>1 DEF JournalInv, JournalShape, Content
      <3> QED BY <3>1, <3>2 DEF JournalInv, JournalShape
    <2> QED BY <1>1, <1>3, <2>1, <2>3, <2>4, <2>5 DEF JournalInv, FiledAsOpened, FromJournal, FromEvent,
                                                     FiledOrLost, LostWasTaken
  <1>7. CASE ~ Answers("writer")
    <2>1. UNCHANGED <<db, mem, misfiled>> /\ lost' = IF Opens(e) THEN lost \cup {e.of} ELSE lost
      BY <1>2, <1>7 DEF WriteEvent
    <2>2. FiledOrLost(work, n + 1, c.trades, lost') /\ LostWasTaken(work, n + 1, lost')
      BY <1>2, <1>4, <2>1 DEF FiledOrLost, LostWasTaken
    <2>3. JournalShape' /\ CloseFindsItsOwn' /\ Content("writer")' = c
      BY <1>1, <2>1 DEF JournalInv, JournalShape, CloseFindsItsOwn, Content
    <2> HIDE DEF n
    <2> QED BY <1>1, <1>3, <1>5, <2>1, <2>2, <2>3 DEF JournalInv, FiledAsOpened, FromJournal, FromEvent,
                                                     FiledOrLost, LostWasTaken
  <1> QED BY <1>6, <1>7

LEMMA OpeningsAreTaken ==
    ASSUME NEW w \in Works, NEW rest, InboxOK(w, rest)
    PROVE  Openings(rest) = {w.events[i].of : i \in {k \in Len(w.events) - Len(rest) + 1 .. Len(w.events) :
                                                        Opens(w.events[k])}}
  <1> DEFINE N == Len(w.events)
             L == Len(rest)
  <1>1. N \in Nat /\ L \in Nat /\ L <= N /\ DOMAIN rest = 1 .. L
    BY EventsAreASequence DEF InboxOK
  <1>2. \A i \in 1 .. L : rest[i] = w.events[N - L + i]
    BY DEF InboxOK
  <1>3. Openings(rest) = {rest[i].of : i \in {k \in 1 .. L : Opens(rest[k])}}
    BY <1>1 DEF Openings, ToSet
  <1> HIDE DEF N, L
  <1>4. ASSUME NEW i \in 1 .. L PROVE N - L + i \in N - L + 1 .. N
    BY <1>1
  <1>5. ASSUME NEW k \in N - L + 1 .. N PROVE k - (N - L) \in 1 .. L /\ N - L + (k - (N - L)) = k
    BY <1>1
  <1>6. {rest[i].of : i \in {k \in 1 .. L : Opens(rest[k])}}
            = {w.events[i].of : i \in {k \in N - L + 1 .. N : Opens(w.events[k])}}
    <2>1. ASSUME NEW i \in 1 .. L, Opens(rest[i])
          PROVE  \E k \in N - L + 1 .. N : Opens(w.events[k]) /\ w.events[k].of = rest[i].of
      BY <1>2, <1>4, <2>1
    <2>2. ASSUME NEW k \in N - L + 1 .. N, Opens(w.events[k])
          PROVE  \E i \in 1 .. L : Opens(rest[i]) /\ rest[i].of = w.events[k].of
      <3>1. rest[k - (N - L)] = w.events[k]
        BY <1>2, <1>5
      <3> QED BY <1>5, <2>2, <3>1
    <2> QED BY <2>1, <2>2
  <1> QED BY <1>3, <1>6 DEF N, L

\* An opening is taken or still to come, and only one of the two.
LEMMA TakenOpenings ==
    ASSUME NEW w \in Works, NEW rest, InboxOK(w, rest)
    PROVE  LET n == Len(w.events) - Len(rest)
           IN  /\ n \in Nat
               /\ \A i \in 1 .. n : Opens(w.events[i]) =>
                    w.events[i].of \in Openings(w.events) \ Openings(rest)
               /\ \A x \in Openings(w.events) \ Openings(rest) :
                    \E i \in 1 .. n : Opens(w.events[i]) /\ w.events[i].of = x
  <1> DEFINE N == Len(w.events)
             n == N - Len(rest)
             At(lo) == {w.events[i].of : i \in {k \in lo .. N : Opens(w.events[k])}}
  <1>1. N \in Nat /\ n \in Nat /\ n <= N /\ DOMAIN w.events = 1 .. N
    BY EventsAreASequence DEF InboxOK
  <1>2. Openings(rest) = At(n + 1)
    BY OpeningsAreTaken
  <1>3. Openings(w.events) = At(1)
    <2>1. InboxOK(w, w.events)
      BY EventsAreASequence DEF InboxOK
    <2>2. N - N + 1 = 1
      BY <1>1
    <2> QED BY <2>1, <2>2, OpeningsAreTaken
  <1>4. ASSUME NEW i \in 1 .. n, Opens(w.events[i]) PROVE w.events[i].of \in At(1) \ At(n + 1)
    <2>1. i \in 1 .. N /\ i \in DOMAIN w.events
      BY <1>1
    <2>2. \A k \in n + 1 .. N : k \in DOMAIN w.events /\ k # i
      BY <1>1
    <2> QED BY <1>4, <2>1, <2>2, OpeningIsNew
  <1>5. ASSUME NEW x \in At(1) \ At(n + 1)
        PROVE  \E i \in 1 .. n : Opens(w.events[i]) /\ w.events[i].of = x
    <2>1. PICK i \in 1 .. N : Opens(w.events[i]) /\ w.events[i].of = x
      OBVIOUS
    <2>2. i \notin n + 1 .. N
      BY <2>1
    <2>3. i \in 1 .. n
      BY <1>1, <2>2
    <2> QED BY <2>1, <2>3
  <1> QED BY <1>1, <1>2, <1>3, <1>4, <1>5

LEMMA WriterRestartsJournal == ASSUME JournalInv, WriterRestarts PROVE JournalInv'
  <1>1. /\ work \in Works /\ inbox # <<>> /\ InboxOK(work, inbox) /\ UNCHANGED <<work, db, misfiled>>
        /\ DOMAIN db = Tables
    BY DEF WriterRestarts, JournalInv, JournalShape
  <1>2. inbox' \in {inbox, Tail(inbox)}
    <2>1. PICK taken \in 0 .. 1 : inbox' = SubSeq(inbox, 1 + taken, Len(inbox))
      BY DEF WriterRestarts
    <2>2. PICK k \in 1 .. 2 : inbox' = SubSeq(inbox, k, Len(inbox))
      <3> DEFINE k == 1 + taken
      <3>1. k \in 1 .. 2 /\ inbox' = SubSeq(inbox, k, Len(inbox))
        BY <2>1
      <3> HIDE DEF k
      <3> QED BY <3>1
    <2>3. SubSeq(inbox, 1, Len(inbox)) = inbox /\ SubSeq(inbox, 2, Len(inbox)) = Tail(inbox)
      BY <1>1, FirstIsTaken
    <2>4. k = 1 \/ k = 2
      OBVIOUS
    <2> QED BY <2>2, <2>3, <2>4, Zenon
  <1>3. PICK n, m : n = Taken /\ m = Len(work.events) - Len(inbox')
    OBVIOUS
  <1>4. InboxOK(work, inbox') /\ n \in Nat /\ m \in Nat /\ n <= m
    <2>1. /\ n \in Nat /\ InboxOK(work, Tail(inbox))
          /\ Len(work.events) - Len(Tail(inbox)) = n + 1
      BY <1>1, <1>3, FirstIsTaken DEF Taken
    <2>2. CASE inbox' = inbox
      BY <1>1, <1>3, <2>1, <2>2 DEF Taken
    <2>3. CASE inbox' = Tail(inbox)
      <3>1. m = n + 1 /\ InboxOK(work, inbox')
        BY <1>3, <2>1, <2>3, Zenon
      <3> QED BY <2>1, <3>1
    <2> QED BY <1>2, <2>2, <2>3
  <1>5. Taken' = m /\ InboxOK(work, inbox)'
    BY <1>1, <1>3, <1>4 DEF Taken, InboxOK
  <1>6. FiledAsOpened(work, m, db.trades)
    BY <1>3, <1>4, LaterFiled DEF JournalInv
  <1>7. /\ mem' = [p \in {"writer", "dashboard"} |-> mem'[p]]
        /\ mem'["writer"] = EmptyJournal /\ mem'["dashboard"] = mem["dashboard"]
    BY DEF WriterRestarts, JournalInv, JournalShape
  <1>8. DOMAIN EmptyJournal = Tables /\ DOMAIN EmptyJournal.trades = {}
    BY DEF EmptyJournal, Tables
  <1>9. FiledAsOpened(work, m, mem'["writer"].trades)
    BY <1>7, <1>8 DEF FiledAsOpened
  <1>10. /\ backend' = [p \in {"writer", "dashboard"} |-> backend'[p]]
         /\ backend'["writer"] = StoreAtStart(up) /\ backend'["dashboard"] = backend["dashboard"]
    BY DEF WriterRestarts, JournalInv, JournalShape
  <1>11. JournalShape'
    BY <1>1, <1>7, <1>8, <1>10 DEF JournalInv, JournalShape, StoreAtStart
  <1>12. FiledOrLost(work, n, Content("writer").trades, lost) /\ LostWasTaken(work, n, lost)
    BY <1>3 DEF JournalInv
  <1>13. CASE backend["writer"] = "mem" \/ ~ up
    <2>1. lost' = Untraded(work.events) \cup (Openings(work.events) \ Openings(inbox'))
      BY <1>13 DEF WriterRestarts
    <2>2. \A i \in 1 .. m : Opens(work.events[i]) => work.events[i].of \in lost'
      BY <1>1, <1>3, <1>4, <2>1, TakenOpenings
    <2>3. LostWasTaken(work, m, lost')
      BY <1>1, <1>3, <1>4, <2>1, TakenOpenings DEF LostWasTaken
    <2>4. lost \subseteq lost'
      BY <1>4, <1>12, <2>1, <2>2 DEF LostWasTaken
    <2>5. FiledOrLost(work, m, Content("writer").trades', lost')
      BY <2>2 DEF FiledOrLost
    <2>6. CloseFindsItsOwn'
      BY <1>1, <2>4 DEF JournalInv, CloseFindsItsOwn
    <2> QED BY <1>1, <1>5, <1>6, <1>9, <1>11, <2>3, <2>5, <2>6
            DEF JournalInv, FiledAsOpened, FromJournal, FromEvent, FiledOrLost, LostWasTaken
  <1>14. CASE backend["writer"] = "db" /\ up
    <2>1. lost' = lost \cup (Openings(inbox) \ Openings(inbox'))
      BY <1>14 DEF WriterRestarts
    <2>2. Content("writer") = db /\ Content("writer")' = db
      BY <1>1, <1>10, <1>14 DEF Content, StoreAtStart
    <2>3. Openings(inbox) \subseteq Openings(work.events)
      BY <1>1, EventsAreASequence DEF InboxOK, Openings, ToSet
    <2>4. ASSUME NEW i \in 1 .. m, Opens(work.events[i])
          PROVE  work.events[i].of \in DOMAIN db.trades \cup lost'
      <3>1. work.events[i].of \in Openings(work.events) \ Openings(inbox')
        BY <1>1, <1>3, <1>4, <2>4, TakenOpenings
      <3>2. CASE work.events[i].of \in Openings(inbox)
        BY <2>1, <3>1, <3>2
      <3>3. CASE work.events[i].of \notin Openings(inbox)
        <4>1. PICK k \in 1 .. n : Opens(work.events[k]) /\ work.events[k].of = work.events[i].of
          <5>1. \A x \in Openings(work.events) \ Openings(inbox) :
                    \E k \in 1 .. n : Opens(work.events[k]) /\ work.events[k].of = x
            BY <1>1, <1>3, TakenOpenings DEF Taken
          <5> QED BY <3>1, <3>3, <5>1
        <4> QED BY <1>12, <2>1, <2>2, <4>1 DEF FiledOrLost
      <3> QED BY <3>2, <3>3
    <2>5. FiledOrLost(work, m, db.trades, lost')
      BY <2>4 DEF FiledOrLost
    <2>6. LostWasTaken(work, m, lost')
      <3>1. ASSUME NEW x \in Openings(inbox) \ Openings(inbox')
            PROVE  \E i \in 1 .. m : Opens(work.events[i]) /\ work.events[i].of = x
        BY <1>1, <1>3, <1>4, <2>3, <3>1, TakenOpenings, SMTT(30)
      <3>2. LostWasTaken(work, m, lost)
        BY <1>4, <1>12 DEF LostWasTaken
      <3> QED BY <2>1, <3>1, <3>2 DEF LostWasTaken
    <2>7. CloseFindsItsOwn'
      BY <1>1, <2>1 DEF JournalInv, CloseFindsItsOwn
    <2> QED BY <1>1, <1>5, <1>6, <1>9, <1>11, <2>2, <2>5, <2>6, <2>7
            DEF JournalInv, FiledAsOpened, FromJournal, FromEvent, FiledOrLost, LostWasTaken
  <1> QED BY <1>13, <1>14 DEF JournalInv, JournalShape

LEMMA InitJournal == Init => JournalInv
  <1> SUFFICES ASSUME Init PROVE JournalInv
    OBVIOUS
  <1>1. /\ work \in Works /\ inbox = work.events /\ lost = Untraded(work.events) /\ misfiled = {}
        /\ DOMAIN work.journal = DOMAIN EmptyJournal
    BY WorksAssumption DEF Init, WorksAssumption
  <1>2. DOMAIN EmptyJournal = Tables /\ DOMAIN EmptyJournal.trades = {}
    BY DEF EmptyJournal, Tables
  <1>3. Len(work.events) \in Nat /\ Taken = 0 /\ InboxOK(work, inbox)
    BY <1>1, EventsAreASequence DEF Taken, InboxOK
  <1>4. JournalShape
    BY <1>1, <1>2 DEF Init, JournalShape, StoreAtStart, Tables, EmptyJournal
  <1>5. ASSUME NEW c \in {EmptyJournal, work.journal} PROVE FiledAsOpened(work, 0, c.trades)
    BY <1>1, <1>2, JournalIsOld DEF FiledAsOpened, FromJournal, SameTrade
  <1>6. db \in {EmptyJournal, work.journal} /\ mem["writer"] = EmptyJournal
    BY DEF Init
  <1>7. FiledOrLost(work, 0, Content("writer").trades, lost) /\ LostWasTaken(work, 0, lost)
    BY <1>1 DEF FiledOrLost, LostWasTaken
  <1>8. CloseFindsItsOwn
    BY <1>1 DEF CloseFindsItsOwn
  <1> QED BY <1>3, <1>4, <1>5, <1>6, <1>7, <1>8 DEF JournalInv

LEMMA StepJournal == ASSUME JournalInv, [Next]_vars PROVE JournalInv'
  <1>1. CASE UNCHANGED <<work, backend, inbox, lost, misfiled, db, mem>>
    BY <1>1, TradesKept DEF JournalInv, JournalShape
  <1>2. CASE UNCHANGED vars
    BY <1>1, <1>2 DEF vars, journalVars
  <1>3. CASE Outage \/ Feed
    <2>1. CASE Outage
      BY <1>1, <2>1 DEF Outage
    <2>2. CASE Feed
      <3>1. UNCHANGED <<work, backend, inbox, lost, misfiled, db, mem>>
        BY <2>2, Zenon DEF Feed, journalVars
      <3> QED BY <1>1, <3>1
    <2> QED BY <1>3, <2>1, <2>2
  <1>4. CASE \E s \in sessions : Expires(s)
    BY <1>1, <1>4 DEF Expires, OnlyAuth, journalVars
  <1>5. CASE WriteEvent
    BY <1>5, WriteEventJournal
  <1>6. CASE WriterRestarts
    BY <1>6, WriterRestartsJournal
  <1>7. CASE \E r \in Made : Handler(r)
    BY <1>7, HandlerJournal
  <1> QED BY <1>2, <1>3, <1>4, <1>5, <1>6, <1>7 DEF Next

\* The close of a trade is never written to another one, whatever the outages,
\* restarts and repeated tickets, unless its own opening was never stored or
\* its own was closed before (journal_writer.handle, get_trade_by_order_id).
THEOREM DashboardCloseFindsItsOwn == Spec => []CloseFindsItsOwn
  <1>1. Init => JournalInv
    BY InitJournal
  <1>2. JournalInv /\ [Next]_vars => JournalInv'
    BY StepJournal
  <1>3. JournalInv => CloseFindsItsOwn
    BY DEF JournalInv
  <1> QED BY <1>1, <1>2, <1>3, PTL DEF Spec

-----------------------------------------------------------------------------
\* What the pages show

\* The oldest of trades no more than asked for are all of them.
LEMMA OldestIsAll ==
    ASSUME NEW S, IsFiniteSet(S), NEW limit \in Nat, Cardinality(S) <= limit,
           \A t \in S : t.open \in Int
    PROVE  Oldest(S, Opened, limit) = S
  <1>1. ASSUME NEW x \in S PROVE Cardinality({y \in S : y.open < x.open}) < limit
    <2>1. {y \in S : y.open < x.open} \in SUBSET (S \ {x})
      OBVIOUS
    <2>2. IsFiniteSet(S \ {x}) /\ Cardinality(S \ {x}) = Cardinality(S) - 1 /\ Cardinality(S) \in Nat
      BY FS_RemoveElement, FS_CardinalityType
    <2>3. Cardinality({y \in S : y.open < x.open}) <= Cardinality(S \ {x})
      BY <2>1, <2>2, FS_Subset
    <2>4. Cardinality({y \in S : y.open < x.open}) \in Nat
      BY <2>1, <2>2, FS_Subset, FS_CardinalityType
    <2> QED BY <2>2, <2>3, <2>4
  <1> QED BY <1>1 DEF Oldest, Opened

\* The trades of a table are of the journal the scenario starts with or of an event: finitely
\* many, and opened in time.
AllOnTime(trades) ==
    /\ IsFiniteSet(Range(trades))
    /\ \A t \in Range(trades) : t.open \in Int /\ 0 <= t.open /\ t.open < EndOfTime

LEMMA FinitelyMany ==
    ASSUME NEW f, IsFiniteSet(DOMAIN f) PROVE IsFiniteSet(Range(f)) /\ Cardinality(Range(f)) <= Cardinality(DOMAIN f)
  <1> DEFINE g == [x \in DOMAIN f |-> f[x]]
  <1>1. g \in Surjection(DOMAIN f, Range(f))
    BY DEF Surjection, Range
  <1> QED BY <1>1, FS_Surjection

LEMMA FiledOnTime ==
    ASSUME NEW w \in Works, NEW n \in Nat, n <= Len(w.events), NEW trades, FiledAsOpened(w, n, trades)
    PROVE  AllOnTime(trades)
  <1> DEFINE table == w.journal.trades
             ids == DOMAIN table \cup {w.events[i].of : i \in 1 .. n}
  <1>1. \A i \in 1 .. n : i \in DOMAIN w.events
    BY EventsAreASequence
  <1>2. /\ \A id \in DOMAIN table : 0 <= table[id].open /\ table[id].open < EndOfTime
        /\ \A i \in DOMAIN w.events : Opens(w.events[i]) =>
                0 <= w.events[i].rec.open /\ w.events[i].rec.open < EndOfTime
        /\ IsFiniteSet(DOMAIN table)
    BY PagesAssumption DEF PagesAssumption
  <1>3. ASSUME NEW id \in DOMAIN trades
        PROVE  /\ id \in ids
               /\ trades[id].open \in Int /\ 0 <= trades[id].open /\ trades[id].open < EndOfTime
    <2>1. trades[id].id = id /\ (FromJournal(w, trades[id]) \/ FromEvent(w, n, trades[id]))
      BY DEF FiledAsOpened
    <2>2. CASE FromJournal(w, trades[id])
      <3>1. PICK k \in DOMAIN table : SameTrade(trades[id], table[k])
        BY <2>2 DEF FromJournal
      <3>2. table[k].id = k /\ table[k].open \in Int
        BY JournalIsOld
      <3> QED BY <1>2, <2>1, <3>1, <3>2 DEF SameTrade
    <2>3. CASE FromEvent(w, n, trades[id])
      <3>1. PICK i \in 1 .. n : Opens(w.events[i]) /\ SameTrade(trades[id], w.events[i].rec)
        BY <2>3 DEF FromEvent
      <3>2. i \in DOMAIN w.events
        BY <1>1
      <3>3. w.events[i].rec.id = w.events[i].of /\ w.events[i].rec.open \in Int
        BY <3>1, <3>2, OpeningIsNew
      <3>4. 0 <= w.events[i].rec.open /\ w.events[i].rec.open < EndOfTime
        BY <1>2, <3>1, <3>2
      <3>5. trades[id].open = w.events[i].rec.open /\ id = w.events[i].of
        BY <2>1, <3>1, <3>3 DEF SameTrade
      <3> QED BY <3>3, <3>4, <3>5
    <2> QED BY <2>1, <2>2, <2>3
  <1>4. IsFiniteSet(ids)
    <2> DEFINE f == [i \in 1 .. n |-> w.events[i].of]
    <2>1. IsFiniteSet(DOMAIN f)
      BY FS_Interval
    <2>2. Range(f) = {w.events[i].of : i \in 1 .. n}
      BY DEF Range
    <2> HIDE DEF f
    <2>3. IsFiniteSet({w.events[i].of : i \in 1 .. n})
      BY <2>1, <2>2, FinitelyMany
    <2> QED BY <1>2, <2>3, FS_Union
  <1>5. IsFiniteSet(DOMAIN trades)
    BY <1>3, <1>4, FS_Subset
  <1>6. IsFiniteSet(Range(trades))
    BY <1>5, FinitelyMany
  <1> QED BY <1>3, <1>6 DEF AllOnTime, Range

\* The trade list shows the newest trades of its instrument, as long as it reads all there are.
LEMMA ListIsNewest ==
    ASSUME NEW kind, NEW c, AllOnTime(c.trades), NEW limit \in Nat, NEW symbol,
           Cardinality(Range(c.trades)) <= LeastFetch
    PROVE  JournalTrades(kind, c, limit, symbol)
            = Newest({t \in Range(c.trades) : SameInstrument(t.symbol, symbol)}, Opened, limit)
  <1> DEFINE n == IF 4 * limit > LeastFetch THEN 4 * limit ELSE LeastFetch
             S == Range(c.trades)
  <1>1. LeastFetch \in Nat /\ IsFiniteSet(S) /\ \A t \in S : t.open \in Int /\ 0 <= t.open /\ t.open < EndOfTime
    BY PagesAssumption DEF PagesAssumption, AllOnTime
  <1>2. Within(S, Opened, 0, EndOfTime) = S
    BY <1>1 DEF Within, Opened
  <1>3. n \in Nat /\ Cardinality(S) <= n
    <2>1. Cardinality(S) \in Nat
      BY <1>1, FS_CardinalityType
    <2> QED BY <1>1, <2>1
  <1> HIDE DEF n
  <1>4. Oldest(S, Opened, n) = S
    BY <1>1, <1>3, OldestIsAll
  <1>5. ListTrades(kind, c, 0, EndOfTime, n) = S
    BY <1>2, <1>4 DEF ListTrades, ListTradesMem, ListTradesDb
  <1> QED BY <1>5 DEF JournalTrades, n

\* Half a unit up or down: the clock of the newest bar is at most that far from the broker's.
LEMMA Rounded ==
    ASSUME NEW d \in Int, NEW h \in Nat \ {0}
    PROVE  /\ h * ((2 * d + h) \div (2 * h)) \in Int
           /\ 2 * d - h < 2 * (h * ((2 * d + h) \div (2 * h)))
  <1> DEFINE a == 2 * d + h
             b == 2 * h
             q == a \div b
  <1>1. a \in Int /\ b \in Int /\ b > 0
    OBVIOUS
  <1>2. q \in Int /\ a < b * q + b
    <2> HIDE DEF a, b
    <2> QED BY <1>1
  <1>3. PICK p \in Int : p = h * q
    BY <1>2
  <1>4. b * q = 2 * p
    BY <1>2, <1>3
  <1> HIDE DEF q
  <1>5. 2 * d - h < 2 * p
    BY <1>2, <1>3, <1>4
  <1> QED BY <1>3, <1>5 DEF q

\* The totals count every trade that is older than half an hour before the newest bar.
LEMMA TotalsCount ==
    ASSUME NEW kind, NEW c, AllOnTime(c.trades), NEW now \in Int, NEW bar \in Int, bar # None,
           Cardinality(Range(c.trades)) <= MaxRows
    PROVE  Aggregate(kind, c, "all", now, bar).trades
            >= Cardinality({t \in Range(c.trades) : 2 * (bar - t.open) > HourLength})
  <1> DEFINE S == Range(c.trades)
             end == BrokerNow(now, bar)
             W == Within(S, Opened, 0, end)
             old == {t \in S : 2 * (bar - t.open) > HourLength}
             shift == HourLength * ((2 * (bar - now) + HourLength) \div (2 * HourLength))
  <1>1. /\ MaxRows \in Nat /\ HourLength \in Nat \ {0} /\ IsFiniteSet(S)
        /\ \A t \in S : t.open \in Int /\ 0 <= t.open
    BY PagesAssumption DEF PagesAssumption, AllOnTime
  <1>2. end = now + shift
    BY DEF BrokerNow
  <1>3. shift \in Int /\ 2 * (bar - now) - HourLength < 2 * shift
    <2> DEFINE d == bar - now
    <2>1. d \in Int
      OBVIOUS
    <2> HIDE DEF d
    <2>2. /\ HourLength * ((2 * d + HourLength) \div (2 * HourLength)) \in Int
          /\ 2 * d - HourLength < 2 * (HourLength * ((2 * d + HourLength) \div (2 * HourLength)))
      BY <1>1, <2>1, Rounded
    <2> QED BY <2>2, Zenon DEF d
  <1> HIDE DEF shift, end
  <1>4. end \in Int /\ 2 * bar - HourLength < 2 * end
    BY <1>1, <1>2, <1>3
  <1>5. W \in SUBSET S /\ old \in SUBSET W
    BY <1>1, <1>4 DEF Within, Opened
  <1>6. IsFiniteSet(W) /\ Cardinality(W) <= Cardinality(S) /\ Cardinality(old) <= Cardinality(W)
    BY <1>1, <1>5, FS_Subset
  <1>7. Cardinality(S) \in Nat /\ Cardinality(W) \in Nat /\ Cardinality(old) \in Nat
    BY <1>1, <1>5, <1>6, FS_Subset, FS_CardinalityType
  <1> HIDE DEF W, old
  <1>8. Oldest(W, Opened, MaxRows) = W
    BY <1>1, <1>5, <1>6, <1>7, OldestIsAll
  <1>9. PeriodStart("all", end) = 0
    BY DEF PeriodStart
  <1>10. ListTrades(kind, c, PeriodStart("all", end), end, MaxRows) = W
    BY <1>8, <1>9 DEF ListTrades, ListTradesMem, ListTradesDb, W
  <1>11. Aggregate(kind, c, "all", now, bar).trades = Cardinality(W)
    BY <1>10 DEF Aggregate, end
  <1> QED BY <1>6, <1>7, <1>11 DEF old

\* The overlay is of the newest snapshot in its window, if that has one.
Dated(snaps) == \A s \in snaps : s.bar \in Int /\ s.overlay \in BOOLEAN

LEMMA OverlayIsOfNewest ==
    ASSUME NEW kind, NEW c, Dated(c.snapshots), NEW now, NEW anchor, NEW s \in c.snapshots, s.overlay,
           now - 2 * DayLength <= s.bar, s.bar < now + DayLength,
           \A o \in c.snapshots : now - 2 * DayLength <= o.bar /\ o.bar < now + DayLength => o.bar <= s.bar
    PROVE  Overlays(kind, c, now, anchor) # None /\ Overlays(kind, c, now, anchor).bar = s.bar
  <1> DEFINE from == now - 2 * DayLength
             to == now + DayLength
             all == Within(c.snapshots, BarOf, from, to)
             list == ListSnapshots(kind, c, from, to, MaxOverlays, TRUE)
             drawn == {x \in list : x.overlay}
             latest == Most({x.bar : x \in drawn})
             offset == HourLength * ((2 * (latest - now) + HourLength) \div (2 * HourLength))
             view == [bar |-> latest, curve |-> {x.bar : x \in {o \in drawn : o.bar > anchor + offset}}]
  <1>1. MaxOverlays \in Nat \ {0} /\ None \notin [bar : Int, curve : SUBSET Int]
    BY PagesAssumption DEF PagesAssumption
  <1>2. list = Newest(all, BarOf, MaxOverlays)
    BY DEF ListSnapshots, ListSnapshotsMem, ListSnapshotsDb
  <1>3. all = {o \in c.snapshots : from <= o.bar /\ o.bar < to}
    BY DEF Within, BarOf
  <1> HIDE DEF from, to
  <1>4. s \in all /\ all \subseteq c.snapshots /\ \A o \in all : o.bar <= s.bar
    BY <1>3 DEF from, to
  <1> HIDE DEF all, list
  <1>5. {y \in all : y.bar > s.bar} = {}
    BY <1>4 DEF Dated
  <1>6. Cardinality({y \in all : y.bar > s.bar}) < MaxOverlays
    <2>1. Cardinality({}) = 0
      BY FS_EmptySet
    <2>2. Cardinality({y \in all : y.bar > s.bar}) = 0
      BY <1>5, <2>1
    <2> QED BY <1>1, <2>2
  <1>7. s \in drawn /\ drawn \subseteq all
    BY <1>2, <1>4, <1>6 DEF Newest, BarOf
  <1>8. \A x \in drawn : x.bar \in Int /\ x.bar <= s.bar
    BY <1>4, <1>7 DEF Dated
  <1> HIDE DEF drawn
  <1>9. latest = s.bar
    <2> DEFINE V == {x.bar : x \in drawn}
    <2>1. s.bar \in V /\ \A v \in V : v \in Int /\ v <= s.bar
      BY <1>7, <1>8
    <2> HIDE DEF V
    <2>2. Most(V) = s.bar
      BY <2>1 DEF Most
    <2> QED BY <2>2 DEF V
  <1>10. Overlays(kind, c, now, anchor) = view
    <2>1. drawn # {}
      BY <1>7
    <2> HIDE DEF latest
    <2> QED BY <2>1 DEF Overlays, drawn, list, from, to, latest
  <1> HIDE DEF latest, offset
  <1>11. view \in [bar : Int, curve : SUBSET Int] /\ view.bar = s.bar
    BY <1>7, <1>8, <1>9
  <1> QED BY <1>1, <1>10, <1>11

-----------------------------------------------------------------------------
\* The snapshots of the writer's stores have a time; the dashboard's own store holds proposals only.
SnapInv ==
    /\ mem["dashboard"].trades = <<>> /\ mem["dashboard"].snapshots = {}
    /\ Dated(db.snapshots) /\ Dated(mem["writer"].snapshots)

LEMMA HandleKeepsDated ==
    ASSUME NEW c, DOMAIN c = Tables, Dated(c.snapshots), NEW kind, NEW e,
           e.known /\ e.type = "snapshot" => Dated({e.rec})
    PROVE  Dated(Handle(kind, c, e).snapshots)
  <1>1. ASSUME NEW id, NEW updates PROVE UpdateTrade(kind, c, id, updates).snapshots = c.snapshots
    <2>1. \A x : [c EXCEPT !.trades[id] = x].snapshots = c.snapshots
      BY DEF Tables
    <2> QED BY <2>1 DEF UpdateTrade, UpdateTradeMem, UpdateTradeDb
  <1>2. CASE ~ e.known
    BY <1>2 DEF Handle
  <1>3. CASE e.known /\ e.type = "trade"
    <2>1. \A x : [c EXCEPT !.trades = x].snapshots = c.snapshots
      BY DEF Tables
    <2> QED BY <1>3, <2>1 DEF Handle, WriteTrade, WriteTradeMem, WriteTradeDb
  <1>4. CASE e.known /\ e.type = "close"
    <2>1. PICK id : Handle(kind, c, e) \in {c, UpdateTrade(kind, c, id, CloseUpdates(e))}
      BY <1>4 DEF Handle
    <2> QED BY <1>1, <2>1
  <1>5. CASE e.known /\ e.type \in {"snapshot", "order", "decision"}
    <2>1. Handle(kind, c, e) = Record(kind, c, e.type, e.rec)
      BY <1>5 DEF Handle
    <2>2. \A x : /\ [c EXCEPT !.snapshots = x].snapshots = x
                 /\ [c EXCEPT !.orders = x].snapshots = c.snapshots
                 /\ [c EXCEPT !.decisions = x].snapshots = c.snapshots
      BY DEF Tables
    <2>3. CASE e.type = "snapshot"
      <3>1. Record(kind, c, e.type, e.rec).snapshots = Add(c.snapshots, e.rec)
        BY <2>2, <2>3 DEF Record, WriteSnapshotMem, WriteSnapshotDb
      <3> QED BY <1>5, <2>1, <2>3, <3>1 DEF Add, Dated
    <2>4. CASE e.type \in {"order", "decision"}
      <3>1. Record(kind, c, e.type, e.rec).snapshots = c.snapshots
        BY <2>2, <2>4 DEF Record, WriteOrderMem, WriteOrderDb, WriteDecisionMem, WriteDecisionDb
      <3> QED BY <2>1, <3>1
    <2> QED BY <1>5, <2>3, <2>4
  <1>6. CASE e.known /\ e.type \notin {"trade", "close", "snapshot", "order", "decision"}
    BY <1>6 DEF Handle
  <1> QED BY <1>2, <1>3, <1>4, <1>5, <1>6

LEMMA EventsAreDated ==
    ASSUME NEW w \in Works, NEW i \in DOMAIN w.events,
           w.events[i].known, w.events[i].type = "snapshot"
    PROVE  Dated({w.events[i].rec})
  <1> DEFINE snaps == w.journal.snapshots
                    \cup {e.rec : e \in {x \in Range(w.events) : x.known /\ x.type = "snapshot"}}
  <1>1. \A s \in snaps : s.bar \in Int /\ s.overlay \in BOOLEAN
    BY PagesAssumption DEF PagesAssumption
  <1>2. w.events[i].rec \in snaps
    BY DEF Range
  <1> QED BY <1>1, <1>2 DEF Dated

LEMMA InitSnap == ASSUME Init PROVE SnapInv
  <1>1. work \in Works
    BY DEF Init
  <1>2. Dated(work.journal.snapshots)
    BY <1>1, PagesAssumption DEF PagesAssumption, Dated
  <1>3. Dated(EmptyJournal.snapshots)
    BY DEF EmptyJournal, Dated
  <1>4. db \in {EmptyJournal, work.journal} /\ mem["writer"] = EmptyJournal
    BY DEF Init
  <1>5. mem["dashboard"].trades = <<>> /\ mem["dashboard"].snapshots = {}
    BY DEF Init, EmptyJournal
  <1> QED BY <1>2, <1>3, <1>4, <1>5 DEF SnapInv

LEMMA StepSnap == ASSUME JournalInv, SnapInv, [Next]_vars PROVE SnapInv'
  <1>1. CASE UNCHANGED <<db, mem>>
    BY <1>1 DEF SnapInv
  <1>2. CASE UNCHANGED vars
    BY <1>1, <1>2 DEF vars, journalVars
  <1>3. CASE Outage \/ (\E s \in sessions : Expires(s))
    BY <1>1, <1>3 DEF Outage, Expires, OnlyAuth, journalVars
  <1>4. CASE Feed
    <2>1. UNCHANGED <<db, mem>>
      BY <1>4, Zenon DEF Feed, journalVars
    <2> QED BY <1>1, <2>1
  <1>5. CASE WriteEvent
    <2> DEFINE e == Head(inbox)
               c == Content("writer")
               new == Handle(backend["writer"], c, e)
    <2>1. UNCHANGED <<db, mem>> \/ SetContent("writer", new)
      BY <1>5 DEF WriteEvent
    <2>2. DOMAIN c = Tables /\ Dated(c.snapshots) /\ backend["writer"] \in {"mem", "db"}
      BY DEF JournalInv, JournalShape, SnapInv, Content
    <2>3. e.known /\ e.type = "snapshot" => Dated({e.rec})
      <3>1. work \in Works /\ inbox # <<>> /\ InboxOK(work, inbox)
        BY <1>5 DEF WriteEvent, JournalInv, JournalShape
      <3>2. \E i \in DOMAIN work.events : e = work.events[i]
        BY <3>1, FirstIsTaken
      <3> QED BY <3>1, <3>2, EventsAreDated
    <2>4. Dated(new.snapshots)
      BY <2>2, <2>3, HandleKeepsDated
    <2> HIDE DEF new, c
    <2>5. CASE SetContent("writer", new)
      BY <2>2, <2>4, <2>5 DEF SetContent, SnapInv, JournalInv, JournalShape
    <2> QED BY <1>1, <2>1, <2>5
  <1>6. CASE WriterRestarts
    BY <1>6 DEF WriterRestarts, SnapInv, JournalInv, JournalShape, EmptyJournal, Dated
  <1>7. CASE \E r \in Made : Handler(r)
    <2>1. PICK r \in Made : Handler(r)
      BY <1>7
    <2>2. \/ UNCHANGED <<db, mem>>
          \/ \E x : SetContent("dashboard", [Records EXCEPT !.proposals = x])
      BY <2>1, HandlerWrites
    <2>3. ASSUME NEW x, SetContent("dashboard", [Records EXCEPT !.proposals = x]) PROVE SnapInv'
      <3> DEFINE c == [Records EXCEPT !.proposals = x]
      <3>1. DOMAIN Records = Tables /\ backend["dashboard"] \in {"mem", "db"}
        BY DEF JournalInv, JournalShape, Records, Content
      <3>2. c.trades = Records.trades /\ c.snapshots = Records.snapshots
        BY <3>1 DEF Tables
      <3> HIDE DEF c
      <3>3. SetContent("dashboard", c)
        BY <2>3 DEF c
      <3> QED BY <3>1, <3>2, <3>3 DEF SetContent, Records, Content, SnapInv, JournalInv, JournalShape
    <2> QED BY <1>1, <2>2, <2>3
  <1> QED BY <1>2, <1>3, <1>4, <1>5, <1>6, <1>7 DEF Next

LEMMA RecordsKnown ==
    ASSUME JournalInv, SnapInv PROVE AllOnTime(Records.trades) /\ Dated(Records.snapshots)
  <1>1. work \in Works /\ Taken \in Nat /\ Taken <= Len(work.events)
    BY EventsAreASequence DEF JournalInv, JournalShape, InboxOK, Taken
  <1>2. AllOnTime(db.trades)
    BY <1>1, FiledOnTime DEF JournalInv
  <1>3. AllOnTime(mem["dashboard"].trades)
    <2>1. Range(mem["dashboard"].trades) = {}
      BY DEF SnapInv, Range
    <2> QED BY <2>1, FS_EmptySet DEF AllOnTime
  <1>4. Dated(mem["dashboard"].snapshots)
    BY DEF SnapInv, Dated
  <1> QED BY <1>2, <1>3, <1>4 DEF Records, Content, JournalInv, JournalShape, SnapInv

-----------------------------------------------------------------------------
\* The chart

LEMMA LeastNumber == ASSUME NEW S \in SUBSET Nat, S # {} PROVE \E i \in S : \A j \in S : i <= j
  <1> DEFINE Less == OpToRel(<, Nat)
  <1>1. PICK k \in S : \A m \in S : ~ (<<m, k>> \in Less)
    BY NatLessThanWellFounded, WFMin
  <1>2. ASSUME NEW m \in S, m < k PROVE FALSE
    <2>1. <<m, k>> \in Less
      BY <1>2 DEF OpToRel
    <2> QED BY <1>1, <2>1
  <1> QED BY <1>2

\* A candle is one of `bars` of its period: there is one for each period with a bar.
CandleAt(bars, minutes, k) == Candle(k, [t \in {u \in DOMAIN bars : Bucket(u, minutes) = k} |-> bars[t]])

LEMMA ResampleIs ==
    ASSUME NEW bars, NEW minutes
    PROVE  /\ \A c \in Resample(bars, minutes) :
                /\ c = CandleAt(bars, minutes, c.time)
                /\ \E u \in DOMAIN bars : Bucket(u, minutes) = c.time
           /\ \A u \in DOMAIN bars :
                /\ CandleAt(bars, minutes, Bucket(u, minutes)) \in Resample(bars, minutes)
                /\ CandleAt(bars, minutes, Bucket(u, minutes)).time = Bucket(u, minutes)
  <1>1. ASSUME NEW k, NEW g PROVE Candle(k, g).time = k
    BY DEF Candle
  <1>2. \A k : CandleAt(bars, minutes, k).time = k
    BY <1>1 DEF CandleAt
  <1>3. Resample(bars, minutes) = {CandleAt(bars, minutes, k) : k \in {Bucket(u, minutes) : u \in DOMAIN bars}}
    BY Zenon DEF Resample, CandleAt
  <1> QED BY <1>2, <1>3

LEMMA FinitelyManyCandles ==
    ASSUME NEW bars, IsFiniteSet(DOMAIN bars), NEW minutes PROVE IsFiniteSet(Resample(bars, minutes))
  <1> DEFINE f == [u \in DOMAIN bars |-> CandleAt(bars, minutes, Bucket(u, minutes))]
  <1>1. f \in [DOMAIN bars -> Resample(bars, minutes)]
    BY ResampleIs
  <1>2. \A c \in Resample(bars, minutes) : \E u \in DOMAIN bars : f[u] = c
    BY ResampleIs
  <1> HIDE DEF f
  <1>3. f \in Surjection(DOMAIN bars, Resample(bars, minutes))
    BY <1>1, <1>2 DEF Surjection
  <1> QED BY <1>3, FS_Surjection

\* Candles by their time
Timed(S) ==
    /\ IsFiniteSet(S) /\ \A c \in S : c.time \in Int
    /\ \A c \in S, d \in S : c.time = d.time => c = d
After(S, t) == {c \in S : c.time > t}

LEMMA NewestIs ==
    ASSUME NEW S, NEW n, NEW c
    PROVE  c \in Newest(S, CandleTime, n) <=> c \in S /\ Cardinality(After(S, c.time)) < n
  BY DEF Newest, CandleTime, After

LEMMA NewestAreNewer ==
    ASSUME NEW S, Timed(S), NEW n \in Nat, NEW c \in Newest(S, CandleTime, n),
           NEW d \in S \ Newest(S, CandleTime, n)
    PROVE  d.time < c.time
  <1> SUFFICES ASSUME ~ (d.time < c.time) PROVE FALSE
    OBVIOUS
  <1>1. c \in S /\ Cardinality(After(S, c.time)) < n /\ ~ (Cardinality(After(S, d.time)) < n)
    BY NewestIs
  <1>2. c.time \in Int /\ d.time \in Int /\ \A e \in S : e.time \in Int
    BY <1>1 DEF Timed
  <1>3. After(S, d.time) \in SUBSET After(S, c.time) /\ After(S, c.time) \in SUBSET S
    BY <1>2 DEF After
  <1>4. IsFiniteSet(After(S, c.time)) /\ Cardinality(After(S, d.time)) <= Cardinality(After(S, c.time))
    BY <1>3, FS_Subset DEF Timed
  <1>5. Cardinality(After(S, c.time)) \in Nat /\ Cardinality(After(S, d.time)) \in Nat
    BY <1>3, <1>4, FS_Subset, FS_CardinalityType
  <1> QED BY <1>1, <1>4, <1>5

\* The newest of a finite set of candles
LEMMA LatestCandle ==
    ASSUME NEW S, Timed(S), S # {} PROVE \E c \in S : \A d \in S : d.time <= c.time
  <1> DEFINE counts == {Cardinality(After(S, c.time)) : c \in S}
  <1>1. ASSUME NEW t PROVE IsFiniteSet(After(S, t)) /\ Cardinality(After(S, t)) \in Nat
    <2>1. After(S, t) \in SUBSET S
      BY DEF After
    <2> QED BY <2>1, FS_Subset, FS_CardinalityType DEF Timed
  <1>2. counts \in SUBSET Nat /\ counts # {}
    BY <1>1
  <1>3. PICK c \in S : \A d \in S : Cardinality(After(S, c.time)) <= Cardinality(After(S, d.time))
    <2>1. PICK n \in counts : \A m \in counts : n <= m
      <3> HIDE DEF counts
      <3> QED BY <1>2, LeastNumber
    <2> QED BY <2>1
  <1>4. ASSUME NEW d \in S, ~ (d.time <= c.time) PROVE FALSE
    <2>1. c.time \in Int /\ d.time \in Int /\ \A e \in S : e.time \in Int
      BY DEF Timed
    <2>2. After(S, d.time) \in SUBSET After(S, c.time) /\ d \in After(S, c.time) /\ d \notin After(S, d.time)
      BY <1>4, <2>1 DEF After
    <2>3. Cardinality(After(S, d.time)) <= Cardinality(After(S, c.time))
      BY <1>1, <2>2, FS_Subset
    <2>4. Cardinality(After(S, d.time)) # Cardinality(After(S, c.time))
      BY <1>1, <2>2, FS_Subset
    <2> QED BY <1>1, <1>3, <2>3, <2>4
  <1> QED BY <1>4

\* There are as many newest candles as asked for, if any is left out.
LEMMA NewestAreMany ==
    ASSUME NEW S, Timed(S), NEW n \in Nat, S \ Newest(S, CandleTime, n) # {}
    PROVE  IsFiniteSet(Newest(S, CandleTime, n)) /\ Cardinality(Newest(S, CandleTime, n)) >= n
  <1> DEFINE N == Newest(S, CandleTime, n)
             Rest == S \ N
  <1>1. N \in SUBSET S
    BY NewestIs
  <1>2. IsFiniteSet(N) /\ Cardinality(N) \in Nat
    BY <1>1, FS_Subset, FS_CardinalityType DEF Timed
  <1>3. Timed(Rest)
    <2>1. IsFiniteSet(Rest)
      BY FS_Subset DEF Timed
    <2> QED BY <2>1 DEF Timed
  <1>4. PICK d \in Rest : \A e \in Rest : e.time <= d.time
    <2>1. Rest # {}
      OBVIOUS
    <2> HIDE DEF Rest
    <2> QED BY <1>3, <2>1, LatestCandle
  <1>5. After(S, d.time) \in SUBSET N
    <2> SUFFICES ASSUME NEW c \in After(S, d.time), c \notin N PROVE FALSE
      OBVIOUS
    <2>1. c \in Rest /\ c.time > d.time /\ c.time \in Int /\ d.time \in Int
      BY <1>4 DEF After, Timed
    <2> QED BY <1>4, <2>1
  <1>6. ~ (Cardinality(After(S, d.time)) < n)
    BY <1>4, NewestIs
  <1>7. Cardinality(After(S, d.time)) <= Cardinality(N) /\ Cardinality(After(S, d.time)) \in Nat
    BY <1>2, <1>5, FS_Subset, FS_CardinalityType
  <1> QED BY <1>2, <1>6, <1>7

\* A part of the candles that has the newest has the same newest.
LEMMA NewestAgree ==
    ASSUME NEW A, NEW B, Timed(A), Timed(B), NEW n \in Nat,
           \A a \in A : \E b \in B : b.time = a.time,
           Newest(B, CandleTime, n) \subseteq A
    PROVE  Newest(A, CandleTime, n) = Newest(B, CandleTime, n)
  <1> DEFINE N == Newest(B, CandleTime, n)
  <1>1. ASSUME NEW a \in A, NEW b \in N, a.time = b.time PROVE a = b
    BY <1>1 DEF Timed
  <1>2. ASSUME NEW c \in N PROVE c \in Newest(A, CandleTime, n)
    <2>1. c \in A /\ c \in B /\ Cardinality(After(B, c.time)) < n
      BY NewestIs
    <2>2. After(A, c.time) \in SUBSET After(B, c.time)
      <3> SUFFICES ASSUME NEW a \in After(A, c.time) PROVE a \in After(B, c.time)
        OBVIOUS
      <3>1. a \in A /\ a.time > c.time
        BY DEF After
      <3>2. PICK b \in B : b.time = a.time
        BY <3>1
      <3>3. b \in N
        <4> SUFFICES ASSUME b \in B \ N PROVE FALSE
          OBVIOUS
        <4>1. b.time < c.time /\ b.time \in Int /\ c.time \in Int
          BY <2>1, NewestAreNewer DEF Timed
        <4> QED BY <3>1, <3>2, <4>1
      <3> QED BY <1>1, <3>1, <3>2, <3>3 DEF After
    <2>3. After(B, c.time) \in SUBSET B
      BY DEF After
    <2>4. IsFiniteSet(After(B, c.time)) /\ Cardinality(After(B, c.time)) \in Nat
      BY <2>3, FS_Subset, FS_CardinalityType DEF Timed
    <2>5. Cardinality(After(A, c.time)) <= Cardinality(After(B, c.time)) /\ Cardinality(After(A, c.time)) \in Nat
      BY <2>2, <2>4, FS_Subset, FS_CardinalityType
    <2> QED BY <2>1, <2>4, <2>5, NewestIs
  <1>3. ASSUME NEW a \in Newest(A, CandleTime, n) PROVE a \in N
    <2>1. a \in A /\ Cardinality(After(A, a.time)) < n
      BY NewestIs
    <2>2. PICK b \in B : b.time = a.time
      BY <2>1
    <2>3. b \in N
      <3> SUFFICES ASSUME b \in B \ N PROVE FALSE
        OBVIOUS
      <3>1. IsFiniteSet(N) /\ Cardinality(N) >= n
        BY NewestAreMany
      <3>2. \A c \in N : b.time < c.time /\ b.time \in Int /\ c.time \in Int
        BY NewestAreNewer, NewestIs DEF Timed
      <3>3. N \in SUBSET After(A, a.time)
        BY <2>2, <3>2 DEF After
      <3>4. After(A, a.time) \in SUBSET A
        BY DEF After
      <3>5. IsFiniteSet(After(A, a.time)) /\ Cardinality(After(A, a.time)) \in Nat
        BY <3>4, FS_Subset, FS_CardinalityType DEF Timed
      <3>6. Cardinality(N) <= Cardinality(After(A, a.time)) /\ Cardinality(N) \in Nat
        BY <3>1, <3>3, <3>5, FS_Subset, FS_CardinalityType
      <3> QED BY <2>1, <3>1, <3>5, <3>6
    <2> QED BY <1>1, <2>1, <2>2, <2>3
  <1> QED BY <1>2, <1>3

-----------------------------------------------------------------------------
\* The entries of a stream that hold a bar, and those read of them
Barred(entries) ==
    /\ entries \in Seq(Range(entries))
    /\ \A i \in DOMAIN entries : HasBar(entries[i], "X") => entries[i].bar.time \in Int
First(entries, n) == IF Len(entries) > n THEN Len(entries) - n + 1 ELSE 1
Mine(entries, n) == {i \in First(entries, n) .. Len(entries) : HasBar(entries[i], "X")}
Times(entries, n) == {entries[i].bar.time : i \in Mine(entries, n)}
At(entries, n, t) == {i \in Mine(entries, n) : entries[i].bar.time = t}
IsFirstAt(entries, n, t, i) == i \in At(entries, n, t) /\ \A j \in At(entries, n, t) : i <= j

LEMMA MineIs ==
    ASSUME NEW entries, Barred(entries), NEW n \in Nat
    PROVE  /\ Len(entries) \in Nat /\ DOMAIN entries = 1 .. Len(entries) /\ First(entries, n) \in Nat \ {0}
           /\ Mine(entries, n) \subseteq DOMAIN entries
           /\ \A i \in Mine(entries, n) : HasBar(entries[i], "X") /\ entries[i].bar.time \in Int
           /\ Mine(entries, Len(entries)) = {i \in DOMAIN entries : HasBar(entries[i], "X")}
  <1>1. Len(entries) \in Nat /\ DOMAIN entries = 1 .. Len(entries)
    BY DEF Barred
  <1>2. First(entries, n) \in Nat \ {0} /\ First(entries, Len(entries)) = 1
    BY <1>1 DEF First
  <1>3. Mine(entries, n) \subseteq DOMAIN entries
    BY <1>1, <1>2 DEF Mine
  <1>4. \A i \in Mine(entries, n) : HasBar(entries[i], "X") /\ entries[i].bar.time \in Int
    BY <1>3 DEF Mine, Barred
  <1>5. Mine(entries, Len(entries)) = {i \in DOMAIN entries : HasBar(entries[i], "X")}
    BY <1>1, <1>2 DEF Mine
  <1> QED BY <1>1, <1>2, <1>3, <1>4, <1>5

\* A bar is read if an entry with it is; of several the first is.
LEMMA BarsOfIs ==
    ASSUME NEW entries, Barred(entries), NEW n \in Nat
    PROVE  /\ DOMAIN BarsOf(entries, "X", n) = Times(entries, n)
           /\ \A t, i : IsFirstAt(entries, n, t, i) => BarsOf(entries, "X", n)[t] = entries[i].bar
           /\ \A t : At(entries, n, t) # {} => \E i : IsFirstAt(entries, n, t, i)
  <1> DEFINE mine == Mine(entries, n)
             kept == {i \in mine : \A j \in mine : entries[j].bar.time = entries[i].bar.time => i <= j}
  <1>1. BarsOf(entries, "X", n) =
            [t \in {entries[i].bar.time : i \in kept} |->
                entries[CHOOSE i \in kept : entries[i].bar.time = t].bar]
    BY Zenon DEF BarsOf, Mine, First
  <1>2. mine \subseteq Nat
    BY MineIs, SMTT(30)
  <1>3. ASSUME NEW t, At(entries, n, t) # {} PROVE \E i : IsFirstAt(entries, n, t, i)
    <2>1. At(entries, n, t) \in SUBSET Nat
      BY <1>2 DEF At
    <2> QED BY <1>3, <2>1, LeastNumber DEF IsFirstAt
  <1>4. ASSUME NEW t, NEW i PROVE IsFirstAt(entries, n, t, i) <=> i \in kept /\ entries[i].bar.time = t
    BY DEF IsFirstAt, At
  <1>5. {entries[i].bar.time : i \in kept} = {entries[i].bar.time : i \in mine}
    <2>1. ASSUME NEW i \in mine PROVE \E j \in kept : entries[j].bar.time = entries[i].bar.time
      <3>1. i \in At(entries, n, entries[i].bar.time)
        BY DEF At
      <3> QED BY <1>3, <1>4, <3>1
    <2> QED BY <2>1
  <1>6. ASSUME NEW t, NEW i, IsFirstAt(entries, n, t, i) PROVE BarsOf(entries, "X", n)[t] = entries[i].bar
    <2>1. i \in kept /\ entries[i].bar.time = t /\ \A j \in kept : entries[j].bar.time = t => j = i
      <3>1. ASSUME NEW j \in kept, entries[j].bar.time = t PROVE j = i
        <4>1. IsFirstAt(entries, n, t, j)
          BY <1>4, <3>1
        <4>2. i <= j /\ j <= i /\ i \in Nat /\ j \in Nat
          BY <1>2, <1>6, <4>1 DEF IsFirstAt, At
        <4> QED BY <4>2
      <3> QED BY <1>4, <1>6, <3>1
    <2> HIDE DEF kept
    <2> QED BY <1>1, <2>1
  <1> QED BY <1>1, <1>3, <1>5, <1>6 DEF Times

\* A stream's part read and the whole of it agree on a time all of whose entries are read.
LEMMA ReadAlike ==
    ASSUME NEW entries, Barred(entries), NEW n \in Nat, NEW t,
           \A i \in At(entries, Len(entries), t) : i \in Mine(entries, n)
    PROVE  /\ t \in DOMAIN BarsOf(entries, "X", n) <=> t \in DOMAIN BarsOf(entries, "X", Len(entries))
           /\ t \in DOMAIN BarsOf(entries, "X", n) =>
                BarsOf(entries, "X", n)[t] = BarsOf(entries, "X", Len(entries))[t]
  <1> DEFINE whole == Len(entries)
  <1>1. whole \in Nat /\ Mine(entries, n) \subseteq Mine(entries, whole)
    BY MineIs
  <1>2. At(entries, n, t) = At(entries, whole, t)
    BY <1>1 DEF At
  <1>3. /\ t \in DOMAIN BarsOf(entries, "X", n) <=> At(entries, n, t) # {}
        /\ t \in DOMAIN BarsOf(entries, "X", whole) <=> At(entries, whole, t) # {}
    <2>1. ASSUME NEW m \in Nat
          PROVE  t \in DOMAIN BarsOf(entries, "X", m) <=> At(entries, m, t) # {}
      <3>1. DOMAIN BarsOf(entries, "X", m) = Times(entries, m)
        BY BarsOfIs
      <3> QED BY <3>1 DEF At, Times
    <2> QED BY <1>1, <2>1
  <1>4. ASSUME At(entries, n, t) # {}
        PROVE  BarsOf(entries, "X", n)[t] = BarsOf(entries, "X", whole)[t]
    <2>1. PICK i : IsFirstAt(entries, n, t, i)
      BY <1>4, BarsOfIs
    <2>2. IsFirstAt(entries, whole, t, i)
      BY <1>2, <2>1 DEF IsFirstAt
    <2>3. BarsOf(entries, "X", n)[t] = entries[i].bar
      BY <2>1, BarsOfIs
    <2>4. BarsOf(entries, "X", whole)[t] = entries[i].bar
      BY <1>1, <2>2, BarsOfIs
    <2> QED BY <2>3, <2>4
  <1> QED BY <1>2, <1>3, <1>4

\* Every time read is one of the stream.
LEMMA ReadIsThere ==
    ASSUME NEW entries, Barred(entries), NEW n \in Nat
    PROVE  /\ DOMAIN BarsOf(entries, "X", n) \subseteq DOMAIN BarsOf(entries, "X", Len(entries))
           /\ IsFiniteSet(DOMAIN BarsOf(entries, "X", n))
           /\ \A t \in DOMAIN BarsOf(entries, "X", n) : t \in Int
  <1>1. Len(entries) \in Nat /\ Mine(entries, n) \subseteq Mine(entries, Len(entries))
    BY MineIs
  <1>2. /\ DOMAIN BarsOf(entries, "X", n) = Times(entries, n)
        /\ DOMAIN BarsOf(entries, "X", Len(entries)) = Times(entries, Len(entries))
    <2>1. \A m \in Nat : DOMAIN BarsOf(entries, "X", m) = Times(entries, m)
      BY BarsOfIs
    <2> QED BY <1>1, <2>1
  <1>3. IsFiniteSet(Mine(entries, n))
    <2>1. Mine(entries, n) \in SUBSET (1 .. Len(entries))
      BY MineIs
    <2>2. IsFiniteSet(1 .. Len(entries))
      BY <1>1, FS_Interval
    <2> QED BY <2>1, <2>2, FS_Subset
  <1>4. IsFiniteSet(Times(entries, n))
    <2> DEFINE f == [i \in Mine(entries, n) |-> entries[i].bar.time]
    <2>1. DOMAIN f = Mine(entries, n) /\ Range(f) = Times(entries, n)
      BY DEF Range, Times
    <2> HIDE DEF f
    <2>2. IsFiniteSet(DOMAIN f)
      BY <1>3, <2>1
    <2> QED BY <2>1, <2>2, FinitelyMany
  <1>5. \A t \in Times(entries, n) : t \in Int
    BY MineIs, SMTT(30) DEF Times
  <1> QED BY <1>1, <1>2, <1>4, <1>5 DEF Times

-----------------------------------------------------------------------------
\* A time and the start of its period
LEMMA InPeriod ==
    ASSUME NEW t \in Int, NEW minutes \in Nat \ {0}
    PROVE  /\ Bucket(t, minutes) \in Int /\ Bucket(t, minutes) <= t
           /\ t - Bucket(t, minutes) \in 0 .. minutes - 1
           /\ \A u \in Int : t <= u => Bucket(t, minutes) <= Bucket(u, minutes)
  <1> DEFINE q == t \div minutes
  <1>1. q \in Int /\ t % minutes \in 0 .. minutes - 1
    OBVIOUS
  <1>2. t = minutes * q + (t % minutes)
    OBVIOUS
  <1>3. q * minutes = minutes * q /\ q * minutes \in Int
    BY <1>1
  <1>4. ASSUME NEW u \in Int, t <= u PROVE Bucket(t, minutes) <= Bucket(u, minutes)
    <2> DEFINE p == u \div minutes
    <2>1. p \in Int /\ u = minutes * p + (u % minutes) /\ u % minutes \in 0 .. minutes - 1
      OBVIOUS
    <2>2. p * minutes = minutes * p /\ p * minutes \in Int
      BY <2>1
    <2>3. q <= p
      <3> SUFFICES ASSUME p + 1 <= q PROVE FALSE
        BY <1>1, <2>1
      <3> HIDE DEF p, q
      <3>1. minutes * (p + 1) <= minutes * q
        BY <1>1, <2>1
      <3>2. minutes * (p + 1) = minutes * p + minutes
        BY <2>1
      <3>3. PICK a \in Int, b \in Int : a = minutes * p /\ b = minutes * q
        BY <1>1, <2>1
      <3>4. b >= a + minutes
        BY <3>1, <3>2, <3>3
      <3>5. t = b + (t % minutes) /\ u = a + (u % minutes)
        BY <1>2, <2>1, <3>3
      <3> QED BY <1>1, <1>4, <2>1, <3>3, <3>4, <3>5
    <2> HIDE DEF p, q
    <2>4. q * minutes <= p * minutes
      BY <1>1, <2>1, <2>3
    <2> QED BY <2>4 DEF Bucket, p, q
  <1> HIDE DEF q
  <1>5. q * minutes <= t /\ t - q * minutes \in 0 .. minutes - 1
    <2>1. PICK a \in Int : a = q * minutes
      BY <1>3
    <2>2. t = a + (t % minutes)
      BY <1>2, <1>3, <2>1
    <2> QED BY <1>1, <2>1, <2>2
  <1> QED BY <1>3, <1>4, <1>5 DEF Bucket, q

-----------------------------------------------------------------------------
\* Bars of finitely many minutes
Bars(bars) == IsFiniteSet(DOMAIN bars) /\ \A u \in DOMAIN bars : u \in Int

LEMMA CandlesAreTimed ==
    ASSUME NEW bars, Bars(bars), NEW minutes \in Nat \ {0} PROVE Timed(Resample(bars, minutes))
  <1>1. IsFiniteSet(Resample(bars, minutes))
    BY FinitelyManyCandles DEF Bars
  <1>2. ASSUME NEW c \in Resample(bars, minutes) PROVE c.time \in Int
    <2>1. PICK u \in DOMAIN bars : Bucket(u, minutes) = c.time
      BY ResampleIs
    <2> QED BY <2>1, InPeriod DEF Bars
  <1>3. ASSUME NEW c \in Resample(bars, minutes), NEW d \in Resample(bars, minutes), c.time = d.time
        PROVE  c = d
    <2>1. c = CandleAt(bars, minutes, c.time) /\ d = CandleAt(bars, minutes, d.time)
      BY ResampleIs
    <2> QED BY <1>3, <2>1
  <1> QED BY <1>1, <1>2, <1>3 DEF Timed

\* From one of the newest candles on there are no more minutes than these candles have.
LEMMA FewTimes ==
    ASSUME NEW bars, Bars(bars), NEW minutes \in Nat \ {0}, NEW count \in Nat,
           NEW c \in Newest(Resample(bars, minutes), CandleTime, count),
           NEW S \in SUBSET DOMAIN bars, \A t \in S : c.time <= Bucket(t, minutes)
    PROVE  Cardinality(S) \in Nat /\ Cardinality(S) <= count * minutes
  <1> DEFINE B == Resample(bars, minutes)
             Up == After(B, c.time) \cup {c}
             Places == Up \X (0 .. minutes - 1)
             Of(t) == CandleAt(bars, minutes, Bucket(t, minutes))
             f == [t \in S |-> <<Of(t), t - Bucket(t, minutes)>>]
  <1>1. c \in B /\ Cardinality(After(B, c.time)) < count /\ Timed(B)
    BY NewestIs, CandlesAreTimed
  <1>2. /\ IsFiniteSet(After(B, c.time)) /\ Cardinality(After(B, c.time)) \in Nat
        /\ IsFiniteSet(Up) /\ Cardinality(Up) \in Nat /\ Cardinality(Up) <= count
    <2>1. After(B, c.time) \in SUBSET B
      BY DEF After
    <2>2. IsFiniteSet(After(B, c.time)) /\ Cardinality(After(B, c.time)) \in Nat
      BY <1>1, <2>1, FS_Subset, FS_CardinalityType DEF Timed
    <2>3. /\ IsFiniteSet(Up)
          /\ Cardinality(Up) = Cardinality(After(B, c.time))
                \/ Cardinality(Up) = Cardinality(After(B, c.time)) + 1
      <3> HIDE DEF B
      <3> QED BY <2>2, FS_AddElement
    <2> QED BY <1>1, <2>2, <2>3
  <1>3. IsFiniteSet(Places) /\ Cardinality(Places) \in Nat /\ Cardinality(Places) <= count * minutes
    <2>1. IsFiniteSet(0 .. minutes - 1) /\ Cardinality(0 .. minutes - 1) = minutes
      BY FS_Interval
    <2> HIDE DEF Up
    <2>2. IsFiniteSet(Places) /\ Cardinality(Places) = Cardinality(Up) * Cardinality(0 .. minutes - 1)
      BY <1>2, <2>1, FS_Product
    <2>3. Cardinality(Places) = Cardinality(Up) * minutes
      BY <2>1, <2>2
    <2> QED BY <1>2, <2>2, <2>3, FS_CardinalityType
  <1>4. ASSUME NEW t \in S
        PROVE  /\ t \in Int /\ Bucket(t, minutes) \in Int /\ t - Bucket(t, minutes) \in 0 .. minutes - 1
               /\ Of(t) \in Up /\ Of(t).time = Bucket(t, minutes)
    <2>1. t \in DOMAIN bars /\ t \in Int
      BY DEF Bars
    <2>2. Bucket(t, minutes) \in Int /\ t - Bucket(t, minutes) \in 0 .. minutes - 1
      BY <2>1, InPeriod
    <2>3. Of(t) \in B /\ Of(t).time = Bucket(t, minutes)
      BY <2>1, ResampleIs
    <2>4. ASSUME NEW d \in B, c.time <= d.time PROVE d \in Up
      <3>1. c.time \in Int /\ d.time \in Int /\ (d.time = c.time => d = c)
        BY <1>1 DEF Timed
      <3> HIDE DEF B
      <3>2. d.time # c.time => d \in After(B, c.time)
        BY <2>4, <3>1 DEF After
      <3> QED BY <3>1, <3>2
    <2>5. c.time <= Of(t).time
      BY <2>3
    <2> HIDE DEF B, Of, Up
    <2> QED BY <2>1, <2>2, <2>3, <2>4, <2>5
  <1>5. f \in Injection(S, Places)
    <2> HIDE DEF Of, Up
    <2>1. f \in [S -> Places]
      BY <1>4
    <2>2. ASSUME NEW t \in S, NEW u \in S, f[t] = f[u] PROVE t = u
      <3>1. Of(t) = Of(u) /\ t - Bucket(t, minutes) = u - Bucket(u, minutes)
        BY <2>2
      <3>2. Bucket(t, minutes) = Bucket(u, minutes)
        BY <1>4, <3>1
      <3> QED BY <1>4, <3>1, <3>2
    <2> HIDE DEF f, Places
    <2> QED BY <2>1, <2>2 DEF Injection, IsInjective
  <1> HIDE DEF f, Places
  <1>6. IsFiniteSet(S) /\ Cardinality(S) <= Cardinality(Places)
    BY <1>3, <1>5, FS_Injection
  <1>7. Cardinality(S) \in Nat
    BY <1>6, FS_CardinalityType
  <1>8. PICK a \in Nat : a = count * minutes
    OBVIOUS
  <1> QED BY <1>3, <1>6, <1>7, <1>8

\* The entries of the newest candles are all read, if no bar was added more than twice.
LEMMA NewestAreRead ==
    ASSUME NEW entries, Barred(entries), AddedTwiceAtMost(entries),
           NEW bars, Bars(bars), DOMAIN BarsOf(entries, "X", Len(entries)) \subseteq DOMAIN bars,
           NEW minutes \in Nat \ {0}, NEW count \in Nat,
           NEW c \in Newest(Resample(bars, minutes), CandleTime, count),
           NEW i \in Mine(entries, Len(entries)), Bucket(entries[i].bar.time, minutes) = c.time
    PROVE  i \in Mine(entries, count * minutes * 2)
  <1> DEFINE t == entries[i].bar.time
             mine == {k \in DOMAIN entries : HasBar(entries[k], "X")}
             later == {k \in mine : t <= entries[k].bar.time}
             S == {entries[j].bar.time : j \in later}
  <1>1. /\ Len(entries) \in Nat /\ Mine(entries, Len(entries)) = mine /\ DOMAIN entries = 1 .. Len(entries)
        /\ \A k \in mine : entries[k].bar.time \in Int
    <2>1. Len(entries) \in Nat
      BY DEF Barred
    <2> QED BY <2>1, MineIs
  <1>2. i \in 1 .. Len(entries) /\ HasBar(entries[i], "X") /\ t \in Int
    BY <1>1
  <1>3. Len(entries) - i + 1 <= 2 * Cardinality(S)
    BY <1>2, <1>1 DEF AddedTwiceAtMost
  <1>4. S \in SUBSET DOMAIN bars
    <2>1. DOMAIN BarsOf(entries, "X", Len(entries)) = Times(entries, Len(entries))
      BY <1>1, BarsOfIs
    <2>2. S \subseteq Times(entries, Len(entries))
      BY <1>1 DEF Times
    <2> QED BY <2>1, <2>2
  <1>5. \A u \in S : c.time <= Bucket(u, minutes)
    <2>1. \A u \in S : u \in Int /\ t <= u
      BY <1>1
    <2> HIDE DEF S, t
    <2>2. \A u \in S : Bucket(t, minutes) <= Bucket(u, minutes)
      BY <1>2, <2>1, InPeriod
    <2> QED BY <2>2 DEF t
  <1> HIDE DEF S
  <1>6. Cardinality(S) \in Nat /\ Cardinality(S) <= count * minutes
    BY <1>4, <1>5, FewTimes
  <1>7. PICK a \in Nat : a = count * minutes
    OBVIOUS
  <1>8. count * minutes * 2 = 2 * a
    BY <1>7
  <1>9. Len(entries) - i + 1 <= 2 * a
    BY <1>1, <1>2, <1>3, <1>6, <1>7
  <1>10. First(entries, 2 * a) <= i
    BY <1>1, <1>2, <1>7, <1>9 DEF First
  <1>11. First(entries, 2 * a) \in Nat
    BY <1>1, <1>7 DEF First
  <1> QED BY <1>1, <1>2, <1>8, <1>10, <1>11, SMTT(30) DEF Mine

\* However many candles the chart shows and whatever their length, every one has all the bars of
\* its period that either stream holds, the live one before the other, as long as no bar was
\* added more than twice and as many entries may be read (api.chart_candles: it reads twice as
\* many entries of each stream as the candles have minutes).
THEOREM ChartOfTwoStreams ==
    ASSUME NEW history, NEW ticks, Barred(history), Barred(ticks),
           AddedTwiceAtMost(history), AddedTwiceAtMost(ticks),
           NEW count \in Nat, NEW minutes \in Nat \ {0}, count * minutes * 2 <= MaxBars
    PROVE  Candles(history, ticks, "X", count, minutes)
            = Newest(Resample(Over(BarsOf(ticks, "X", Len(ticks)), BarsOf(history, "X", Len(history))), minutes),
                     CandleTime, count)
  <1> DEFINE n == count * minutes * 2
             read == Over(BarsOf(ticks, "X", n), BarsOf(history, "X", n))
             known == Over(BarsOf(ticks, "X", Len(ticks)), BarsOf(history, "X", Len(history)))
             A == Resample(read, minutes)
             B == Resample(known, minutes)
  <1>1. n \in Nat /\ MaxBars \in Nat /\ Len(ticks) \in Nat /\ Len(history) \in Nat
    BY PagesAssumption DEF PagesAssumption, Barred
  <1>2. FetchCount(count, minutes) = n
    BY <1>1 DEF FetchCount
  <1> HIDE DEF n
  <1>3. /\ DOMAIN read = DOMAIN BarsOf(ticks, "X", n) \cup DOMAIN BarsOf(history, "X", n)
        /\ DOMAIN known = DOMAIN BarsOf(ticks, "X", Len(ticks)) \cup DOMAIN BarsOf(history, "X", Len(history))
    BY DEF Over
  <1>4. DOMAIN read \subseteq DOMAIN known /\ Bars(read) /\ Bars(known)
    <2>1. ASSUME NEW entries, Barred(entries), NEW m \in Nat PROVE Bars(BarsOf(entries, "X", m))
      BY <2>1, ReadIsThere DEF Bars
    <2>2. /\ DOMAIN BarsOf(ticks, "X", n) \subseteq DOMAIN BarsOf(ticks, "X", Len(ticks))
          /\ DOMAIN BarsOf(history, "X", n) \subseteq DOMAIN BarsOf(history, "X", Len(history))
      BY <1>1, ReadIsThere
    <2>3. /\ Bars(BarsOf(ticks, "X", n)) /\ Bars(BarsOf(ticks, "X", Len(ticks)))
          /\ Bars(BarsOf(history, "X", n)) /\ Bars(BarsOf(history, "X", Len(history)))
      BY <1>1, <2>1
    <2> HIDE DEF read, known
    <2>4. IsFiniteSet(DOMAIN read) /\ IsFiniteSet(DOMAIN known)
      <3>1. ASSUME NEW a, NEW b, Bars(a), Bars(b) PROVE IsFiniteSet(DOMAIN a \cup DOMAIN b)
        BY <3>1, FS_Union DEF Bars
      <3> QED BY <1>3, <2>3, <3>1
    <2> QED BY <1>3, <2>2, <2>3, <2>4 DEF Bars
  <1>5. ASSUME NEW c \in Newest(B, CandleTime, count), NEW entries \in {history, ticks},
               NEW t, Bucket(t, minutes) = c.time
        PROVE  /\ t \in DOMAIN BarsOf(entries, "X", n) <=> t \in DOMAIN BarsOf(entries, "X", Len(entries))
               /\ t \in DOMAIN BarsOf(entries, "X", n) =>
                    BarsOf(entries, "X", n)[t] = BarsOf(entries, "X", Len(entries))[t]
    <2>1. ASSUME NEW i \in At(entries, Len(entries), t) PROVE i \in Mine(entries, n)
      <3>1. i \in Mine(entries, Len(entries)) /\ entries[i].bar.time = t
        BY DEF At
      <3>2. DOMAIN BarsOf(entries, "X", Len(entries)) \subseteq DOMAIN known
        BY <1>3
      <3>3. Barred(entries) /\ AddedTwiceAtMost(entries)
        OBVIOUS
      <3> HIDE DEF known
      <3> QED BY <1>4, <1>5, <3>1, <3>2, <3>3, NewestAreRead DEF n
    <2> QED BY <1>1, <2>1, ReadAlike
  <1>6. ASSUME NEW c \in Newest(B, CandleTime, count) PROVE c \in A
    <2> DEFINE of(bars) == {u \in DOMAIN bars : Bucket(u, minutes) = c.time}
    <2>1. c \in B /\ c = CandleAt(known, minutes, c.time)
      BY NewestIs, ResampleIs
    <2>2. PICK t \in DOMAIN known : Bucket(t, minutes) = c.time
      BY <2>1, ResampleIs
    <2>3. ASSUME NEW u, Bucket(u, minutes) = c.time
          PROVE  /\ u \in DOMAIN read <=> u \in DOMAIN known
                 /\ u \in DOMAIN read => read[u] = known[u]
      BY <1>3, <1>5, <2>3 DEF Over
    <2> HIDE DEF read, known
    <2>4. of(read) = of(known) /\ \A u \in of(read) : read[u] = known[u]
      BY <2>3
    <2>5. CandleAt(read, minutes, c.time) = CandleAt(known, minutes, c.time)
      <3>1. [u \in of(read) |-> read[u]] = [u \in of(known) |-> known[u]]
        BY <2>4
      <3> QED BY <3>1, Zenon DEF CandleAt
    <2>6. t \in DOMAIN read
      BY <2>2, <2>3
    <2> QED BY <2>1, <2>2, <2>5, <2>6, ResampleIs
  <1>7. \A a \in A : \E b \in B : b.time = a.time
    <2> SUFFICES ASSUME NEW a \in A PROVE \E b \in B : b.time = a.time
      OBVIOUS
    <2> HIDE DEF read, known
    <2>1. PICK u \in DOMAIN read : Bucket(u, minutes) = a.time
      BY ResampleIs
    <2>2. u \in DOMAIN known
      BY <1>4
    <2> QED BY <2>1, <2>2, ResampleIs
  <1>8. Timed(A) /\ Timed(B)
    BY <1>4, CandlesAreTimed
  <1>9. Newest(A, CandleTime, count) = Newest(B, CandleTime, count)
    <2> HIDE DEF A, B
    <2> QED BY <1>6, <1>7, <1>8, NewestAgree
  <1>10. Candles(history, ticks, "X", count, minutes) = Newest(A, CandleTime, count)
    BY <1>2 DEF Candles
  <1> QED BY <1>9, <1>10

LEMMA ChartsAreWhole == ASSUME work \in Works PROVE ChartIsWhole
  <1>1. \A entries \in {work.history, work.ticks} : Barred(entries)
    BY PagesAssumption DEF PagesAssumption, Barred
  <1>2. ASSUME NEW count \in 1 .. 2, NEW minutes \in {1, 2, 4},
               AddedTwiceAtMost(work.history), AddedTwiceAtMost(work.ticks), count * minutes * 2 <= MaxBars
        PROVE  Candles(work.history, work.ticks, "X", count, minutes)
                = Newest(Resample(KnownBars, minutes), CandleTime, count)
    <2>1. count \in Nat /\ minutes \in Nat \ {0}
      OBVIOUS
    <2> QED BY <1>1, <1>2, <2>1, ChartOfTwoStreams DEF KnownBars
  <1> QED BY <1>2 DEF ChartIsWhole

\* What the pages show is as new and as whole as what is stored, in every scenario: candles, the
\* trade list, the totals and the overlay (api.chart_candles, journal_trades, journal_aggregate,
\* chart_overlays).
THEOREM DashboardAnswersAreCurrent == Spec => []AnswersAreCurrent
  <1>1. Init => JournalInv /\ SnapInv
    BY InitJournal, InitSnap
  <1>2. JournalInv /\ SnapInv /\ [Next]_vars => (JournalInv /\ SnapInv)'
    BY StepJournal, StepSnap
  <1>3. JournalInv /\ SnapInv => AnswersAreCurrent
    <2> SUFFICES ASSUME JournalInv, SnapInv PROVE AnswersAreCurrent
      OBVIOUS
    <2>1. work \in Works /\ AllOnTime(Records.trades) /\ Dated(Records.snapshots)
      BY RecordsKnown DEF JournalInv, JournalShape
    <2>2. ChartIsWhole
      BY <2>1, ChartsAreWhole
    <2>3. TradesAreNewest
      BY <2>1, ListIsNewest DEF TradesAreNewest
    <2>4. TotalsMissNothing
      <3>1. work.now \in Int /\ (work.newestBar # None => work.newestBar \in Int)
        BY <2>1, PagesAssumption DEF PagesAssumption
      <3> QED BY <2>1, <3>1, TotalsCount DEF TotalsMissNothing
    <2>5. OverlayIsNewest
      <3> SUFFICES ASSUME NEW s \in Records.snapshots,
                          work.now - 2 * DayLength <= s.bar, s.bar < work.now + DayLength, s.overlay,
                          \A o \in Records.snapshots :
                            work.now - 2 * DayLength <= o.bar /\ o.bar < work.now + DayLength => o.bar <= s.bar
                   PROVE  LET view == Overlays(backend["dashboard"], Records, work.now, work.now)
                          IN  view # None /\ view.bar = s.bar
        BY DEF OverlayIsNewest
      <3> QED BY <2>1, OverlayIsOfNewest
    <2> QED BY <2>2, <2>3, <2>4, <2>5 DEF AnswersAreCurrent
  <1> QED BY <1>1, <1>2, <1>3, PTL DEF Spec
==============================================================================
