-------------------------------- MODULE LiveFeed --------------------------------
(***************************************************************************)
(* The dashboard's live feed: one task reads the trading streams and hands *)
(* every entry to the broker, which sends it to the sockets subscribed to  *)
(* its topic. Sockets come, change their subscriptions and go between any  *)
(* two sends: the broker's lock covers its two registers, not a broadcast. *)
(***************************************************************************)
EXTENDS Integers, FiniteSets, SequencesExt, Maybe

CONSTANTS
    Streams, Topics, TopicOf,   \* what is read, and the topic each stream is shown under
    Sockets,
    ReadCount,                  \* entries of one stream in one answer
    MaxEntries, MaxDrops        \* bounds: entries of all streams, lost connections to Redis

ASSUME FeedAssumption ==
    TopicOf \in [Streams -> Topics] /\ ReadCount \in Nat \ {0} /\ None \notin Nat

VARIABLES
    length,    \* entries added to each stream; an entry is its number
    reader,    \* "down" | "ready" | "waiting" | "sending" | "broadcasting"
    cursor,    \* last entry read of each stream, None for "$"
    since,     \* the entry of each stream after which the answer begins or goes on
    response,  \* how many entries of each stream the answer has yet to send
    targets,   \* sockets the broadcast under way has still to reach
    dead,      \* sockets it could not reach
    shown,     \* history: entries sent to the broker since the last connect, by stream
    drops,
    clients,   \* the broker's register: topics of each socket
    byTopic,   \* its index: sockets of each topic
    alive,     \* sockets whose connection stands
    got        \* history: what each socket received
feedVars == <<length, reader, cursor, since, response, targets, dead, shown, drops,
              clients, byTopic, alive, got>>
readerVars == <<reader, cursor, since, response, targets, dead, shown, drops>>

FeedInit ==
    /\ length = [s \in Streams |-> 0]
    /\ reader = "down" /\ drops = 0
    /\ cursor = [s \in Streams |-> None] /\ since = [s \in Streams |-> 0]
    /\ response = [s \in Streams |-> 0] /\ targets = {} /\ dead = {} /\ shown = [s \in Streams |-> {}]
    /\ clients = <<>> /\ byTopic = [t \in Topics |-> {}] /\ alive = {}
    /\ got = [w \in Sockets |-> <<>>]

\* A service adds to its stream
Publish(s) ==
    /\ FoldFunction(+, 0, length) < MaxEntries
    /\ length' = [length EXCEPT ![s] = @ + 1]
    /\ UNCHANGED <<readerVars, clients, byTopic, alive, got>>

-----------------------------------------------------------------------------
\* The reader

\* Every connection starts from "$": what was added while it was down is not shown
Connect ==
    /\ reader = "down" /\ reader' = "ready"
    /\ cursor' = [s \in Streams |-> None] /\ shown' = [s \in Streams |-> {}]
    /\ UNCHANGED <<length, since, response, targets, dead, drops, clients, byTopic, alive, got>>

SinceEnd(s) == length[s]

\* "$" is the stream's end at the moment of each read, not of the first
Since(s) == IF cursor[s] = None THEN length[s] ELSE cursor[s]

Read ==
    /\ reader = "ready" /\ reader' = "waiting"
    /\ since' = [s \in Streams |-> Since(s)]
    /\ UNCHANGED <<length, cursor, response, targets, dead, shown, drops, clients, byTopic, alive, got>>

Fetched(s) == IF length[s] - since[s] < ReadCount THEN length[s] - since[s] ELSE ReadCount

\* Nothing new within the block time reads again
Answer ==
    /\ reader = "waiting"
    /\ response' = [s \in Streams |-> Fetched(s)]
    /\ reader' = IF \A s \in Streams : response'[s] = 0 THEN "ready" ELSE "sending"
    /\ UNCHANGED <<length, cursor, since, targets, dead, shown, drops, clients, byTopic, alive, got>>

\* An error ends the connection; the loop connects again after a pause
Drop ==
    /\ reader \in {"ready", "waiting"} /\ drops < MaxDrops
    /\ reader' = "down" /\ drops' = drops + 1
    /\ UNCHANGED <<length, cursor, since, response, targets, dead, shown, clients, byTopic, alive, got>>

\* The answer is gone through stream after stream
Current == CHOOSE s \in Streams : response[s] > 0
Entry == since[Current] + 1

\* An entry that cannot be decoded is passed over
Forward(readable) ==
    /\ reader = "sending" /\ reader' = "broadcasting"
    /\ cursor' = [cursor EXCEPT ![Current] = Entry]
    /\ shown' = [shown EXCEPT ![Current] = @ \cup {Entry}]
    /\ targets' = IF readable THEN byTopic[TopicOf[Current]] ELSE {}
    /\ UNCHANGED <<length, since, response, dead, drops, clients, byTopic, alive, got>>

\* The sends go on outside the lock, to the sockets registered when it was held
Send(w) ==
    /\ reader = "broadcasting" /\ w \in targets
    /\ targets' = targets \ {w}
    /\ IF w \in alive
       THEN got' = [got EXCEPT ![w] = Append(@, <<Current, Entry>>)] /\ UNCHANGED dead
       ELSE dead' = dead \cup {w} /\ UNCHANGED got
    /\ UNCHANGED <<length, reader, cursor, since, response, shown, drops, clients, byTopic, alive>>

LeaveOne(registers, gone) ==
    /\ clients' = [w \in DOMAIN registers \ gone |-> registers[w]]
    /\ UNCHANGED byTopic

Leave(registers, gone) ==
    /\ clients' = [w \in DOMAIN registers \ gone |-> registers[w]]
    /\ byTopic' = [t \in Topics |->
            byTopic[t] \ {w \in gone : w \in DOMAIN registers /\ t \in registers[w]}]

\* The sockets that failed leave the registers; their handlers may still be running
EndBroadcast ==
    /\ reader = "broadcasting" /\ targets = {}
    /\ Leave(clients, dead) /\ dead' = {}
    /\ since' = [since EXCEPT ![Current] = @ + 1]
    /\ response' = [response EXCEPT ![Current] = @ - 1]
    /\ reader' = IF \A s \in Streams : response'[s] = 0 THEN "ready" ELSE "sending"
    /\ UNCHANGED <<length, cursor, targets, shown, drops, alive, got>>

-----------------------------------------------------------------------------
\* The sockets

\* Once authorised a socket is subscribed to every topic, as long as it lasts
Accept(w) ==
    /\ w \notin alive /\ w \notin DOMAIN clients /\ got[w] = <<>>
    /\ alive' = alive \cup {w}
    /\ clients' = [v \in DOMAIN clients \cup {w} |-> IF v = w THEN Topics ELSE clients[v]]
    /\ byTopic' = [t \in Topics |-> byTopic[t] \cup {w}]
    /\ UNCHANGED <<length, readerVars, got>>

Subscribe(w, t) ==
    /\ w \in alive /\ w \in DOMAIN clients /\ t \notin clients[w]
    /\ clients' = [clients EXCEPT ![w] = @ \cup {t}]
    /\ byTopic' = [byTopic EXCEPT ![t] = @ \cup {w}]
    /\ UNCHANGED <<length, readerVars, alive, got>>

Unsubscribe(w, t) ==
    /\ w \in alive /\ w \in DOMAIN clients /\ t \in clients[w]
    /\ clients' = [clients EXCEPT ![w] = @ \ {t}]
    /\ byTopic' = [byTopic EXCEPT ![t] = @ \ {w}]
    /\ UNCHANGED <<length, readerVars, alive, got>>

HangUp(w) ==
    /\ w \in alive /\ alive' = alive \ {w}
    /\ UNCHANGED <<length, readerVars, clients, byTopic, got>>

\* The handler notices and unregisters the socket, if a broadcast has not done so before
Disconnect(w) ==
    /\ w \notin alive /\ w \in DOMAIN clients
    /\ Leave(clients, {w})
    /\ UNCHANGED <<length, readerVars, alive, got>>

FeedNext ==
    \/ \E s \in Streams : Publish(s)
    \/ Connect \/ Read \/ Answer \/ Drop \/ EndBroadcast
    \/ \E readable \in BOOLEAN : Forward(readable)
    \/ \E w \in Sockets : Send(w) \/ HangUp(w) \/ Disconnect(w)
    \/ \E w \in Sockets, t \in Topics : Subscribe(w, t) \/ Unsubscribe(w, t)

-----------------------------------------------------------------------------
(* A socket is never sent an entry twice nor after a newer one of its       *)
(* stream, whatever the reconnects, and within one connection to Redis no   *)
(* entry between two shown ones is left out (redis_subscriber._consume,     *)
(* WebSocketBroker.broadcast).                                              *)
FeedInOrder ==
    /\ \A w \in Sockets : \A i, j \in DOMAIN got[w] :
            i < j /\ got[w][i][1] = got[w][j][1] => got[w][i][2] < got[w][j][2]
    /\ \A s \in Streams : \A a, b \in shown[s] : a .. b \subseteq shown[s]

(* The broker's two registers agree, so a socket that has left is in no     *)
(* topic and one that stays is served under each topic it asked for         *)
(* (WebSocketBroker: connect, subscribe, unsubscribe, disconnect and the    *)
(* clean-up after a broadcast, in any order).                               *)
IndexAgrees ==
    \A t \in Topics : byTopic[t] = {w \in DOMAIN clients : t \in clients[w]}
=============================================================================
