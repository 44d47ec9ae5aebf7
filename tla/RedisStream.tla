----------------------------- MODULE RedisStream -----------------------------
(***************************************************************************)
(* One Redis stream, one consumer group and the process that consumes it:  *)
(* Publisher.publish, Consumer.connect / consume / run_forever of          *)
(* common/messaging/streams.py, under the lifecycle of common/service.py.  *)
(* Redis itself (XADD with MAXLEN ~, XREADGROUP ">", XACK, the pending     *)
(* entries list) is modelled from how that code uses it.                   *)
(* An entry is its id; whether its payload decodes is all that matters.    *)
(***************************************************************************)
EXTENDS Naturals, FiniteSets

CONSTANTS MaxLen,      \* the MAXLEN cap passed to XADD
          BatchSize,   \* COUNT of XREADGROUP
          MaxPublish,  \* bound: entries ever published
          MaxFaults    \* bound: process deaths and connection errors

ASSUME StreamAssumption ==
    /\ MaxLen \in Nat \ {0}
    /\ BatchSize \in Nat \ {0}
    /\ MaxPublish \in Nat
    /\ MaxFaults \in Nat

Ids == 1..MaxPublish

VARIABLES
    lastId,     \* id of the newest entry, 0 when nothing was published
    stream,     \* ids still held by Redis
    poison,     \* ids whose payload does not decode
    delivered,  \* the group's last-delivered id
    pel,        \* the group's pending entries list
    batch,      \* ids fetched by consume() and not yet looked at
    pc,         \* "poll", "loop", "handling", "acking" or "down"
    cur,        \* the id in the handler (0: none)
    attempts,   \* how often each id was handed to the handler
    handled,    \* ids whose handler returned normally
    failed,     \* ids whose handler raised
    acked,      \* ids acknowledged by the code
    stranded,   \* history: ids delivered, but left by a fault before the handler
    client,     \* has the Consumer a client (_client is not None)
    group,      \* does Redis know the consumer group
    faults      \* process deaths and connection errors so far

link == <<client, group>>
vars == <<lastId, stream, poison, delivered, pel, batch, pc, cur,
          attempts, handled, failed, acked, stranded, link, faults>>

TypeOK ==
    /\ lastId \in 0..MaxPublish
    /\ stream \subseteq 1..lastId
    /\ poison \subseteq 1..lastId
    /\ delivered \in 0..lastId
    /\ pel \subseteq 1..delivered
    /\ batch \subseteq pel
    /\ pc \in {"poll", "loop", "handling", "acking", "down"}
    /\ cur \in 0..lastId
    /\ attempts \in [Ids -> Nat]
    /\ handled \subseteq Ids
    /\ failed \subseteq Ids
    /\ acked \subseteq Ids
    /\ stranded \subseteq Ids
    /\ link \in BOOLEAN \X BOOLEAN
    /\ faults \in 0..MaxFaults

Init ==
    /\ lastId = 0
    /\ stream = {}
    /\ poison = {}
    /\ delivered = 0
    /\ pel = {}
    /\ batch = {}
    /\ pc = "poll"
    /\ cur = 0
    /\ attempts = [i \in Ids |-> 0]
    /\ handled = {}
    /\ failed = {}
    /\ acked = {}
    /\ stranded = {}
    /\ client = FALSE /\ group = FALSE
    /\ faults = 0

-----------------------------------------------------------------------------
(* Publisher.                                                              *)

\* XADD topic MAXLEN ~ n: the entry is appended and whole radix-tree nodes of
\* the oldest entries may be dropped, never leaving fewer than MaxLen.
Retained(cut) == {i \in stream \cup {lastId + 1} : i > cut}

Publish ==
    /\ lastId < MaxPublish
    /\ lastId' = lastId + 1
    /\ \E cut \in 0..lastId :
          /\ cut = 0 \/ lastId + 1 - cut >= MaxLen
          /\ stream' = Retained(cut)
    /\ \/ poison' = poison
       \/ poison' = poison \cup {lastId + 1}
    /\ UNCHANGED <<delivered, pel, batch, pc, cur, attempts, handled, failed,
                   acked, stranded, link, faults>>

-----------------------------------------------------------------------------
(* Consumer.                                                               *)

\* connect: the client is kept before _ensure_group is tried. The group starts
\* at the beginning of the stream; BUSYGROUP means it is there already.
Connect ==
    /\ pc = "poll" /\ ~client
    /\ client' = TRUE /\ group' = TRUE
    /\ UNCHANGED <<lastId, stream, poison, delivered, pel, batch, pc, cur,
                   attempts, handled, failed, acked, stranded, faults>>

\* xgroup_create raises, with the group created (the answer is lost) or not.
\* run_forever swallows it; the client stays, so consume never connects again.
\* Without a group every XREADGROUP then answers NOGROUP, and nothing happens.
ConnectFails ==
    /\ pc = "poll" /\ ~client
    /\ faults < MaxFaults
    /\ faults' = faults + 1
    /\ client' = TRUE /\ group' \in {group, TRUE}
    /\ UNCHANGED <<lastId, stream, poison, delivered, pel, batch, pc, cur,
                   attempts, handled, failed, acked, stranded>>

Fresh == {i \in stream : i > delivered}

\* What one XREADGROUP ... ">" COUNT BatchSize returns, and what it does to
\* the group: the cursor moves and the entries become pending.
Fetched(hi) == {i \in Fresh : i <= hi}

Deliver(hi) ==
    /\ hi \in Fresh
    /\ \/ Cardinality(Fetched(hi)) = BatchSize
       \/ Fetched(hi) = Fresh /\ Cardinality(Fresh) < BatchSize
    /\ delivered' = hi
    /\ pel' = pel \cup Fetched(hi)

XReadGroup ==
    /\ pc = "poll" /\ client /\ group
    /\ \E hi \in Fresh : Deliver(hi) /\ batch' = Fetched(hi)
    /\ pc' = "loop"
    /\ UNCHANGED <<lastId, stream, poison, cur, attempts, handled, failed,
                   acked, stranded, link, faults>>

\* The connection breaks after the server delivered: xreadgroup raises,
\* run_forever logs, sleeps and polls again; the entries stay pending.
XReadGroupReplyLost ==
    /\ pc = "poll" /\ client /\ group
    /\ faults < MaxFaults
    /\ \E hi \in Fresh : Deliver(hi) /\ stranded' = stranded \cup Fetched(hi)
    /\ faults' = faults + 1
    /\ UNCHANGED <<lastId, stream, poison, batch, pc, cur, attempts, handled,
                   failed, acked, link>>

\* Mutant: the batch is walked from its newest entry.
IsNewest(i) == i \in batch /\ \A j \in batch : i >= j

IsNext(i) == i \in batch /\ \A j \in batch : i <= j

\* _from_json fails: ack and drop.
DropPoison ==
    /\ pc = "loop"
    /\ \E i \in poison :
          /\ IsNext(i)
          /\ batch' = batch \ {i}
          /\ pel' = pel \ {i}
          /\ acked' = acked \cup {i}
    /\ UNCHANGED <<lastId, stream, poison, delivered, pc, cur, attempts,
                   handled, failed, stranded, link, faults>>

StartHandler ==
    /\ pc = "loop"
    /\ \E i \in batch \ poison :
          /\ IsNext(i)
          /\ batch' = batch \ {i}
          /\ cur' = i
          /\ attempts' = [attempts EXCEPT ![i] = @ + 1]
    /\ pc' = "handling"
    /\ UNCHANGED <<lastId, stream, poison, delivered, pel, handled, failed,
                   acked, stranded, link, faults>>

HandlerReturns ==
    /\ pc = "handling"
    /\ pc' = "acking"
    /\ handled' = handled \cup {cur}
    /\ UNCHANGED <<lastId, stream, poison, delivered, pel, batch, cur,
                   attempts, failed, acked, stranded, link, faults>>

\* Mutant: a handler that raises ends consume(), as a failed ack does.
RaiseEndsBatch ==
    /\ pc = "handling"
    /\ pc' = "poll"
    /\ failed' = failed \cup {cur}
    /\ cur' = 0
    /\ batch' = {}
    /\ UNCHANGED <<lastId, stream, poison, delivered, pel, attempts, handled,
                   acked, stranded, link, faults>>

\* except Exception: log and continue with the next entry, without an ack.
HandlerRaises ==
    /\ pc = "handling"
    /\ pc' = "loop"
    /\ failed' = failed \cup {cur}
    /\ cur' = 0
    /\ UNCHANGED <<lastId, stream, poison, delivered, pel, batch, attempts,
                   handled, acked, stranded, link, faults>>

Ack ==
    /\ pc = "acking"
    /\ pc' = "loop"
    /\ pel' = pel \ {cur}
    /\ acked' = acked \cup {cur}
    /\ cur' = 0
    /\ UNCHANGED <<lastId, stream, poison, delivered, batch, attempts,
                   handled, failed, stranded, link, faults>>

\* xack is outside the try block: an error leaves consume() and with it the
\* rest of the batch. Redis may or may not have applied the ack.
AckError ==
    /\ faults < MaxFaults
    /\ \/ /\ pc = "acking"
          /\ pel' \in {pel, pel \ {cur}}
       \/ /\ pc = "loop"
          /\ \E i \in poison : IsNext(i) /\ pel' \in {pel, pel \ {i}}
    /\ pc' = "poll"
    /\ cur' = 0
    /\ batch' = {}
    /\ stranded' = stranded \cup batch
    /\ faults' = faults + 1
    /\ UNCHANGED <<lastId, stream, poison, delivered, attempts, handled,
                   failed, acked, link>>

EndBatch ==
    /\ pc = "loop"
    /\ batch = {}
    /\ pc' = "poll"
    /\ UNCHANGED <<lastId, stream, poison, delivered, pel, batch, cur,
                   attempts, handled, failed, acked, stranded, link, faults>>

-----------------------------------------------------------------------------
(* Process lifecycle.                                                      *)

\* SIGTERM: run_forever tests the stop event between two batches, and the
\* consumer is closed. A process killed between two batches ends the same way.
Stop ==
    /\ pc = "poll"
    /\ faults < MaxFaults
    /\ faults' = faults + 1
    /\ pc' = "down"
    /\ client' = FALSE
    /\ UNCHANGED <<lastId, stream, poison, delivered, pel, batch, cur,
                   attempts, handled, failed, acked, stranded, group>>

\* SIGKILL, out of memory, power: what the process held is gone.
Crash ==
    /\ pc \in {"loop", "handling", "acking"}
    /\ faults < MaxFaults
    /\ faults' = faults + 1
    /\ pc' = "down"
    /\ batch' = {}
    /\ stranded' = stranded \cup batch
    /\ cur' = 0
    /\ client' = FALSE
    /\ UNCHANGED <<lastId, stream, poison, delivered, pel, attempts, handled,
                   failed, acked, group>>

\* A new process has a new consumer name and no client: its first consume()
\* connects, which may fail again. The group and its cursor are the old ones.
Restart ==
    /\ pc = "down"
    /\ pc' = "poll"
    /\ UNCHANGED <<lastId, stream, poison, delivered, pel, batch, cur,
                   attempts, handled, failed, acked, stranded, link, faults>>

-----------------------------------------------------------------------------
ConsumerStep ==
    \/ Connect \/ XReadGroup \/ DropPoison \/ StartHandler \/ HandlerReturns
    \/ HandlerRaises \/ Ack \/ EndBatch \/ Restart

Next ==
    \/ Publish
    \/ ConsumerStep
    \/ ConnectFails
    \/ XReadGroupReplyLost
    \/ AckError
    \/ Stop
    \/ Crash

Spec == Init /\ [][Next]_vars

\* The consumer loop runs as long as the process lives and the container
\* restarts it; nothing forces a publish or a fault.
FairSpec == Spec /\ WF_vars(ConsumerStep)

-----------------------------------------------------------------------------
(* Properties.                                                             *)

\* No entry is handed to the handler twice, whatever fails or restarts:
\* consume() asks for ">" only and nothing claims pending entries, so a
\* service may rely on not seeing a decision a second time.
AtMostOnce == \A i \in Ids : attempts[i] <= 1

\* An acknowledged entry was handled to the end or does not decode: neither a
\* crash nor an error on the way acknowledges work that was not done.
AckOnlyDone == acked \subseteq handled \cup poison

\* An entry that nobody read is gone only when the reader lagged behind by a
\* whole MAXLEN: the cap never drops one of the newest MaxLen entries.
TrimOnlyBehindCap ==
    \A i \in 1..lastId :
        (i > delivered /\ i \notin stream) => lastId - i >= MaxLen

\* The handler sees entries in the order they were published.
InOrder ==
    [][\A i, j \in Ids :
          (attempts'[i] > attempts[i] /\ attempts[j] > 0) => j < i]_vars

\* The consumer keeps its promise to the handler: one entry at a time, in the
\* order of publication, each at most once, through failing handlers, lost
\* replies, failed acks, crashes and restarts (Consumer.consume, run_forever).
Promise == INSTANCE OnceInOrder WITH
    last <- lastId,
    given <- {i \in Ids : attempts[i] > 0},
    running <- IF pc = "handling" THEN cur ELSE 0,
    done <- handled,
    raised <- failed
KeepsPromise == Promise!Spec

\* Once the group is there, no entry waits for ever under a live consumer: it
\* is handed over, dropped as undecodable, trimmed unread, or was on its way
\* when a fault cut the batch short (a lost reply, a failed ack, a crash). A
\* handler that raises costs the batch nothing (consume, run_forever).
Settled(i) ==
    \/ attempts[i] > 0
    \/ i \in acked
    \/ i \notin stream /\ i \notin batch
    \/ i \in stranded
EveryEntrySettles == \A i \in Ids : (i <= lastId /\ group) ~> Settled(i)

-----------------------------------------------------------------------------
(* What the docstring says of the consumer and the code does not give.      *)

\* "Run consume in a loop until stop_event is set", "keep the loop alive"
\* (Consumer.run_forever): a live consumer gets to every entry, whatever its
\* first connect ran into.
EveryEntryIsReached == \A i \in Ids : (i <= lastId) ~> Settled(i)

=============================================================================
