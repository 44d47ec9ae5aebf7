-------------------------- MODULE MarketStreamProofs --------------------------
(***************************************************************************)
(* The bus and the market data on it: the consumer group for every cap,    *)
(* batch size and number of entries and faults, the collector and the      *)
(* feature engine for every chart, buffer, clock offset and calendar.      *)
(***************************************************************************)
EXTENDS RedisStream, MarketData, FiniteSetTheorems, SequenceTheorems,
        NaturalsInduction, WellFoundedInduction, TLAPS

\* What makes the three invariants inductive: the handler has seen only
\* entries below everything still in the batch and not beyond the group's
\* cursor, and the entry it holds has been counted.
Seen ==
    \A j \in Ids : attempts[j] > 0 =>
        /\ j <= delivered
        /\ \A i \in batch : j < i

Held ==
    /\ pc \in {"handling", "acking"} => cur \in Ids /\ attempts[cur] > 0
    /\ pc = "acking" => cur \in handled

IInv ==
    /\ TypeOK
    /\ Seen
    /\ Held
    /\ AtMostOnce
    /\ AckOnlyDone
    /\ TrimOnlyBehindCap

LEMMA InitLink == Init => link \in BOOLEAN \X BOOLEAN
  BY DEF Init, link

LEMMA LinkStaysTyped ==
    TypeOK /\ (Connect \/ ConnectFails \/ Stop \/ Crash) => link' \in BOOLEAN \X BOOLEAN
  <1> SUFFICES ASSUME link \in BOOLEAN \X BOOLEAN,
                      Connect \/ ConnectFails \/ Stop \/ Crash
               PROVE  client' \in BOOLEAN /\ group' \in BOOLEAN
    BY DEF TypeOK, link
  <1>1. client \in BOOLEAN /\ group \in BOOLEAN
    BY DEF link
  <1> QED BY <1>1, Zenon DEF Connect, ConnectFails, Stop, Crash

LEMMA InitIInv == Init => IInv
  BY StreamAssumption, InitLink
  DEF StreamAssumption, Init, IInv, TypeOK, Seen, Held, AtMostOnce, AckOnlyDone,
      TrimOnlyBehindCap, Ids

\* XADD: ids grow, and a trim leaves the newest MaxLen entries.
LEMMA PublishIInv == IInv /\ Publish => IInv'
  <1> SUFFICES ASSUME IInv, Publish PROVE IInv'
    OBVIOUS
  <1> USE StreamAssumption DEF StreamAssumption, IInv, Ids
  <1>1. PICK cut \in 0..lastId :
           /\ cut = 0 \/ lastId + 1 - cut >= MaxLen
           /\ stream' = Retained(cut)
    BY DEF Publish
  <1>2. TypeOK'
    <2>1. /\ lastId \in Nat /\ lastId' = lastId + 1
          /\ lastId' \in 0..MaxPublish
      BY DEF Publish, TypeOK
    <2>2. \A n \in 0..lastId : n \in 0..lastId'
      BY <2>1
    <2>3. \A n \in 1..lastId : n \in 1..lastId'
      BY <2>1
    <2>4. lastId + 1 \in 1..lastId'
      BY <2>1
    <2>5. stream' \subseteq 1..lastId'
      BY <1>1, <2>3, <2>4 DEF Retained, TypeOK
    <2>6. poison' \subseteq 1..lastId'
      BY <2>3, <2>4 DEF Publish, TypeOK
    <2>7. delivered' \in 0..lastId' /\ cur' \in 0..lastId'
      BY <2>2 DEF Publish, TypeOK
    <2> QED BY <2>1, <2>5, <2>6, <2>7 DEF Publish, TypeOK
  <1>3. TrimOnlyBehindCap'
    <2> SUFFICES ASSUME NEW i \in 1..lastId', i > delivered', i \notin stream'
                 PROVE  lastId' - i >= MaxLen
      BY DEF TrimOnlyBehindCap
    <2>1. lastId \in Nat /\ lastId' = lastId + 1 /\ delivered' = delivered
      BY DEF Publish, TypeOK
    <2>2. CASE i \in stream \cup {lastId + 1}
      BY <1>1, <2>1, <2>2 DEF Retained
    <2>3. CASE i \notin stream \cup {lastId + 1}
      BY <2>1, <2>3 DEF TrimOnlyBehindCap
    <2> QED BY <2>2, <2>3
  <1>4. Seen' /\ Held' /\ AtMostOnce' /\ AckOnlyDone'
    BY DEF Publish, Seen, Held, AtMostOnce, AckOnlyDone
  <1> QED BY <1>2, <1>3, <1>4

\* XREADGROUP ">": everything fetched lies beyond the old cursor.
LEMMA DeliverIInv ==
    ASSUME IInv, NEW hi \in Fresh, Deliver(hi), pc = "poll",
           UNCHANGED <<lastId, stream, poison, cur, attempts, handled,
                       failed, acked>>,
           faults' \in 0..MaxFaults,
           UNCHANGED link, stranded' \subseteq stranded \cup Fetched(hi),
           \/ batch' = Fetched(hi) /\ pc' = "loop"
           \/ batch' = batch /\ pc' = pc
    PROVE  IInv'
  <1> USE StreamAssumption DEF StreamAssumption, IInv, Ids
  <1>1. hi \in 1..lastId /\ hi > delivered /\ delivered' = hi
    BY DEF Fresh, Deliver, TypeOK
  <1>2. Fetched(hi) \subseteq 1..hi /\ \A i \in Fetched(hi) : i > delivered
    <2> SUFFICES ASSUME NEW i \in Fetched(hi)
                 PROVE  i \in 1..hi /\ i > delivered
      OBVIOUS
    <2>1. i \in stream /\ i > delivered /\ i <= hi
      BY DEF Fetched, Fresh
    <2>2. i \in 1..lastId
      BY <2>1 DEF TypeOK
    <2> QED BY <1>1, <2>1, <2>2
  <1>3. TypeOK'
    <2>1. pel \subseteq 1..hi
      <3> SUFFICES ASSUME NEW i \in pel PROVE i \in 1..hi
        OBVIOUS
      <3>1. i \in 1..delivered /\ delivered \in 0..lastId /\ lastId \in Nat
        BY DEF TypeOK
      <3> QED BY <1>1, <3>1
    <2>2. pel' \subseteq 1..delivered'
      BY <1>1, <1>2, <2>1 DEF Deliver
    <2>3. delivered' \in 0..lastId'
      BY <1>1 DEF TypeOK
    <2>4. batch' \subseteq pel'
      BY DEF Deliver, TypeOK
    <2>5. pc' \in {"poll", "loop", "handling", "acking", "down"}
      OBVIOUS
    <2>6. Fetched(hi) \subseteq Ids
      BY <1>1, <1>2 DEF TypeOK
    <2>7. stranded' \subseteq Ids
      BY <2>6 DEF TypeOK
    <2> QED BY <2>2, <2>3, <2>4, <2>5, <2>7 DEF TypeOK
  <1>4. TrimOnlyBehindCap'
    BY <1>1 DEF TrimOnlyBehindCap, TypeOK
  <1>5. Seen'
    <2> SUFFICES ASSUME NEW j \in Ids, attempts[j] > 0
                 PROVE  j <= hi /\ \A i \in batch' : j < i
      BY <1>1 DEF Seen
    <2>1. j <= delivered /\ \A i \in batch : j < i
      BY DEF Seen
    <2>2. \A i \in Fetched(hi) : j < i
      BY <1>1, <1>2, <2>1 DEF TypeOK
    <2>3. \A i \in batch' : j < i
      BY <2>1, <2>2
    <2>4. j \in Nat /\ delivered \in Nat /\ hi \in Nat
      BY <1>1 DEF TypeOK
    <2> QED BY <1>1, <2>1, <2>3, <2>4
  <1>6. Held' /\ AtMostOnce' /\ AckOnlyDone'
    BY DEF Held, AtMostOnce, AckOnlyDone
  <1> QED BY <1>3, <1>4, <1>5, <1>6

\* The handler gets the oldest entry of the batch, for the first time.
LEMMA StartHandlerIInv == IInv /\ StartHandler => IInv'
  <1> SUFFICES ASSUME IInv, StartHandler PROVE IInv'
    OBVIOUS
  <1> USE StreamAssumption DEF StreamAssumption, IInv, Ids
  <1>1. PICK i \in batch \ poison :
           /\ IsNext(i)
           /\ batch' = batch \ {i}
           /\ cur' = i
           /\ attempts' = [attempts EXCEPT ![i] = @ + 1]
    BY DEF StartHandler
  <1>2. i \in Ids /\ i <= delivered /\ i <= lastId
    BY DEF TypeOK
  <1>3. attempts[i] = 0
    BY <1>2 DEF Seen, TypeOK
  <1>4. TypeOK'
    BY <1>1, <1>2 DEF StartHandler, TypeOK
  <1>5. AtMostOnce'
    BY <1>1, <1>2, <1>3 DEF AtMostOnce, TypeOK
  <1>6. Seen'
    BY <1>1, <1>2, <1>3 DEF Seen, TypeOK, IsNext, StartHandler
  <1>7. Held' /\ AckOnlyDone' /\ TrimOnlyBehindCap'
    BY <1>1, <1>2, <1>3
    DEF Held, AckOnlyDone, TrimOnlyBehindCap, StartHandler, TypeOK
  <1> QED BY <1>4, <1>5, <1>6, <1>7

LEMMA BatchInIds == TypeOK => batch \subseteq Ids
  <1> SUFFICES ASSUME TypeOK, NEW i \in batch PROVE i \in Ids
    OBVIOUS
  <1>1. i \in 1..delivered /\ delivered \in 0..lastId /\ lastId \in 0..MaxPublish
    BY DEF TypeOK
  <1> QED BY <1>1, StreamAssumption DEF StreamAssumption, Ids

LEMMA NextIInv == IInv /\ [Next]_vars => IInv'
  <1> SUFFICES ASSUME IInv, [Next]_vars PROVE IInv'
    OBVIOUS
  <1> USE StreamAssumption DEF StreamAssumption, IInv, Ids
  <1>1. CASE Publish
    BY <1>1, PublishIInv
  <1>2. CASE XReadGroup
    <2>1. PICK hi \in Fresh : Deliver(hi) /\ batch' = Fetched(hi)
      BY <1>2 DEF XReadGroup
    <2> QED BY <1>2, <2>1, DeliverIInv DEF XReadGroup, TypeOK
  <1>3. CASE XReadGroupReplyLost
    <2>1. PICK hi \in Fresh : Deliver(hi) /\ stranded' = stranded \cup Fetched(hi)
      BY <1>3 DEF XReadGroupReplyLost
    <2>2. faults' \in 0..MaxFaults
      BY <1>3 DEF XReadGroupReplyLost, TypeOK
    <2> QED BY <1>3, <2>1, <2>2, DeliverIInv DEF XReadGroupReplyLost
  <1>4. CASE DropPoison
    BY <1>4 DEF DropPoison, IsNext, TypeOK, Seen, Held, AtMostOnce,
                AckOnlyDone, TrimOnlyBehindCap
  <1>5. CASE StartHandler
    BY <1>5, StartHandlerIInv
  <1>6. CASE HandlerReturns
    BY <1>6 DEF HandlerReturns, TypeOK, Seen, Held, AtMostOnce,
                AckOnlyDone, TrimOnlyBehindCap
  <1>7. CASE HandlerRaises
    BY <1>7 DEF HandlerRaises, TypeOK, Seen, Held, AtMostOnce,
                AckOnlyDone, TrimOnlyBehindCap
  <1>8. CASE Ack
    BY <1>8 DEF Ack, TypeOK, Seen, Held, AtMostOnce,
                AckOnlyDone, TrimOnlyBehindCap
  <1>9. CASE AckError
    <2>1. pel' \subseteq pel /\ faults' \in 0..MaxFaults
      BY <1>9 DEF AckError, TypeOK
    <2>2. stranded' \subseteq Ids
      BY <1>9, BatchInIds DEF AckError, TypeOK
    <2>3. TypeOK'
      BY <1>9, <2>1, <2>2 DEF AckError, TypeOK
    <2> QED BY <1>9, <2>3 DEF AckError, TypeOK, Seen, Held, AtMostOnce,
                              AckOnlyDone, TrimOnlyBehindCap
  <1>10. CASE EndBatch \/ Restart
    BY <1>10 DEF EndBatch, Restart, TypeOK, Seen, Held,
                 AtMostOnce, AckOnlyDone, TrimOnlyBehindCap
  <1>11. CASE Stop \/ Crash
    <2>1. faults' \in 0..MaxFaults
      BY <1>11 DEF Stop, Crash, TypeOK
    <2>2. /\ UNCHANGED <<lastId, stream, poison, delivered, pel, attempts,
                         handled, failed, acked>>
          /\ batch' \subseteq batch /\ pc' = "down" /\ cur' \in {0, cur}
      BY <1>11 DEF Stop, Crash
    <2>3. 0 \in 0..lastId
      BY DEF TypeOK
    <2>4. stranded' \subseteq Ids /\ link' \in BOOLEAN \X BOOLEAN
      BY <1>11, BatchInIds, LinkStaysTyped DEF Stop, Crash, TypeOK
    <2>5. TypeOK'
      BY <2>1, <2>2, <2>3, <2>4 DEF TypeOK
    <2> QED BY <1>11, <2>5 DEF Stop, Crash, TypeOK, Seen, Held, AtMostOnce,
                               AckOnlyDone, TrimOnlyBehindCap
  <1>12. CASE UNCHANGED vars
    BY <1>12 DEF vars, TypeOK, Seen, Held, AtMostOnce, AckOnlyDone,
                 TrimOnlyBehindCap
  <1>13. CASE Connect \/ ConnectFails
    <2>1. link' \in BOOLEAN \X BOOLEAN
      BY <1>13, LinkStaysTyped
    <2>2. UNCHANGED <<lastId, stream, poison, delivered, pel, batch, pc,
                      cur, attempts, handled, failed, acked, stranded>>
      BY <1>13 DEF Connect, ConnectFails
    <2>3. faults' \in 0..MaxFaults
      <3>1. Connect => faults' = faults
        BY DEF Connect
      <3>2. ConnectFails => faults < MaxFaults /\ faults' = faults + 1
        BY Zenon DEF ConnectFails
      <3> QED BY <1>13, <3>1, <3>2 DEF TypeOK
    <2>4. TypeOK'
      BY <2>1, <2>2, <2>3 DEF TypeOK
    <2> QED BY <2>2, <2>4 DEF Seen, Held, AtMostOnce, AckOnlyDone,
                              TrimOnlyBehindCap
  <1> QED
    BY <1>1, <1>2, <1>3, <1>4, <1>5, <1>6, <1>7, <1>8, <1>9, <1>10,
       <1>11, <1>12, <1>13
    DEF Next, ConsumerStep

LEMMA SpecIInv == Spec => []IInv
  BY InitIInv, NextIInv, PTL DEF Spec

\* Type correctness of the stream, the group and the consuming process.
THEOREM StreamTypeOK == Spec => []TypeOK
  <1>1. IInv => TypeOK
    BY DEF IInv
  <1> QED BY <1>1, SpecIInv, PTL

\* consume() hands no entry to its handler twice, for any number of handler
\* failures, lost replies, failed acks, crashes and restarts.
THEOREM StreamAtMostOnce == Spec => []AtMostOnce
  <1>1. IInv => AtMostOnce
    BY DEF IInv
  <1> QED BY <1>1, SpecIInv, PTL

\* Only a handled or an undecodable entry is ever acknowledged.
THEOREM StreamAckOnlyDone == Spec => []AckOnlyDone
  <1>1. IInv => AckOnlyDone
    BY DEF IInv
  <1> QED BY <1>1, SpecIInv, PTL

\* The MAXLEN cap never drops one of the newest MaxLen unread entries.
THEOREM StreamTrimOnlyBehindCap == Spec => []TrimOnlyBehindCap
  <1>1. IInv => TrimOnlyBehindCap
    BY DEF IInv
  <1> QED BY <1>1, SpecIInv, PTL

\* The handler sees the entries in publication order.
THEOREM StreamInOrder == Spec => InOrder
  <1> DEFINE Order == \A i, j \in Ids :
                (attempts'[i] > attempts[i] /\ attempts[j] > 0) => j < i
  <1>1. IInv /\ [Next]_vars => [Order]_vars
    <2> SUFFICES ASSUME IInv, Next,
                        NEW i \in Ids, NEW j \in Ids,
                        attempts'[i] > attempts[i], attempts[j] > 0
                 PROVE  j < i
      BY DEF vars
    <2>1. attempts \in [Ids -> Nat]
      BY DEF IInv, TypeOK
    <2>2. attempts' # attempts
      BY <2>1
    <2>3. StartHandler
      BY <2>2 DEF Next, ConsumerStep, Connect, ConnectFails, Publish, XReadGroup,
         XReadGroupReplyLost, DropPoison, HandlerReturns, HandlerRaises,
         Ack, AckError, EndBatch, Stop, Crash, Restart
    <2>4. PICK k \in batch \ poison :
             attempts' = [attempts EXCEPT ![k] = @ + 1]
      BY <2>3 DEF StartHandler
    <2>5. i = k
      BY <2>1, <2>4
    <2> QED BY <2>4, <2>5 DEF IInv, Seen
  <1> QED BY <1>1, SpecIInv, PTL DEF Spec, InOrder

-----------------------------------------------------------------------------
\* Handing an entry over is a Give of the promise: it is the first time for this entry, and
\* everything handed over before is older.
LEMMA StartHandlerGives == IInv /\ StartHandler => Promise!Give
  <1> SUFFICES ASSUME IInv, StartHandler PROVE Promise!Give
    OBVIOUS
  <1> USE StreamAssumption DEF StreamAssumption, IInv, Ids
  <1>1. PICK i \in batch \ poison :
           /\ IsNext(i)
           /\ cur' = i
           /\ attempts' = [attempts EXCEPT ![i] = @ + 1]
    BY DEF StartHandler
  <1>2. i \in Ids /\ i \in 1..lastId /\ attempts \in [Ids -> Nat]
    BY DEF TypeOK
  <1> DEFINE given == {j \in Ids : attempts[j] > 0}
  <1>3. \A j \in given : j < i
    BY DEF Seen
  <1>4. {j \in Ids : attempts'[j] > 0} = given \cup {i}
    <2>1. \A j \in Ids : attempts'[j] = IF j = i THEN attempts[j] + 1 ELSE attempts[j]
      BY <1>1, <1>2
    <2>2. attempts[i] + 1 > 0
      BY <1>2
    <2> QED BY <1>2, <2>1, <2>2
  <1>5. (IF pc = "handling" THEN cur ELSE 0) = 0 /\ (IF pc' = "handling" THEN cur' ELSE 0) = i
    BY <1>1 DEF StartHandler
  <1>6. lastId' = lastId /\ handled' = handled /\ failed' = failed
    BY DEF StartHandler
  <1> QED BY <1>2, <1>3, <1>4, <1>5, <1>6 DEF Promise!Give

\* The consumer implements the promise: every step of the stream, the group
\* and the process is one of its steps or none.
THEOREM StreamKeepsPromise == Spec => KeepsPromise
  <1>1. Init => Promise!Init
    BY DEF Init, Promise!Init, Ids
  <1>2. IInv /\ [Next]_vars => [Promise!Next]_(Promise!onceVars)
    <2> SUFFICES ASSUME IInv, [Next]_vars
                 PROVE  Promise!Next \/ UNCHANGED Promise!onceVars
      OBVIOUS
    <2> USE DEF Promise!onceVars
    <2>1. CASE Publish
      <3>1. Promise!Publish
        BY <2>1 DEF Publish, Promise!Publish
      <3> QED BY <3>1 DEF Promise!Next
    <2>2. CASE StartHandler
      BY <2>2, StartHandlerGives DEF Promise!Next
    <2>3. CASE HandlerReturns
      <3>1. cur # 0
        BY <2>3 DEF HandlerReturns, IInv, Held, Ids
      <3>2. Promise!Return
        BY <2>3, <3>1 DEF HandlerReturns, Promise!Return
      <3> QED BY <3>2 DEF Promise!Next
    <2>4. CASE HandlerRaises
      <3>1. cur # 0
        BY <2>4 DEF HandlerRaises, IInv, Held, Ids
      <3>2. Promise!Raise
        BY <2>4, <3>1 DEF HandlerRaises, Promise!Raise
      <3> QED BY <3>2 DEF Promise!Next
    <2>5. CASE Crash /\ pc = "handling"
      <3>1. cur # 0
        BY <2>5 DEF IInv, Held, Ids
      <3>2. Promise!Die
        BY <2>5, <3>1 DEF Crash, Promise!Die
      <3> QED BY <3>2 DEF Promise!Next
    <2>6. CASE Crash /\ pc # "handling"
      BY <2>6 DEF Crash
    <2>7. CASE XReadGroup \/ XReadGroupReplyLost \/ DropPoison \/ EndBatch
      BY <2>7 DEF XReadGroup, XReadGroupReplyLost, DropPoison, EndBatch
    <2>8. CASE Ack \/ AckError \/ Stop \/ Restart
      BY <2>8 DEF Ack, AckError, Stop, Restart
    <2>9. CASE UNCHANGED vars
      BY <2>9 DEF vars
    <2>10. CASE Connect \/ ConnectFails
      BY <2>10 DEF Connect, ConnectFails
    <2> QED
      BY <2>1, <2>2, <2>3, <2>4, <2>5, <2>6, <2>7, <2>8, <2>9, <2>10
      DEF Next, ConsumerStep
  <1> QED BY <1>1, <1>2, SpecIInv, PTL DEF Spec, KeepsPromise, Promise!Spec

-----------------------------------------------------------------------------
(***************************************************************************)
(* Market data                                                             *)
(***************************************************************************)
Bars == [t : {x \in Int : x >= Start}, o : Int, h : Int, l : Int, c : Int, v : Nat]

\* The terminal's bars follow one another, and the forming bar follows them.
ChartOK ==
    /\ chart \in Seq(Bars) /\ Len(chart) >= 1
    /\ now \in Int /\ now >= Start /\ idle \in Nat
    /\ \A i, j \in 1..Len(chart) : i < j => chart[i].t < chart[j].t
    /\ chart[Len(chart)].t < now

\* What was published are bars of the chart, in the chart's order.
TicksOK ==
    /\ ticks \in Seq(Int) /\ taken \in 0..Len(ticks)
    /\ \A i \in 1..Len(ticks) : \E x \in 1..Len(chart) : chart[x].t = ticks[i]
    /\ \A i, j \in 1..Len(ticks) : i <= j => ticks[i] <= ticks[j]

\* A collector that has polled in this minute has the newest bar behind it,
\* and what it remembers is what was published last.
CollectorOK ==
    /\ col \in [up : BOOLEAN, last : Int \cup {None}, polled : BOOLEAN]
    /\ ticks # <<>> /\ col.polled = TRUE => ticks[Len(ticks)] = chart[Len(chart)].t
    /\ col.up = TRUE /\ col.last # None => ticks # <<>> /\ col.last = ticks[Len(ticks)]

\* The next poll may repeat a bar: the process that published it is gone.
MayRepeat == ticks # <<>> /\ (col.up = TRUE => col.last = None)
Repeated == {i \in 2..Len(ticks) : ticks[i] = ticks[i-1]}
RepeatsPaid ==
    /\ failures \in Nat
    /\ Cardinality(Repeated) + (IF MayRepeat THEN 1 ELSE 0) <= failures

\* Bars before the newest one that were due and never came
Missing == {b \in ToSet(chart) : /\ ticks # <<>> /\ ticks[1] < b.t
                                 /\ b.t < chart[Len(chart)].t /\ b.t \notin ToSet(ticks)}
MissingExcused ==
    skipped \in Nat /\ IsFiniteSet(Missing) /\ Cardinality(Missing) <= skipped

\* From each position of the buffer on there is every bar that is behind the
\* cursor, was not lost on the way, and is not older than it.
NoHole ==
    fe.up = TRUE /\ fe.warm = TRUE =>
        /\ Len(fe.bars) >= 1
        /\ \A i \in (1..taken) \ fe.lost, j \in 1..Len(fe.bars) :
              ticks[i] >= fe.bars[j].t => \E m \in j..Len(fe.bars) : fe.bars[m].t = ticks[i]
BufferOK ==
    /\ fe \in [up : BOOLEAN, bars : Seq(Bars), deep : Seq(Bars), offset : Int,
               calendar : {{}, News}, warm : BOOLEAN, fresh : BOOLEAN, lost : SUBSET Nat]
    /\ NoHole
OffsetOK == fe.up = TRUE /\ fe.warm = TRUE /\ fe.fresh = TRUE => fe.offset = TrueOffset

MarketInv ==
    /\ ChartOK /\ TicksOK /\ CollectorOK /\ RepeatsPaid /\ MissingExcused
    /\ BufferOK /\ OffsetOK /\ BlackoutIsSeen

\* Sets of integers with a bound have an extreme member, which is the one
\* that Min and Max choose.
LEMMA LeastOfBounded ==
    ASSUME NEW S \in SUBSET Int, S # {}, NEW low \in Int, \A x \in S : low <= x
    PROVE  \E m \in S : \A x \in S : m <= x
  <1> DEFINE Less == OpToRel(<, Nat)
             Above == {k \in Nat : k + low \in S}
  <1>1. PICK x \in S : TRUE
    OBVIOUS
  <1>2. x - low \in Above
    BY <1>1
  <1>3. \A m, k \in Nat : m < k => <<m, k>> \in Less
    BY DEF OpToRel
  <1>4. IsWellFoundedOn(Less, Nat)
    BY NatLessThanWellFounded
  <1> HIDE DEF Less
  <1>5. PICK k \in Above : \A m \in Above : ~ (<<m, k>> \in Less)
    BY <1>2, <1>4, WFMin
  <1>6. ASSUME NEW y \in S PROVE k + low <= y
    <2>1. y - low \in Above
      OBVIOUS
    <2>2. ~ (y - low < k)
      <3>1. y - low < k => <<y - low, k>> \in Less
        BY <1>5, <1>3, <2>1
      <3> QED BY <1>5, <2>1, <3>1
    <2> QED BY <1>5, <2>1, <2>2
  <1> QED BY <1>5, <1>6

LEMMA MinIsLeast ==
    ASSUME NEW S \in SUBSET Int, S # {}, NEW low \in Int, \A x \in S : low <= x
    PROVE  Min(S) \in S /\ \A x \in S : Min(S) <= x
  <1>1. \E m \in S : \A x \in S : m <= x
    BY LeastOfBounded
  <1> QED BY <1>1 DEF Min

LEMMA MaxIsGreatest ==
    ASSUME NEW S \in SUBSET Int, S # {}, NEW high \in Int, \A x \in S : x <= high
    PROVE  Max(S) \in S /\ \A x \in S : x <= Max(S)
  <1> DEFINE N == {y \in Int : -y \in S}
  <1>1. N \in SUBSET Int /\ -high \in Int /\ \A y \in N : -high <= y
    OBVIOUS
  <1>2. N # {}
    <2>1. PICK x \in S : TRUE
      OBVIOUS
    <2>2. -x \in N
      OBVIOUS
    <2> QED BY <2>2
  <1>3. \E m \in N : \A y \in N : m <= y
    <2> HIDE DEF N
    <2> QED BY <1>1, <1>2, LeastOfBounded
  <1>4. PICK m \in N : \A y \in N : m <= y
    BY <1>3
  <1>5. PICK g \in S : m = -g
    <2>1. -m \in S /\ m = -(-m)
      BY <1>4
    <2> QED BY <2>1
  <1>6. \A x \in S : g >= x
    <2> SUFFICES ASSUME NEW x \in S PROVE g >= x
      OBVIOUS
    <2>1. -x \in N
      OBVIOUS
    <2> HIDE DEF N
    <2> QED BY <1>5, <1>4, <2>1
  <1>7. \E x \in S : \A y \in S : x >= y
    BY <1>5, <1>6
  <1> QED BY <1>7 DEF Max

LEMMA MaxOfTwo ==
    ASSUME NEW a \in Int, NEW b \in Int
    PROVE  Max({a, b}) \in {a, b} /\ Max({a, b}) >= a /\ Max({a, b}) >= b
  <1>1. \E x \in {a, b} : \A y \in {a, b} : x >= y
    OBVIOUS
  <1> QED BY <1>1 DEF Max

\* Cutting a buffer to its newest n bars drops a prefix.
LEMMA LastNTail ==
    ASSUME NEW S, NEW s \in Seq(S), NEW n \in Nat
    PROVE  /\ LastN(s, n) \in Seq(S)
           /\ \E k \in 0..Len(s) :
                /\ Len(LastN(s, n)) = Len(s) - k
                /\ \A j \in 1..(Len(s) - k) : LastN(s, n)[j] = s[j + k]
                /\ n <= Len(s) => k = Len(s) - n
                /\ n >= 1 /\ Len(s) >= 1 => k < Len(s)
  <1> DEFINE e == Len(s) - n + 1
             from == Max({1, e})
  <1>0. e \in Int
    OBVIOUS
  <1>1. from \in {1, e} /\ from >= 1 /\ from >= e
    <2> HIDE DEF e
    <2>1. 1 \in Int
      OBVIOUS
    <2>2. Max({1, e}) \in {1, e} /\ Max({1, e}) >= 1 /\ Max({1, e}) >= e
      BY <1>0, <2>1, MaxOfTwo, Zenon
    <2> QED BY <2>2
  <1>2. LastN(s, n) = SubSeq(s, from, Len(s))
    BY DEF LastN
  <1> HIDE DEF from
  <1>3. from \in Int /\ from <= Len(s) + 1
    BY <1>1
  <1>4. SubSeq(s, from, Len(s)) \in Seq(S)
    BY <1>1, <1>3
  <1>5. Len(SubSeq(s, from, Len(s))) = Len(s) - (from - 1)
    BY <1>1, <1>3
  <1>6. \A j \in 1..(Len(s) - (from - 1)) : SubSeq(s, from, Len(s))[j] = s[j + (from - 1)]
    BY <1>1, <1>3
  <1>7. from - 1 \in 0..Len(s)
    BY <1>1, <1>3
  <1>8. /\ n <= Len(s) => from - 1 = Len(s) - n
        /\ n >= 1 /\ Len(s) >= 1 => from - 1 < Len(s)
    BY <1>1
  <1> QED BY <1>2, <1>4, <1>5, <1>6, <1>7, <1>8

\* A set that takes one element in has at most one more.
LEMMA AtMostOneMore ==
    ASSUME NEW S, NEW x, IsFiniteSet(S)
    PROVE  /\ IsFiniteSet(S \cup {x}) /\ Cardinality(S \cup {x}) \in Nat
           /\ Cardinality(S \cup {x}) <= Cardinality(S) + 1
  <1>1. /\ IsFiniteSet(S \cup {x})
        /\ Cardinality(S \cup {x}) = IF x \in S THEN Cardinality(S) ELSE Cardinality(S) + 1
    BY FS_AddElement
  <1>2. Cardinality(S) \in Nat
    BY FS_CardinalityType
  <1> QED BY <1>1, <1>2

LEMMA BarOfIsBar ==
    ASSUME NEW t \in Int, t >= Start, NEW s \in Shapes
    PROVE  BarOf(t, s) \in Bars /\ BarOf(t, s).t = t
  BY MarketAssumption DEF MarketAssumption, BarOf, Bars

LEMMA MarketInitInv == MarketInit => MarketInv
  <1> SUFFICES ASSUME MarketInit PROVE MarketInv
    OBVIOUS
  <1>1. PICK s \in Shapes : chart = <<BarOf(Start, s)>>
    BY DEF MarketInit
  <1>2. BarOf(Start, s) \in Bars /\ BarOf(Start, s).t = Start /\ Start \in Int
    BY BarOfIsBar, MarketAssumption DEF MarketAssumption
  <1>3. ChartOK
    BY <1>1, <1>2 DEF MarketInit, ChartOK
  <1>4. TicksOK /\ CollectorOK
    BY DEF MarketInit, TicksOK, CollectorOK
  <1>5. RepeatsPaid
    <2>1. Repeated = {}
      BY DEF MarketInit, Repeated
    <2>2. ~MayRepeat /\ failures = 0
      BY DEF MarketInit, MayRepeat
    <2> QED BY <2>1, <2>2, FS_EmptySet DEF RepeatsPaid
  <1>6. MissingExcused
    <2>1. Missing = {}
      BY DEF MarketInit, Missing
    <2> QED BY <2>1, FS_EmptySet DEF MissingExcused, MarketInit
  <1>7. BufferOK /\ OffsetOK
    BY DEF MarketInit, NoFeatures, BufferOK, NoHole, OffsetOK
  <1>8. BlackoutIsSeen
    BY DEF MarketInit, BlackoutIsSeen
  <1> QED BY <1>3, <1>4, <1>5, <1>6, <1>7, <1>8 DEF MarketInv

\* What a fault may do to the count of repeats
LEMMA FailureKeepsPaid ==
    ASSUME MarketInv, Failure \/ UNCHANGED failures,
           UNCHANGED ticks, MayRepeat' => MayRepeat \/ Failure
    PROVE  RepeatsPaid'
  <1>1. Repeated' = Repeated
    BY DEF Repeated
  <1>2. failures \in Nat /\ failures' \in Nat /\ failures <= failures'
    BY DEF MarketInv, RepeatsPaid, Failure
  <1>3. Failure => failures' = failures + 1
    BY DEF Failure
  <1>4. Cardinality(Repeated) \in Nat
    <2>1. IsFiniteSet(2..Len(ticks))
      BY FS_Interval DEF MarketInv, TicksOK
    <2> QED BY <2>1, FS_Subset, FS_CardinalityType DEF Repeated
  <1> QED BY <1>1, <1>2, <1>3, <1>4 DEF MarketInv, RepeatsPaid

\* A minute that ends unpolled may cost its bar, and no other.
LEMMA MinuteInv == ASSUME MarketInv, NEW shape \in Shapes, Minute(shape) PROVE MarketInv'
  <1> DEFINE b == BarOf(now, shape)
             n == Len(chart)
  <1>1. b \in Bars /\ b.t = now /\ now \in Int /\ now >= Start /\ idle \in Nat /\ Start \in Int
    BY BarOfIsBar, MarketAssumption DEF MarketInv, ChartOK, MarketAssumption
  <1>2. /\ chart' = Append(chart, b) /\ now' = now + 1 + idle /\ idle' = 0
        /\ IF col.up /\ ~col.polled THEN Failure ELSE UNCHANGED failures
        /\ skipped' = skipped + (IF col.polled THEN 0 ELSE 1)
        /\ col' = [col EXCEPT !.polled = FALSE]
        /\ UNCHANGED <<ticks, fe, taken, out>>
    BY DEF Minute
  <1> HIDE DEF b
  <1>3. ChartOK /\ chart \in Seq(Bars) /\ n \in Nat \ {0}
    BY DEF MarketInv, ChartOK
  <1>4. /\ chart' \in Seq(Bars) /\ Len(chart') = n + 1 /\ chart'[n + 1] = b
        /\ \A i \in 1..n : chart'[i] = chart[i]
    BY <1>1, <1>2, <1>3
  <1>5. ChartOK'
    <2>1. ASSUME NEW i \in 1..n PROVE chart'[i].t < now
      <3>1. n \in 1..n /\ chart[i] \in Bars /\ chart[n] \in Bars
        BY <1>3
      <3>2. chart[i].t \in Int /\ chart[n].t \in Int
        BY <3>1 DEF Bars
      <3>3. i = n \/ chart[i].t < chart[n].t
        BY <1>3, <3>1 DEF ChartOK
      <3> QED BY <1>1, <1>3, <1>4, <3>2, <3>3 DEF ChartOK
    <2>2. ASSUME NEW i \in 1..Len(chart'), NEW j \in 1..Len(chart'), i < j
          PROVE  chart'[i].t < chart'[j].t
      <3>1. CASE j = n + 1
        BY <1>1, <1>3, <1>4, <2>1, <2>2, <3>1
      <3>2. CASE j \in 1..n
        BY <1>3, <1>4, <2>2, <3>2 DEF ChartOK
      <3> QED BY <1>3, <1>4, <3>1, <3>2
    <2> QED BY <1>1, <1>2, <1>3, <1>4, <2>2 DEF ChartOK
  <1>6. TicksOK'
    <2>1. ASSUME NEW i \in 1..Len(ticks) PROVE \E x \in 1..Len(chart') : chart'[x].t = ticks[i]
      <3>1. PICK x \in 1..n : chart[x].t = ticks[i]
        BY DEF MarketInv, TicksOK
      <3> QED BY <1>3, <1>4, <3>1
    <2> QED BY <1>2, <2>1 DEF MarketInv, TicksOK
  <1>7. /\ col' \in [up : BOOLEAN, last : Int \cup {None}, polled : BOOLEAN]
        /\ col'.up = col.up /\ col'.last = col.last /\ col'.polled = FALSE
    BY <1>2 DEF MarketInv, CollectorOK
  <1>8. CollectorOK'
    BY <1>2, <1>7 DEF MarketInv, CollectorOK
  <1>9. RepeatsPaid'
    <2>1. Failure \/ UNCHANGED failures
      BY <1>2
    <2>2. MayRepeat' = MayRepeat
      BY <1>2, <1>7 DEF MayRepeat
    <2> QED BY <1>2, <2>1, <2>2, FailureKeepsPaid
  <1>10. MissingExcused'
    <2> DEFINE l == chart[n]
    <2>1. Missing' \subseteq Missing \cup {l}
      <3> SUFFICES ASSUME NEW c \in Missing', c # l PROVE c \in Missing
        OBVIOUS
      <3>1. PICK i \in 1..(n + 1) : c = chart'[i]
        BY <1>3, <1>4 DEF Missing, ToSet
      <3>2. i # n + 1
        BY <1>1, <1>4, <3>1 DEF Missing
      <3>3. i \in 1..n /\ i # n /\ c = chart[i]
        BY <1>3, <1>4, <3>1, <3>2
      <3>4. c \in ToSet(chart) /\ c.t < l.t
        BY <1>3, <3>3 DEF ChartOK, ToSet
      <3> QED BY <1>2, <3>4 DEF Missing
    <2>2. col.polled = TRUE => Missing' \subseteq Missing
      <3> SUFFICES ASSUME col.polled = TRUE PROVE l \notin Missing'
        BY <2>1
      <3>1. CASE ticks = <<>>
        BY <1>2, <3>1 DEF Missing
      <3>2. CASE ticks # <<>>
        <4>1. ticks[Len(ticks)] = l.t /\ Len(ticks) \in DOMAIN ticks
          BY <3>2 DEF MarketInv, CollectorOK, TicksOK
        <4>2. l.t \in ToSet(ticks)
          BY <4>1 DEF ToSet
        <4> QED BY <1>2, <4>2 DEF Missing
      <3> QED BY <3>1, <3>2
    <2>3. IsFiniteSet(Missing) /\ Cardinality(Missing) \in Nat /\ Cardinality(Missing) <= skipped /\ skipped \in Nat
      BY FS_CardinalityType DEF MarketInv, MissingExcused
    <2>4. /\ IsFiniteSet(Missing \cup {l})
          /\ Cardinality(Missing \cup {l}) <= Cardinality(Missing) + 1
      BY <2>3, AtMostOneMore
    <2>5. IsFiniteSet(Missing') /\ Cardinality(Missing') \in Nat
          /\ Cardinality(Missing') <= Cardinality(Missing \cup {l})
      BY <2>1, <2>4, FS_Subset, FS_CardinalityType
    <2>6. col.polled = TRUE => Cardinality(Missing') <= Cardinality(Missing)
      BY <2>2, <2>3, FS_Subset
    <2>7. Cardinality(Missing \cup {l}) \in Nat
      BY <2>4, FS_CardinalityType
    <2>8. skipped' \in Nat /\ Cardinality(Missing') <= skipped'
      <3>1. CASE col.polled = TRUE
        BY <1>2, <2>3, <2>5, <2>6, <3>1
      <3>2. CASE col.polled = FALSE
        BY <1>2, <2>3, <2>4, <2>5, <2>7, <3>2
      <3> QED BY <3>1, <3>2 DEF MarketInv, CollectorOK
    <2> QED BY <2>5, <2>8 DEF MissingExcused
  <1>11. (BufferOK /\ OffsetOK /\ BlackoutIsSeen)'
    BY <1>2 DEF MarketInv, BufferOK, NoHole, OffsetOK, BlackoutIsSeen
  <1> QED BY <1>5, <1>6, <1>8, <1>9, <1>10, <1>11 DEF MarketInv

\* The two newest bars are the closed one and the one that is forming.
LEMMA NewestTwo ==
    ASSUME ChartOK
    PROVE  /\ GetRates(2)[1] = chart[Len(chart)]
           /\ Append(chart, Forming) \in Seq(Bars) /\ Forming.t = now
  <1> DEFINE s == Append(chart, Forming)
  <1>1. chart \in Seq(Bars) /\ Len(chart) \in 1..Len(chart) /\ now \in Int /\ now >= Start
    BY DEF ChartOK
  <1>2. Last(chart) \in Bars
    BY <1>1 DEF Last
  <1>3. Forming \in Bars /\ Forming.t = now
    BY <1>1, <1>2 DEF Forming, Bars
  <1>4. s \in Seq(Bars) /\ Len(s) = Len(chart) + 1 /\ \A i \in 1..Len(chart) : s[i] = chart[i]
    BY <1>1, <1>3
  <1> HIDE DEF s
  <1>5. PICK k \in 0..Len(s) : /\ \A j \in 1..(Len(s) - k) : LastN(s, 2)[j] = s[j + k]
                               /\ 2 <= Len(s) => k = Len(s) - 2
    BY <1>4, LastNTail, ZenonT(60)
  <1>6. k = Len(chart) - 1 /\ 1 \in 1..(Len(s) - k)
    BY <1>1, <1>4, <1>5
  <1>7. LastN(s, 2)[1] = s[1 + k]
    BY <1>5, <1>6
  <1>8. LastN(s, 2)[1] = chart[Len(chart)]
    BY <1>1, <1>4, <1>6, <1>7
  <1> QED BY <1>3, <1>4, <1>8 DEF GetRates, s

\* The clock of a closed market moves nothing else.
LEMMA PauseInv == ASSUME MarketInv, NEW p \in Pauses, Pause(p) PROVE MarketInv'
  <1>1. idle' = p /\ p \in Nat
    BY MarketAssumption DEF Pause, MarketAssumption
  <1> QED BY <1>1 DEF Pause, MarketInv, ChartOK, TicksOK, CollectorOK, RepeatsPaid, MayRepeat,
        Repeated, MissingExcused, Missing, BufferOK, NoHole, OffsetOK, BlackoutIsSeen

\* A collector that starts or dies publishes nothing; the next may repeat.
LEMMA CollectorInv ==
    ASSUME MarketInv, UNCHANGED <<chart, now, idle, ticks, fe, taken, out, skipped>>, CollectorOK',
           Failure \/ UNCHANGED failures, MayRepeat' => MayRepeat \/ Failure
    PROVE  MarketInv'
  <1>1. RepeatsPaid'
    BY FailureKeepsPaid
  <1>2. ChartOK' /\ TicksOK'
    BY DEF MarketInv, ChartOK, TicksOK
  <1>3. MissingExcused'
    BY DEF MarketInv, MissingExcused, Missing
  <1>4. BufferOK' /\ OffsetOK' /\ BlackoutIsSeen'
    BY DEF MarketInv, BufferOK, NoHole, OffsetOK, BlackoutIsSeen
  <1> QED BY <1>1, <1>2, <1>3, <1>4 DEF MarketInv

LEMMA CollectorStartsInv == ASSUME MarketInv, CollectorStarts PROVE MarketInv'
  <1>1. CollectorOK'
    BY DEF CollectorStarts, MarketInv, CollectorOK
  <1>2. MayRepeat' => MayRepeat
    BY DEF CollectorStarts, MayRepeat
  <1> QED BY <1>1, <1>2, CollectorInv DEF CollectorStarts

LEMMA CollectorDiesInv ==
    ASSUME MarketInv, CollectorDies \/ PollPublishFails PROVE MarketInv'
  <1>1. /\ UNCHANGED <<chart, now, idle, ticks, fe, taken, out, skipped>>
        /\ col' = [col EXCEPT !.up = FALSE] /\ Failure
    BY DEF CollectorDies, PollPublishFails
  <1>2. /\ col' \in [up : BOOLEAN, last : Int \cup {None}, polled : BOOLEAN]
        /\ col'.up = FALSE /\ col'.polled = col.polled
    BY <1>1 DEF MarketInv, CollectorOK
  <1>3. CollectorOK'
    BY <1>1, <1>2 DEF MarketInv, CollectorOK
  <1>4. /\ Failure \/ UNCHANGED failures
        /\ MayRepeat' => MayRepeat \/ Failure
    BY <1>1
  <1> HIDE DEF CollectorOK
  <1> QED BY <1>1, <1>3, <1>4, CollectorInv

\* What passes the feature engine by is put down as lost, and nothing else is.
LEMMA PassByKeepsBuffer ==
    ASSUME BufferOK, OffsetOK, taken \in Nat, NEW k \in Nat, taken <= k, PassBy(k),
           \A i \in 1..taken : ticks'[i] = ticks[i]
    PROVE  BufferOK' /\ OffsetOK'
  <1> DEFINE Kind == [up : BOOLEAN, bars : Seq(Bars), deep : Seq(Bars), offset : Int,
                      calendar : {{}, News}, warm : BOOLEAN, fresh : BOOLEAN, lost : SUBSET Nat]
  <1>1. taken' = k /\ fe \in Kind
    BY DEF PassBy, BufferOK
  <1>2. CASE fe.up = FALSE
    <2>1. fe' = fe
      BY <1>2 DEF PassBy
    <2> QED BY <1>1, <1>2, <2>1 DEF BufferOK, NoHole, OffsetOK
  <1>3. CASE fe.up = TRUE
    <2>1. fe' = [fe EXCEPT !.lost = @ \cup (taken + 1)..k]
      BY <1>3 DEF PassBy
    <2>2. /\ fe' \in Kind /\ fe'.up = fe.up /\ fe'.warm = fe.warm /\ fe'.bars = fe.bars
          /\ fe'.fresh = fe.fresh /\ fe'.offset = fe.offset
          /\ fe'.lost = fe.lost \cup (taken + 1)..k
      BY <1>1, <2>1
    <2> HIDE DEF Kind
    <2>3. (1..k) \ fe'.lost \subseteq (1..taken) \ fe.lost
      BY <2>2
    <2>4. NoHole'
      BY <1>1, <2>2, <2>3 DEF BufferOK, NoHole
    <2> QED BY <2>2, <2>4 DEF BufferOK, OffsetOK, Kind
  <1> QED BY <1>1, <1>2, <1>3

\* A poll publishes the newest closed bar, unless this process just did.
LEMMA PollInv == ASSUME MarketInv, Poll PROVE MarketInv'
  <1> DEFINE n == Len(chart)
             k == Len(ticks)
             t == chart[n].t
  <1>1. ChartOK /\ TicksOK /\ CollectorOK /\ ticks \in Seq(Int) /\ k \in Nat
    <2>1. ChartOK /\ TicksOK /\ CollectorOK
      BY DEF MarketInv
    <2>2. ticks \in Seq(Int)
      BY <2>1 DEF TicksOK
    <2> QED BY <2>1, <2>2
  <1>2. n \in 1..n /\ t \in Int
    <2>1. n \in 1..n /\ chart[n] \in Bars
      BY <1>1 DEF ChartOK
    <2> QED BY <2>1 DEF Bars
  <1>3. \A i \in 1..k : ticks[i] \in Int /\ ticks[i] <= t
    <2> SUFFICES ASSUME NEW i \in 1..k PROVE ticks[i] \in Int /\ ticks[i] <= t
      OBVIOUS
    <2>1. PICK x \in 1..n : chart[x].t = ticks[i]
      BY <1>1 DEF TicksOK
    <2>2. x = n \/ chart[x].t < t
      BY <1>1, <1>2 DEF ChartOK
    <2> QED BY <1>1, <1>2, <2>1, <2>2
  <1>4. GetRates(2)[1].t = t
    BY <1>1, NewestTwo
  <1>5. UNCHANGED <<chart, now, idle, out, skipped, failures>> /\ col.up = TRUE
    BY <1>1 DEF Poll, CollectorOK
  <1>6. ChartOK' /\ BlackoutIsSeen'
    BY <1>5 DEF MarketInv, ChartOK, BlackoutIsSeen
  <1>7. CASE t = col.last
    <2>1. col' = [col EXCEPT !.polled = TRUE] /\ UNCHANGED <<ticks, fe, taken>>
      BY <1>4, <1>7 DEF Poll
    <2>2. /\ col' \in [up : BOOLEAN, last : Int \cup {None}, polled : BOOLEAN]
          /\ col'.up = TRUE /\ col'.last = col.last
      BY <1>1, <1>5, <2>1 DEF CollectorOK
    <2>3. col.last # None
      BY <1>2, <1>7, MarketAssumption DEF MarketAssumption
    <2>4. CollectorOK'
      BY <1>1, <1>5, <1>7, <2>1, <2>2, <2>3 DEF CollectorOK
    <2>5. MayRepeat' => MayRepeat
      BY <1>5, <2>1, <2>2 DEF MayRepeat
    <2> QED BY <1>5, <2>1, <2>4, <2>5, CollectorInv
  <1>8. CASE t # col.last
    <2>1. ticks' = Append(ticks, t) /\ col' = [up |-> TRUE, last |-> t, polled |-> TRUE]
      BY <1>4, <1>8 DEF Poll, Remember
    <2>2. /\ ticks' \in Seq(Int) /\ Len(ticks') = k + 1 /\ ticks'[k + 1] = t /\ ticks' # <<>>
          /\ \A i \in 1..k : ticks'[i] = ticks[i]
      BY <1>1, <1>2, <2>1
    <2>3. taken' \in 0..Len(ticks') /\ \E cut \in taken..k : PassBy(cut)
      <3>1. PICK cut \in taken..k : PassBy(cut)
        BY <1>4, <1>8 DEF Poll, Trim
      <3>2. taken' = cut /\ cut \in 0..Len(ticks')
        BY <1>1, <2>2, <3>1 DEF PassBy, TicksOK
      <3> QED BY <3>1, <3>2
    <2>4. TicksOK'
      <3>1. ASSUME NEW i \in 1..Len(ticks') PROVE \E x \in 1..Len(chart') : chart'[x].t = ticks'[i]
        <4>1. CASE i = k + 1
          BY <1>2, <1>5, <2>2, <4>1
        <4>2. CASE i \in 1..k
          BY <1>1, <1>5, <2>2, <4>2 DEF TicksOK
        <4> QED BY <1>1, <2>2, <4>1, <4>2
      <3>2. ASSUME NEW i \in 1..Len(ticks'), NEW j \in 1..Len(ticks'), i <= j
            PROVE  ticks'[i] <= ticks'[j]
        <4>1. CASE j = k + 1
          BY <1>1, <1>2, <1>3, <2>2, <4>1, SMTT(30)
        <4>2. CASE j \in 1..k
          <5>1. i \in 1..k /\ ticks'[i] = ticks[i] /\ ticks'[j] = ticks[j]
            BY <1>1, <2>2, <3>2, <4>2, SMTT(30)
          <5>2. ticks[i] <= ticks[j]
            BY <1>1, <3>2, <4>2, <5>1 DEF TicksOK
          <5> QED BY <5>1, <5>2
        <4> QED BY <1>1, <2>2, <4>1, <4>2
      <3> QED BY <2>2, <2>3, <3>1, <3>2 DEF TicksOK
    <2>5. CollectorOK'
      BY <1>2, <1>5, <2>1, <2>2 DEF CollectorOK
    <2>6. RepeatsPaid'
      <3>1. ~MayRepeat'
        BY <1>2, <2>1, MarketAssumption DEF MayRepeat, MarketAssumption
      <3>2. Repeated' \subseteq Repeated \cup {k + 1}
        <4> SUFFICES ASSUME NEW i \in Repeated', i # k + 1 PROVE i \in Repeated
          OBVIOUS
        <4>1. i \in 2..(k + 1) /\ ticks'[i] = ticks'[i-1]
          BY <2>2 DEF Repeated
        <4>2. i \in 2..k /\ i \in 1..k /\ i - 1 \in 1..k
          BY <1>1, <4>1
        <4>3. ticks[i] = ticks[i-1]
          BY <2>2, <4>1, <4>2
        <4> QED BY <4>2, <4>3 DEF Repeated
      <3>3. ~MayRepeat => Repeated' \subseteq Repeated
        <4> SUFFICES ASSUME ~MayRepeat, k + 1 \in Repeated' PROVE FALSE
          BY <3>2
        <4>1. k + 1 \in 2..(k + 1) /\ ticks'[k + 1] = ticks'[(k + 1) - 1]
          BY <2>2 DEF Repeated
        <4>2. k \in 1..k /\ t = ticks[k] /\ ticks # <<>>
          BY <1>1, <2>2, <4>1
        <4>3. col.last = ticks[k]
          BY <1>1, <1>5, <4>2 DEF MayRepeat, CollectorOK
        <4> QED BY <1>8, <4>2, <4>3
      <3>4. IsFiniteSet(Repeated) /\ Cardinality(Repeated) \in Nat
        <4>1. IsFiniteSet(2..k)
          BY <1>1, FS_Interval
        <4> QED BY <4>1, FS_Subset, FS_CardinalityType DEF Repeated
      <3>5. /\ IsFiniteSet(Repeated \cup {k + 1}) /\ Cardinality(Repeated \cup {k + 1}) \in Nat
            /\ Cardinality(Repeated \cup {k + 1}) <= Cardinality(Repeated) + 1
        BY <3>4, AtMostOneMore
      <3>6. /\ Cardinality(Repeated') \in Nat
            /\ Cardinality(Repeated') <= Cardinality(Repeated \cup {k + 1})
        BY <3>2, <3>5, FS_Subset, FS_CardinalityType
      <3>7. ~MayRepeat => Cardinality(Repeated') <= Cardinality(Repeated)
        BY <3>3, <3>4, FS_Subset
      <3>8. failures \in Nat /\ Cardinality(Repeated) + (IF MayRepeat THEN 1 ELSE 0) <= failures
        BY DEF MarketInv, RepeatsPaid
      <3>9. Cardinality(Repeated') <= failures
        <4>1. CASE MayRepeat
          BY <3>4, <3>5, <3>6, <3>8, <4>1
        <4>2. CASE ~MayRepeat
          BY <3>4, <3>6, <3>7, <3>8, <4>2
        <4> QED BY <4>1, <4>2
      <3> QED BY <1>5, <3>1, <3>6, <3>8, <3>9 DEF RepeatsPaid
    <2>7. MissingExcused'
      <3>1. CASE ticks = <<>>
        <4>1. Missing' = {}
          <5> SUFFICES ASSUME NEW b \in Missing' PROVE FALSE
            OBVIOUS
          <5>1. ticks'[1] = t
            BY <2>2, <3>1
          <5>2. t < b.t /\ b.t < t
            BY <1>5, <5>1 DEF Missing
          <5>3. b.t \in Int
            <6>1. PICK i \in 1..n : b = chart[i]
              BY <1>1, <1>5 DEF Missing, ToSet, ChartOK
            <6>2. b \in Bars
              BY <1>1, <6>1 DEF ChartOK
            <6> QED BY <6>2 DEF Bars
          <5> QED BY <1>2, <5>2, <5>3
        <4>2. IsFiniteSet(Missing') /\ Cardinality(Missing') = 0
          BY <4>1, FS_EmptySet
        <4>3. skipped' \in Nat
          BY <1>5 DEF MarketInv, MissingExcused
        <4> QED BY <4>2, <4>3 DEF MissingExcused
      <3>2. CASE ticks # <<>>
        <4>1. ticks'[1] = ticks[1] /\ ToSet(ticks) \subseteq ToSet(ticks')
          BY <1>1, <2>2, <3>2 DEF ToSet
        <4>2. Missing' \subseteq Missing
          BY <1>5, <3>2, <4>1 DEF Missing
        <4>3. IsFiniteSet(Missing) /\ Cardinality(Missing) \in Nat
              /\ skipped \in Nat /\ Cardinality(Missing) <= skipped
          BY FS_CardinalityType DEF MarketInv, MissingExcused
        <4>4. IsFiniteSet(Missing') /\ Cardinality(Missing') \in Nat
              /\ Cardinality(Missing') <= Cardinality(Missing)
          BY <4>2, <4>3, FS_Subset, FS_CardinalityType
        <4> QED BY <1>5, <4>3, <4>4 DEF MissingExcused
      <3> QED BY <3>1, <3>2
    <2>8. BufferOK' /\ OffsetOK'
      <3>1. \A i \in 1..taken : ticks'[i] = ticks[i]
        BY <1>1, <2>2 DEF TicksOK
      <3>2. PICK cut \in taken..k : PassBy(cut)
        BY <2>3
      <3>3. taken \in Nat /\ cut \in Nat /\ taken <= cut
        BY <1>1, <3>2 DEF TicksOK
      <3> QED BY <3>1, <3>2, <3>3, PassByKeepsBuffer DEF MarketInv
    <2> QED BY <1>6, <2>4, <2>5, <2>6, <2>7, <2>8 DEF MarketInv
  <1> QED BY <1>7, <1>8

\* The feature engine starts or dies beside an unchanged chart and stream.
LEMMA FeatureEngineInv ==
    ASSUME MarketInv, UNCHANGED <<chart, now, idle, ticks, col, skipped>>,
           taken' \in 0..Len(ticks), failures' \in Nat, failures <= failures',
           BufferOK', OffsetOK', BlackoutIsSeen'
    PROVE  MarketInv'
  <1>1. ChartOK' /\ TicksOK' /\ CollectorOK' /\ MissingExcused'
    BY DEF MarketInv, ChartOK, TicksOK, CollectorOK, MissingExcused, Missing
  <1>2. RepeatsPaid'
    <2>1. MayRepeat' = MayRepeat /\ Repeated' = Repeated
      BY DEF MayRepeat, Repeated
    <2>2. IsFiniteSet(2..Len(ticks))
      BY FS_Interval DEF MarketInv, TicksOK
    <2>3. Cardinality(Repeated) \in Nat
      BY <2>2, FS_Subset, FS_CardinalityType DEF Repeated
    <2> QED BY <2>1, <2>3 DEF MarketInv, RepeatsPaid
  <1> QED BY <1>1, <1>2 DEF MarketInv

\* Read off a bar that is still new, the clock offset is the broker's.
LEMMA OffsetOfNewBar ==
    ASSUME NEW t \in Int, NEW age \in Nat, age < 30
    PROVE  DetectOffset(t, t + age - TrueOffset) = TrueOffset
  <1>1. TrueOffset \in Int /\ TrueOffset % 60 = 0
    BY MarketAssumption DEF MarketAssumption
  <1>2. TrueOffset = 60 * (TrueOffset \div 60) /\ TrueOffset \div 60 \in Int
    BY <1>1
  <1> DEFINE q == TrueOffset \div 60
             d == 30 - age
  <1>3. t - (t + age - TrueOffset) + 30 = 60 * q + d
    BY <1>1, <1>2
  <1>4. q \in Int /\ d \in 1..30
    BY <1>2
  <1>5. (60 * q + d) \div 60 = q
    <2> HIDE DEF q, d
    <2> QED BY <1>4
  <1>6. 60 * q = TrueOffset
    BY <1>2
  <1> HIDE DEF q, d
  <1> QED BY <1>3, <1>5, <1>6 DEF DetectOffset

\* A warm-up is the newest part of the chart with the bar that is forming.
LEMMA WarmUp ==
    ASSUME ChartOK, WarmupBars > 0
    PROVE  /\ Warm \in Seq(Bars) /\ Last(Warm).t = now
           /\ LastN(Warm, WarmupBars) \in Seq(Bars)
           /\ \E k \in 0..Len(chart) :
                /\ Len(LastN(Warm, WarmupBars)) = Len(chart) + 1 - k
                /\ \A j \in 1..(Len(chart) + 1 - k) :
                      LastN(Warm, WarmupBars)[j] = Append(chart, Forming)[j + k]
  <1> DEFINE A == Append(chart, Forming)
             w == Max({WarmupBars, DeepHistory})
  <1>1. WarmupBars \in Nat /\ DeepHistory \in Nat
    BY MarketAssumption DEF MarketAssumption
  <1>2. w \in Nat /\ w >= 1
    <2>1. w \in {WarmupBars, DeepHistory} /\ w >= WarmupBars
      BY <1>1, MaxOfTwo
    <2> HIDE DEF w
    <2> QED BY <1>1, <2>1
  <1>3. /\ A \in Seq(Bars) /\ Len(A) = Len(chart) + 1 /\ A[Len(A)] = Forming /\ Forming.t = now
        /\ Len(chart) \in Nat
    <2>1. chart \in Seq(Bars) /\ A \in Seq(Bars) /\ Forming.t = now
      BY NewestTwo DEF ChartOK
    <2> QED BY <2>1
  <1>4. Warm = LastN(A, w)
    BY DEF Warm, GetRates
  <1> HIDE DEF A, w
  <1>5. PICK k \in 0..Len(A) : /\ Len(LastN(A, w)) = Len(A) - k
                               /\ \A j \in 1..(Len(A) - k) : LastN(A, w)[j] = A[j + k]
                               /\ w >= 1 /\ Len(A) >= 1 => k < Len(A)
    BY <1>2, <1>3, LastNTail
  <1>6. Warm \in Seq(Bars) /\ Len(Warm) = Len(A) - k /\ k < Len(A)
        /\ \A j \in 1..(Len(A) - k) : Warm[j] = A[j + k]
    <2>1. LastN(A, w) \in Seq(Bars)
      BY <1>2, <1>3, LastNTail
    <2>2. k < Len(A)
      BY <1>2, <1>3, <1>5
    <2> QED BY <1>4, <1>5, <2>1, <2>2
  <1>7. Last(Warm).t = now
    <2>1. Len(Warm) \in 1..(Len(A) - k) /\ Len(Warm) + k = Len(A)
      BY <1>3, <1>6
    <2> QED BY <1>3, <1>6, <2>1 DEF Last
  <1>8. LastN(Warm, WarmupBars) \in Seq(Bars)
    BY <1>1, <1>6, LastNTail
  <1>9. PICK l \in 0..Len(Warm) :
           /\ Len(LastN(Warm, WarmupBars)) = Len(Warm) - l
           /\ \A j \in 1..(Len(Warm) - l) : LastN(Warm, WarmupBars)[j] = Warm[j + l]
           /\ WarmupBars >= 1 /\ Len(Warm) >= 1 => l < Len(Warm)
    BY <1>1, <1>6, LastNTail
  <1>10. k + l \in 0..Len(chart) /\ Len(Warm) - l = Len(chart) + 1 - (k + l)
    BY <1>1, <1>3, <1>6, <1>9
  <1>11. ASSUME NEW j \in 1..(Len(chart) + 1 - (k + l))
         PROVE  LastN(Warm, WarmupBars)[j] = A[j + (k + l)]
    <2>1. j \in 1..(Len(Warm) - l) /\ j + l \in 1..(Len(A) - k) /\ (j + l) + k = j + (k + l)
      BY <1>3, <1>6, <1>9, <1>10
    <2> QED BY <1>6, <1>9, <2>1
  <1> QED BY <1>6, <1>7, <1>8, <1>9, <1>10, <1>11 DEF A

LEMMA FeatureEngineStartsInv == ASSUME MarketInv, FeatureEngineStarts PROVE MarketInv'
  <1>1. UNCHANGED <<chart, now, idle, ticks, col, taken, out, skipped>>
    BY DEF FeatureEngineStarts
  <1>2. taken' \in 0..Len(ticks) /\ failures' \in Nat /\ failures <= failures'
    BY <1>1 DEF MarketInv, TicksOK, RepeatsPaid, FeatureEngineStarts, Failure
  <1>3. BlackoutIsSeen'
    BY <1>1 DEF MarketInv, BlackoutIsSeen
  <1>4. CASE fe' = [NoFeatures EXCEPT !.up = TRUE]
    <2>1. fe' = [up |-> TRUE, bars |-> <<>>, deep |-> <<>>, offset |-> 0,
                 calendar |-> {}, warm |-> FALSE, fresh |-> FALSE, lost |-> {}]
      BY <1>4 DEF NoFeatures
    <2>2. BufferOK' /\ OffsetOK'
      BY <2>1 DEF BufferOK, NoHole, OffsetOK
    <2> QED BY <1>1, <1>2, <1>3, <2>2, FeatureEngineInv
  <1>5. CASE WarmupBars > 0 /\ fe' # [NoFeatures EXCEPT !.up = TRUE]
    <2> DEFINE B == LastN(Warm, WarmupBars)
               A == Append(chart, Forming)
    <2>1. ChartOK /\ Len(chart) \in Nat /\ chart \in Seq(Bars) /\ now \in Int /\ idle \in Nat
      BY DEF MarketInv, ChartOK
    <2>2. fe' = [up |-> TRUE, bars |-> B, deep |-> IF DeepHistory > 0 THEN Warm ELSE <<>>,
                 offset |-> DetectOffset(Last(Warm).t, now + idle - TrueOffset),
                 calendar |-> {}, warm |-> TRUE, fresh |-> idle < 30, lost |-> {}]
      BY <1>5 DEF FeatureEngineStarts
    <2>3. Warm \in Seq(Bars) /\ Last(Warm).t = now /\ B \in Seq(Bars)
      BY <1>5, <2>1, WarmUp
    <2>4. PICK k \in 0..Len(chart) : /\ Len(B) = Len(chart) + 1 - k
                                     /\ \A j \in 1..(Len(chart) + 1 - k) : B[j] = A[j + k]
      BY <1>5, <2>1, WarmUp
    <2> HIDE DEF B
    <2>5. fe'.offset \in Int /\ (idle < 30 => fe'.offset = TrueOffset)
      <3>1. TrueOffset \in Int
        BY MarketAssumption DEF MarketAssumption
      <3>2. fe'.offset = DetectOffset(now, now + idle - TrueOffset)
        BY <2>2, <2>3
      <3>3. DetectOffset(now, now + idle - TrueOffset) \in Int
        BY <2>1, <3>1 DEF DetectOffset
      <3> QED BY <2>1, <3>2, <3>3, OffsetOfNewBar
    <2>6. OffsetOK'
      BY <2>2, <2>5, MarketAssumption, ZenonT(60) DEF OffsetOK
    <2>7. NoHole'
      <3>1. Forming.t = now /\ A[Len(chart) + 1] = Forming /\ \A x \in 1..Len(chart) : A[x] = chart[x]
        <4>1. A \in Seq(Bars) /\ Forming.t = now
          BY <2>1, NewestTwo
        <4> QED BY <2>1, <4>1
      <3> HIDE DEF A
      <3>2. ASSUME NEW i \in 1..taken, NEW j \in 1..Len(B), ticks[i] >= B[j].t
            PROVE  \E m \in j..Len(B) : B[m].t = ticks[i]
        <4>1. i \in 1..Len(ticks) /\ ticks[i] \in Int
          BY DEF MarketInv, TicksOK
        <4>2. PICK x \in 1..Len(chart) : chart[x].t = ticks[i]
          BY <4>1 DEF MarketInv, TicksOK
        <4>3. j + k <= x
          <5>1. CASE j + k = Len(chart) + 1
            <6>1. B[j].t = now
              BY <2>1, <2>4, <3>1, <5>1
            <6>2. Len(chart) \in 1..Len(chart) /\ chart[Len(chart)] \in Bars /\ chart[Len(chart)].t < now
              BY <2>1, <4>2 DEF ChartOK
            <6>3. x = Len(chart) \/ chart[x].t < chart[Len(chart)].t
              BY <2>1, <4>2, <6>2 DEF ChartOK
            <6>4. chart[Len(chart)].t \in Int
              BY <6>2 DEF Bars
            <6>5. ticks[i] >= now /\ ticks[i] < now
              BY <2>1, <3>2, <4>1, <4>2, <6>1, <6>2, <6>3, <6>4
            <6> QED BY <2>1, <4>1, <6>5
          <5>2. CASE j + k \in 1..Len(chart)
            <6>1. B[j].t = chart[j + k].t
              BY <2>1, <2>4, <3>1, <5>2
            <6>2. x < j + k => chart[x].t < chart[j + k].t
              BY <2>1, <4>2, <5>2 DEF ChartOK
            <6>3. chart[j + k] \in Bars
              BY <2>1, <5>2
            <6>4. chart[j + k].t \in Int
              BY <6>3 DEF Bars
            <6>5. ~(x < j + k)
              BY <3>2, <4>1, <4>2, <6>1, <6>2, <6>4
            <6> QED BY <2>1, <2>4, <3>2, <4>2, <6>5
          <5>3. j + k \in 1..(Len(chart) + 1)
            BY <2>1, <2>4, <3>2
          <5> QED BY <2>1, <5>1, <5>2, <5>3
        <4>4. x - k \in j..Len(B) /\ x - k \in 1..(Len(chart) + 1 - k) /\ (x - k) + k = x
          BY <2>1, <2>4, <4>2, <4>3
        <4>5. B[x - k] = A[x]
          BY <2>4, <4>4
        <4> QED BY <3>1, <4>2, <4>4, <4>5
      <3>3. UNCHANGED <<ticks, taken>> /\ fe'.bars = B /\ fe'.lost = {} /\ Len(B) >= 1
        BY <1>1, <2>1, <2>2, <2>4
      <3> QED BY <3>2, <3>3 DEF NoHole
    <2>8. BufferOK'
      <3>1. fe'.deep \in Seq(Bars) /\ (idle < 30) \in BOOLEAN
        BY <2>2, <2>3
      <3> QED BY <2>2, <2>3, <2>5, <2>7, <3>1 DEF BufferOK
    <2> QED BY <1>1, <1>2, <1>3, <2>6, <2>8, FeatureEngineInv
  <1> QED BY <1>4, <1>5 DEF FeatureEngineStarts

LEMMA FeatureEngineDiesInv == ASSUME MarketInv, FeatureEngineDies PROVE MarketInv'
  <1>1. /\ UNCHANGED <<chart, now, idle, ticks, col, out, skipped>> /\ Failure
        /\ taken' \in taken..Len(ticks)
        /\ fe' = [up |-> FALSE, bars |-> <<>>, deep |-> <<>>, offset |-> 0,
                  calendar |-> {}, warm |-> FALSE, fresh |-> FALSE, lost |-> {}]
    BY DEF FeatureEngineDies, NoFeatures
  <1>2. BufferOK' /\ OffsetOK'
    BY <1>1 DEF BufferOK, NoHole, OffsetOK
  <1>3. BlackoutIsSeen' /\ taken' \in 0..Len(ticks)
    BY <1>1 DEF MarketInv, BlackoutIsSeen, TicksOK
  <1>4. failures' \in Nat /\ failures <= failures'
    BY <1>1 DEF MarketInv, RepeatsPaid, Failure
  <1> QED BY <1>1, <1>2, <1>3, <1>4, FeatureEngineInv

LEMMA BusLosesInv == ASSUME MarketInv, BusLoses PROVE MarketInv'
  <1>1. UNCHANGED <<chart, now, idle, ticks, col, out, skipped>> /\ Failure
    BY DEF BusLoses
  <1>2. PICK k \in (taken + 1)..Len(ticks) : PassBy(k)
    BY DEF BusLoses
  <1>3. taken \in Nat /\ k \in Nat /\ taken <= k /\ taken' = k /\ k \in 0..Len(ticks)
    BY <1>2 DEF MarketInv, TicksOK, PassBy
  <1>4. BufferOK' /\ OffsetOK'
    BY <1>1, <1>2, <1>3, PassByKeepsBuffer DEF MarketInv
  <1>5. BlackoutIsSeen' /\ failures' \in Nat /\ failures <= failures'
    BY <1>1 DEF MarketInv, BlackoutIsSeen, RepeatsPaid, Failure
  <1> QED BY <1>1, <1>3, <1>4, <1>5, FeatureEngineInv

\* Inside its minutes a release shows, whether it is still to come or past.
LEMMA BlackoutCovers ==
    ASSUME NEW utc \in Int, NEW e \in News, e.high = TRUE,
           e.ts - PreNews <= utc, utc <= e.ts + PostNews
    PROVE  InBlackout({f \in News : f.ts >= utc - 1440}, utc)
  <1> DEFINE events == {f \in News : f.ts >= utc - 1440}
             past == {f \in events : f.high /\ f.ts < utc}
             times == {f.ts : f \in past}
  <1>1. /\ \A f \in News : f.ts \in Int
        /\ PreNews \in Nat /\ PostNews \in 0..1440
    BY MarketAssumption DEF MarketAssumption
  <1>2. e \in events
    BY <1>1
  <1>3. CASE e.ts >= utc
    BY <1>2, <1>3 DEF InBlackout
  <1>4. CASE e.ts < utc
    <2>1. e \in past /\ e.ts \in times
      BY <1>2, <1>4
    <2>2. times \in SUBSET Int /\ \A t \in times : t <= utc
      BY <1>1
    <2>3. Max(times) >= e.ts /\ Max(times) \in Int
      <3>1. times # {}
        BY <2>1
      <3> HIDE DEF times
      <3>2. Max(times) \in times /\ \A x \in times : x <= Max(times)
        BY <2>2, <3>1, MaxIsGreatest
      <3>3. e.ts <= Max(times) /\ e.ts \in Int
        BY <1>1, <2>1, <3>2
      <3>4. Max(times) \in Int
        BY <2>2, <3>2
      <3> QED BY <3>3, <3>4
    <2>4. past # {} /\ Max(times) + PostNews >= utc
      BY <1>1, <2>1, <2>3
    <2> QED BY <2>4 DEF InBlackout
  <1> QED BY <1>1, <1>3, <1>4

\* Compaction leaves the news alone.
LEMMA NewsOfBundle ==
    ASSUME NEW bars, NEW deep, NEW ts, NEW offset, NEW calendar
    PROVE  Compact(Assemble(bars, deep, ts, offset, calendar)).news.blackout
             = InBlackout({f \in calendar : f.ts >= (ts - offset) - 1440}, ts - offset)
  <1> DEFINE b == Assemble(bars, deep, ts, offset, calendar)
  <1>1. "news" \in DOMAIN b /\ b.news = NewsCompute(calendar, ts, offset)
    BY DEF Assemble
  <1> HIDE DEF b
  <1>2. Compact(b).news = b.news
    BY <1>1 DEF Compact
  <1>3. NewsCompute(calendar, ts, offset).blackout
          = InBlackout({f \in calendar : f.ts >= (ts - offset) - 1440}, ts - offset)
    BY DEF NewsCompute
  <1> QED BY <1>1, <1>2, <1>3 DEF b

LEMMA HandleInv == ASSUME MarketInv, Handle PROVE MarketInv'
  <1> DEFINE t == ticks[taken + 1]
             bar == BarAt(t)
             joined == Append(fe.bars, bar)
             bars == LastN(joined, MaxHistory)
             deep == IF DeepHistory > 0 THEN LastN(Append(fe.deep, bar), DeepHistory) ELSE <<>>
  <1>1. /\ UNCHANGED <<chart, now, idle, ticks, col, skipped>>
        /\ fe.up /\ taken < Len(ticks) /\ taken' = taken + 1
    BY DEF Handle
  <1>2. PICK calendar \in Calendars(fe.calendar) :
           /\ fe' = [fe EXCEPT !.bars = bars, !.deep = deep, !.calendar = calendar]
           /\ \/ /\ out' = [ts |-> bar.t,
                            blackout |-> Compact(Assemble(bars, IF DeepHistory > 0 THEN deep ELSE bars,
                                                   bar.t, fe.offset, calendar)).news.blackout,
                            previous |-> Compact(Assemble(bars, IF DeepHistory > 0 THEN deep ELSE bars,
                                                   bar.t, fe.offset, calendar)).vr.previous,
                            sure |-> fe.warm /\ fe.fresh /\ calendar = News]
                 /\ failures' = failures + (IF calendar = News THEN 0 ELSE 1)
              \/ calendar = News /\ Failure /\ UNCHANGED out
    BY DEF Handle
  <1>3. /\ ChartOK /\ TicksOK /\ chart \in Seq(Bars) /\ ticks \in Seq(Int)
        /\ taken \in 0..Len(ticks) /\ taken + 1 \in 1..Len(ticks)
        /\ fe \in [up : BOOLEAN, bars : Seq(Bars), deep : Seq(Bars), offset : Int,
                   calendar : {{}, News}, warm : BOOLEAN, fresh : BOOLEAN, lost : SUBSET Nat]
        /\ MaxHistory \in Nat \ {0} /\ DeepHistory \in Nat
    BY <1>1, MarketAssumption DEF MarketAssumption, MarketInv, ChartOK, TicksOK, BufferOK
  <1>4. bar \in Bars /\ bar.t = t /\ t \in Int
    <2>1. PICK x \in 1..Len(chart) : chart[x].t = t
      BY <1>3 DEF TicksOK
    <2>2. chart[x] \in ToSet(chart)
      BY <1>3, <2>1 DEF ToSet
    <2>3. bar \in ToSet(chart) /\ bar.t = t
      BY <2>1, <2>2 DEF BarAt
    <2>4. ToSet(chart) \subseteq Bars
      BY <1>3 DEF ToSet
    <2> QED BY <1>3, <2>3, <2>4
  <1> HIDE DEF bar
  <1>5. /\ joined \in Seq(Bars) /\ Len(joined) = Len(fe.bars) + 1
        /\ joined[Len(fe.bars) + 1] = bar /\ \A j \in 1..Len(fe.bars) : joined[j] = fe.bars[j]
        /\ Len(fe.bars) \in Nat /\ Append(fe.deep, bar) \in Seq(Bars)
    <2>1. fe.bars \in Seq(Bars) /\ fe.deep \in Seq(Bars)
      BY <1>3
    <2> QED BY <1>4, <2>1
  <1> HIDE DEF joined
  <1>6. bars \in Seq(Bars)
    BY <1>3, <1>5, LastNTail
  <1>7. PICK k \in 0..Len(joined) :
           /\ Len(bars) = Len(joined) - k
           /\ \A j \in 1..(Len(joined) - k) : bars[j] = joined[j + k]
           /\ MaxHistory >= 1 /\ Len(joined) >= 1 => k < Len(joined)
    BY <1>3, <1>5, LastNTail
  <1>8. deep \in Seq(Bars)
    <2>1. LastN(Append(fe.deep, bar), DeepHistory) \in Seq(Bars)
      BY <1>3, <1>5, LastNTail
    <2> QED BY <2>1
  <1>9. calendar \in {{}, News}
    BY <1>3 DEF Calendars
  <1> HIDE DEF bars, deep
  <1> DEFINE f1 == [fe EXCEPT !.bars = bars]
             f2 == [f1 EXCEPT !.deep = deep]
             f3 == [f2 EXCEPT !.calendar = calendar]
             Kind == [up : BOOLEAN, bars : Seq(Bars), deep : Seq(Bars), offset : Int,
                      calendar : {{}, News}, warm : BOOLEAN, fresh : BOOLEAN, lost : SUBSET Nat]
  <1>10. /\ fe' \in Kind /\ fe'.bars = bars /\ fe'.up = fe.up /\ fe'.warm = fe.warm
         /\ fe'.fresh = fe.fresh /\ fe'.offset = fe.offset /\ fe'.lost = fe.lost
    <2>1. fe' = f3
      BY <1>2
    <2>2. /\ f1 \in Kind /\ f1.bars = bars /\ f1.up = fe.up /\ f1.warm = fe.warm
          /\ f1.fresh = fe.fresh /\ f1.offset = fe.offset /\ f1.lost = fe.lost
      BY <1>3, <1>6
    <2> HIDE DEF f1
    <2>3. /\ f2 \in Kind /\ f2.bars = f1.bars /\ f2.up = f1.up /\ f2.warm = f1.warm
          /\ f2.fresh = f1.fresh /\ f2.offset = f1.offset /\ f2.lost = f1.lost
      BY <1>8, <2>2
    <2> HIDE DEF f2
    <2>4. /\ f3 \in Kind /\ f3.bars = f2.bars /\ f3.up = f2.up /\ f3.warm = f2.warm
          /\ f3.fresh = f2.fresh /\ f3.offset = f2.offset /\ f3.lost = f2.lost
      BY <1>9, <2>3
    <2> QED BY <2>1, <2>2, <2>3, <2>4
  <1>11. NoHole'
    <2>0. /\ fe'.up = fe.up /\ fe'.warm = fe.warm /\ fe'.bars = bars /\ fe'.lost = fe.lost
          /\ ticks' = ticks /\ taken' = taken + 1
      BY <1>1, <1>10
    <2> HIDE DEF f1, f2, f3, Kind
    <2> SUFFICES fe'.up = TRUE /\ fe'.warm = TRUE =>
                   /\ Len(fe'.bars) >= 1
                   /\ \A i \in (1..taken') \ fe'.lost, j \in 1..Len(fe'.bars) :
                         ticks'[i] >= fe'.bars[j].t =>
                             \E m \in j..Len(fe'.bars) : fe'.bars[m].t = ticks'[i]
      BY Zenon DEF NoHole
    <2> SUFFICES ASSUME fe.up = TRUE, fe.warm = TRUE
                 PROVE  /\ Len(bars) >= 1
                        /\ \A i \in (1..(taken + 1)) \ fe.lost, j \in 1..Len(bars) :
                              ticks[i] >= bars[j].t => \E m \in j..Len(bars) : bars[m].t = ticks[i]
      BY <2>0, ZenonT(30)
    <2>1. Len(bars) >= 1 /\ Len(bars) \in Nat /\ k \in Nat /\ Len(bars) + k = Len(fe.bars) + 1
      BY <1>3, <1>5, <1>7
    <2>2. bars[Len(bars)] = bar
      BY <1>5, <1>7, <2>1, SMTT(30)
    <2>3. ASSUME NEW i \in (1..(taken + 1)) \ fe.lost, NEW j \in 1..Len(bars), ticks[i] >= bars[j].t
          PROVE  \E m \in j..Len(bars) : bars[m].t = ticks[i]
      <3>1. CASE i = taken + 1
        BY <1>4, <2>1, <2>2, <2>3, <3>1
      <3>2. CASE i \in 1..taken /\ j = Len(bars)
        <4>1. ticks[i] >= t
          BY <1>4, <2>2, <2>3, <3>2
        <4>2. ticks[i] <= t /\ ticks[i] \in Int
          <5>1. i \in 1..Len(ticks) /\ i <= taken + 1
            BY <1>3, <3>2
          <5> QED BY <1>3, <5>1 DEF TicksOK
        <4>3. bars[j].t = ticks[i]
          BY <1>4, <2>2, <3>2, <4>1, <4>2
        <4> QED BY <2>1, <3>2, <4>3
      <3>3. CASE i \in 1..taken /\ j # Len(bars)
        <4>1. j + k \in 1..Len(fe.bars) /\ j \in 1..(Len(joined) - k)
          BY <1>5, <1>7, <2>1, <2>3, <3>3
        <4>2. bars[j] = fe.bars[j + k]
          BY <1>5, <1>7, <4>1
        <4>3. PICK m \in (j + k)..Len(fe.bars) : fe.bars[m].t = ticks[i]
          BY <2>3, <3>3, <4>1, <4>2 DEF MarketInv, BufferOK, NoHole
        <4>4. m - k \in j..Len(bars) /\ m - k \in 1..(Len(joined) - k)
              /\ (m - k) + k = m /\ m \in 1..Len(fe.bars)
          BY <1>5, <1>7, <2>1, <4>1, <4>3
        <4>5. bars[m - k] = fe.bars[m]
          BY <1>5, <1>7, <4>4
        <4> QED BY <4>3, <4>4, <4>5
      <3> QED BY <1>3, <3>1, <3>2, <3>3
    <2> QED BY <2>1, <2>3
  <1>12. BufferOK' /\ OffsetOK'
    BY <1>10, <1>11 DEF MarketInv, BufferOK, OffsetOK
  <1>13. taken' \in 0..Len(ticks)
    BY <1>1, <1>3
  <1>14. failures' \in Nat /\ failures <= failures'
    BY <1>2 DEF MarketInv, RepeatsPaid, Failure
  <1>15. BlackoutIsSeen'
    <2>1. CASE UNCHANGED out
      BY <2>1 DEF MarketInv, BlackoutIsSeen
    <2>2. CASE ~UNCHANGED out
      <3>1. /\ out'.ts = t
            /\ out'.blackout = Compact(Assemble(bars, IF DeepHistory > 0 THEN deep ELSE bars,
                                          bar.t, fe.offset, calendar)).news.blackout
            /\ out'.sure = (fe.warm /\ fe.fresh /\ calendar = News)
        BY <1>2, <1>4, <2>2
      <3> SUFFICES ASSUME out'.sure, NEW e \in News, e.high,
                          e.ts - PreNews <= t - TrueOffset, t - TrueOffset <= e.ts + PostNews
                   PROVE  out'.blackout
        BY <3>1 DEF BlackoutIsSeen
      <3>2. fe.offset = TrueOffset /\ calendar = News
        BY <1>1, <1>3, <3>1 DEF MarketInv, OffsetOK
      <3>3. TrueOffset \in Int /\ e.high = TRUE
        BY MarketAssumption DEF MarketAssumption
      <3>4. out'.blackout = InBlackout({f \in News : f.ts >= (t - TrueOffset) - 1440}, t - TrueOffset)
        BY <1>4, <3>1, <3>2, NewsOfBundle
      <3> DEFINE utc == t - TrueOffset
      <3>5. utc \in Int
        BY <1>4, <3>3
      <3>6. InBlackout({f \in News : f.ts >= utc - 1440}, utc)
        <4> HIDE DEF utc
        <4> QED BY <3>3, <3>5, BlackoutCovers DEF utc
      <3> QED BY <3>4, <3>6
    <2> QED BY <2>1, <2>2
  <1> QED BY <1>1, <1>12, <1>13, <1>14, <1>15, FeatureEngineInv

LEMMA MarketInductive == MarketInv /\ [MarketNext]_marketVars => MarketInv'
  <1> SUFFICES ASSUME MarketInv, [MarketNext]_marketVars PROVE MarketInv'
    OBVIOUS
  <1>1. ASSUME NEW s \in Shapes, Minute(s) PROVE MarketInv'
    BY <1>1, MinuteInv
  <1>2. ASSUME NEW p \in Pauses, Pause(p) PROVE MarketInv'
    BY <1>2, PauseInv
  <1>3. CASE CollectorStarts
    BY <1>3, CollectorStartsInv
  <1>4. CASE CollectorDies \/ PollPublishFails
    BY <1>4, CollectorDiesInv
  <1>5. CASE Poll
    BY <1>5, PollInv
  <1>6. CASE FeatureEngineStarts
    BY <1>6, FeatureEngineStartsInv
  <1>7. CASE FeatureEngineDies
    BY <1>7, FeatureEngineDiesInv
  <1>8. CASE Handle
    BY <1>8, HandleInv
  <1>9. CASE BusLoses
    BY <1>9, BusLosesInv
  <1>10. CASE UNCHANGED marketVars
    BY <1>10 DEF marketVars, MarketInv, ChartOK, TicksOK, CollectorOK, RepeatsPaid, MayRepeat,
         Repeated, MissingExcused, Missing, BufferOK, NoHole, OffsetOK, BlackoutIsSeen
  <1> QED BY <1>1, <1>2, <1>3, <1>4, <1>5, <1>6, <1>7, <1>8, <1>9, <1>10 DEF MarketNext

LEMMA MarketInvHolds == MarketSpec => []MarketInv
  BY MarketInitInv, MarketInductive, PTL DEF MarketSpec

\* Whatever dies and restarts, the bars reach market_ticks in order, a bar
\* comes again only after a failure, and one between two published ones is
\* missing only for a minute in which nobody polled (_run_live).
THEOREM MarketBarsAdvance == MarketSpec => []BarsAdvance
  <1>1. MarketInv => BarsAdvance
    <2> SUFFICES ASSUME MarketInv PROVE BarsAdvance
      OBVIOUS
    <2>1. ticks \in Seq(Int) /\ TicksOK /\ ChartOK
      BY DEF MarketInv, TicksOK
    <2>2. ASSUME NEW i \in 2..Len(ticks) PROVE ticks[i-1] <= ticks[i]
      <3>1. i \in 1..Len(ticks) /\ i - 1 \in 1..Len(ticks) /\ i - 1 <= i
        BY <2>1
      <3> QED BY <2>1, <3>1 DEF TicksOK
    <2>3. Cardinality(Repeated) <= failures
      <3>1. IsFiniteSet(2..Len(ticks))
        BY <2>1, FS_Interval
      <3>2. Cardinality(Repeated) \in Nat
        BY <3>1, FS_Subset, FS_CardinalityType DEF Repeated
      <3> QED BY <3>2 DEF MarketInv, RepeatsPaid
    <2> DEFINE Due == {b \in ToSet(chart) : ticks # <<>> /\ ticks[1] < b.t
                                              /\ b.t < Last(ticks) /\ b.t \notin ToSet(ticks)}
    <2>4. Due \subseteq Missing
      <3> SUFFICES ASSUME NEW b \in Due PROVE b.t < chart[Len(chart)].t
        BY DEF Missing
      <3> DEFINE n == Len(chart)
      <3>1. Len(ticks) \in 1..Len(ticks) /\ Last(ticks) = ticks[Len(ticks)]
        BY <2>1 DEF Last
      <3>2. PICK x \in 1..n : chart[x].t = Last(ticks)
        BY <2>1, <3>1 DEF TicksOK
      <3>3. chart[x] \in Bars /\ chart[n] \in Bars /\ n \in 1..n
        BY <2>1, <3>2 DEF ChartOK
      <3>4. x = n \/ chart[x].t < chart[n].t
        BY <2>1, <3>3 DEF ChartOK
      <3>5. b \in Bars
        BY <2>1 DEF ToSet, ChartOK
      <3>6. b.t \in Int /\ chart[x].t \in Int /\ chart[n].t \in Int
        BY <3>3, <3>5 DEF Bars
      <3>7. b.t < Last(ticks)
        OBVIOUS
      <3> QED BY <3>2, <3>4, <3>6, <3>7
    <2>5. IsFiniteSet(Missing) /\ Cardinality(Missing) <= skipped /\ skipped \in Nat
      BY DEF MarketInv, MissingExcused
    <2>6. Cardinality(Due) <= skipped
      <3> HIDE DEF Due
      <3>1. Cardinality(Missing) \in Nat /\ IsFiniteSet(Due) /\ Cardinality(Due) <= Cardinality(Missing)
        BY <2>4, <2>5, FS_Subset, FS_CardinalityType
      <3>2. Cardinality(Due) \in Nat
        BY <3>1, FS_CardinalityType
      <3> QED BY <2>5, <3>1, <3>2
    <2> QED BY <2>2, <2>3, <2>6 DEF BarsAdvance, Repeated
  <1> QED BY <1>1, MarketInvHolds, PTL

\* However warm-up and stream overlap, whatever the buffer drops and whatever
\* the bus loses, every hole between the buffer's oldest bar and its newest is
\* an entry the bus lost since the process started (_run, handle).
THEOREM MarketBufferHasNoHole == MarketSpec => []BufferHasNoHole
  <1>1. MarketInv => BufferHasNoHole
    <2> SUFFICES ASSUME MarketInv, fe.up, fe.warm, taken > 0,
                        NEW i \in (1..taken) \ fe.lost,
                        ticks[i] >= Min({b.t : b \in ToSet(fe.bars)})
                 PROVE  ticks[i] \in {b.t : b \in ToSet(fe.bars)}
      BY DEF BufferHasNoHole
    <2> DEFINE times == {b.t : b \in ToSet(fe.bars)}
    <2>1. /\ ticks \in Seq(Int) /\ taken \in 1..Len(ticks)
          /\ fe.bars \in Seq(Bars) /\ fe.up = TRUE /\ fe.warm = TRUE
      BY DEF MarketInv, TicksOK, BufferOK
    <2>3. Len(fe.bars) >= 1 /\ Len(fe.bars) \in Nat
      BY <2>1 DEF MarketInv, BufferOK, NoHole
    <2>4. \A j \in 1..Len(fe.bars) : fe.bars[j] \in ToSet(fe.bars) /\ fe.bars[j].t \in times
      BY <2>1 DEF ToSet
    <2>5. \A y \in times : \E j \in 1..Len(fe.bars) : y = fe.bars[j].t
      BY <2>1 DEF ToSet
    <2>6. Min(times) \in times
      <3>1. \A b \in ToSet(fe.bars) : b \in Bars
        BY <2>1 DEF ToSet
      <3>2. times \in SUBSET Int /\ \A y \in times : Start <= y
        BY <3>1, MarketAssumption DEF Bars, MarketAssumption
      <3>3. times # {} /\ Start \in Int
        BY <2>3, <2>4, MarketAssumption DEF MarketAssumption
      <3> HIDE DEF times
      <3> QED BY <3>2, <3>3, MinIsLeast
    <2>7. PICK j \in 1..Len(fe.bars) : fe.bars[j].t = Min(times)
      BY <2>5, <2>6
    <2>8. PICK m \in j..Len(fe.bars) : fe.bars[m].t = ticks[i]
      BY <2>1, <2>7 DEF MarketInv, BufferOK, NoHole
    <2> QED BY <2>3, <2>4, <2>7, <2>8
  <1> QED BY <1>1, MarketInvHolds, PTL

\* With the offset read off a new bar and the calendar at hand, no bundle for
\* a bar inside the minutes around a high-impact release goes out without the
\* blackout, whatever the broker's clock and the buffer
\* (make_news_provider, the offset detection, NewsContextEngine).
THEOREM MarketBlackoutIsSeen == MarketSpec => []BlackoutIsSeen
  <1>1. MarketInv => BlackoutIsSeen
    BY DEF MarketInv
  <1> QED BY <1>1, MarketInvHolds, PTL

-----------------------------------------------------------------------------
\* The engines see no future. What they are given at ts is the same with later
\* bars and without (UntilPrefix), and each reads nothing else of its buffer.

\* A set of naturals in which nothing is least is empty.
LEMMA NoLeast ==
    ASSUME NEW S \in SUBSET Nat, \A k \in S : k # 0 /\ k - 1 \in S
    PROVE  S = {}
  <1> SUFFICES ASSUME S # {} PROVE FALSE
    OBVIOUS
  <1>1. \A x \in S : 0 <= x
    OBVIOUS
  <1>2. PICK m \in S : \A x \in S : m <= x
    BY <1>1, LeastOfBounded
  <1> QED BY <1>2

\* Until's function: g[k] is what remains of the first k bars.
Filtered(n, bars, ts, g) ==
    /\ g[0] = <<>>
    /\ \A k \in 1..n : g[k] = IF bars[k].t <= ts THEN Append(g[k - 1], bars[k]) ELSE g[k - 1]

LEMMA UntilIsFiltered ==
    ASSUME NEW bars, NEW n \in Nat, Len(bars) = n, NEW ts
    PROVE  \E g : Filtered(n, bars, ts, g) /\ Until(bars, ts) = g[n]
  <1> DEFINE Next1(was, i) == IF bars[i].t <= ts THEN Append(was, bars[i]) ELSE was
             Upto(g, k) == g = [i \in 0..k |-> IF i = 0 THEN <<>> ELSE Next1(g[i - 1], i)]
             Bad == {k \in 0..n : ~ \E g : Upto(g, k)}
  <1>1. ASSUME NEW k \in Bad PROVE k # 0 /\ k - 1 \in Bad
    <2> HIDE DEF Next1
    <2>1. k # 0
      <3> DEFINE g == [i \in 0..0 |-> <<>>]
      <3>1. Upto(g, 0)
        OBVIOUS
      <3> HIDE DEF g
      <3> QED BY <1>1, <3>1
    <2>2. k \in Nat /\ k - 1 \in 0..n
      BY <2>1
    <2>3. ASSUME NEW g, Upto(g, k - 1) PROVE FALSE
      <3> DEFINE h == [i \in 0..k |-> IF i = k THEN Next1(g[k - 1], k) ELSE g[i]]
      <3>1. ASSUME NEW i \in 0..k PROVE h[i] = IF i = 0 THEN <<>> ELSE Next1(h[i - 1], i)
        <4>1. CASE i = k
          <5>1. h[k] = Next1(g[k - 1], k) /\ h[k - 1] = g[k - 1]
            BY <2>1, <2>2
          <5> HIDE DEF h
          <5> QED BY <2>1, <4>1, <5>1
        <4>2. CASE i # k
          <5>1. i \in 0..(k - 1) /\ h[i] = g[i]
            BY <4>2
          <5>2. g[i] = IF i = 0 THEN <<>> ELSE Next1(g[i - 1], i)
            <6> HIDE DEF h
            <6> QED BY <2>3, <5>1
          <5>3. i # 0 => h[i - 1] = g[i - 1]
            BY <4>2
          <5> HIDE DEF h
          <5> QED BY <5>1, <5>2, <5>3
        <4> QED BY <4>1, <4>2
      <3>2. h = [i \in 0..k |-> h[i]]
        OBVIOUS
      <3> HIDE DEF h
      <3>3. Upto(h, k)
        BY <3>1, <3>2
      <3> QED BY <1>1, <3>3
    <2> QED BY <2>1, <2>2, <2>3
  <1>2. Bad = {}
    <2>1. Bad \subseteq Nat
      OBVIOUS
    <2> HIDE DEF Bad
    <2> QED BY <1>1, <2>1, NoLeast
  <1>3. \E g : Upto(g, n)
    <2>1. n \in 0..n
      OBVIOUS
    <2> HIDE DEF Upto
    <2> QED BY <1>2, <2>1
  <1> DEFINE Kept(g) == g = [i \in 0..Len(bars) |->
                               IF i = 0 THEN <<>>
                               ELSE IF bars[i].t <= ts THEN Append(g[i - 1], bars[i]) ELSE g[i - 1]]
             upto == CHOOSE g : Kept(g)
  <1>4. \E g : Kept(g)
    BY <1>3
  <1>5. Until(bars, ts) = upto[n]
    BY DEF Until
  <1>6. Kept(upto)
    <2> HIDE DEF Kept
    <2> QED BY <1>4
  <1> HIDE DEF upto
  <1>7. \A i \in 0..n : upto[i] = IF i = 0 THEN <<>> ELSE Next1(upto[i - 1], i)
    BY <1>6
  <1>8. Filtered(n, bars, ts, upto)
    BY <1>7 DEF Filtered
  <1> QED BY <1>5, <1>8

LEMMA UntilPrefix ==
    ASSUME NEW T, NEW bars \in Seq(T), NEW k \in 0..Len(bars), NEW ts \in Int,
           \A i \in (k + 1)..Len(bars) : bars[i].t \in Int /\ ts < bars[i].t
    PROVE  Until(bars, ts) = Until(SubSeq(bars, 1, k), ts)
  <1> DEFINE n == Len(bars)
             past == SubSeq(bars, 1, k)
  <1>1. n \in Nat /\ k \in Nat /\ k <= n
    OBVIOUS
  <1>2. Len(past) = k /\ \A i \in 1..k : past[i] = bars[i]
    BY <1>1, SubSeqProperties
  <1> HIDE DEF past
  <1>3. PICK g : Filtered(n, bars, ts, g) /\ Until(bars, ts) = g[n]
    BY <1>1, UntilIsFiltered
  <1>4. PICK h : Filtered(k, past, ts, h) /\ Until(past, ts) = h[k]
    <2>1. k \in Nat /\ Len(past) = k
      BY <1>1, <1>2
    <2> HIDE DEF n
    <2> QED BY <2>1, UntilIsFiltered
  <1>5. /\ g[0] = <<>> /\ h[0] = <<>>
        /\ \A i \in 1..k : /\ g[i] = IF bars[i].t <= ts THEN Append(g[i - 1], bars[i]) ELSE g[i - 1]
                           /\ h[i] = IF bars[i].t <= ts THEN Append(h[i - 1], bars[i]) ELSE h[i - 1]
    BY <1>1, <1>2, <1>3, <1>4 DEF Filtered
  <1>6. \A i \in (k + 1)..n : g[i] = g[i - 1]
    <2> TAKE i \in (k + 1)..n
    <2>1. i \in 1..n
      BY <1>1
    <2>2. ~ (bars[i].t <= ts)
      OBVIOUS
    <2> QED BY <1>3, <2>1, <2>2 DEF Filtered
  <1> DEFINE Apart == {i \in 0..k : g[i] # h[i]}
             Moved == {m \in Nat : k + m <= n /\ g[k + m] # g[k]}
  <1>7. Apart = {}
    <2>1. ASSUME NEW i \in Apart PROVE i # 0 /\ i - 1 \in Apart
      <3>1. i # 0
        BY <1>5
      <3>2. i \in 1..k /\ i - 1 \in 0..k
        BY <1>1, <3>1
      <3>3. g[i - 1] = h[i - 1] => g[i] = h[i]
        BY <1>5, <3>2
      <3> QED BY <3>1, <3>2, <3>3
    <2>2. Apart \subseteq Nat
      OBVIOUS
    <2> HIDE DEF Apart
    <2> QED BY <2>1, <2>2, NoLeast
  <1>8. Moved = {}
    <2>1. ASSUME NEW m \in Moved PROVE m # 0 /\ m - 1 \in Moved
      <3>1. m # 0
        BY <1>1
      <3>2. k + m \in (k + 1)..n /\ m - 1 \in Nat /\ k + (m - 1) = (k + m) - 1
        BY <1>1, <3>1
      <3>3. g[k + m] = g[k + (m - 1)]
        BY <1>6, <3>2
      <3> QED BY <1>1, <3>1, <3>2, <3>3
    <2>2. Moved \subseteq Nat
      OBVIOUS
    <2> HIDE DEF Moved
    <2> QED BY <2>1, <2>2, NoLeast
  <1>9. g[k] = h[k]
    BY <1>1, <1>7
  <1>10. g[n] = g[k]
    <2>1. n - k \in Nat /\ k + (n - k) = n
      BY <1>1
    <2>2. PICK m \in Nat : k + m = n
      BY <2>1
    <2>3. m \notin Moved
      BY <1>8
    <2> QED BY <1>1, <2>2, <2>3
  <1> QED BY <1>3, <1>4, <1>9, <1>10 DEF past

\* Each engine is a function of the bars up to ts: two buffers that agree
\* there give it the same input.
Alike(a, b, ts) == PointInTimeBars(a, ts) = PointInTimeBars(b, ts)

LEMMA EnginesReadOnlyThePast ==
    ASSUME NEW a, NEW b, NEW x, NEW y, NEW ts, NEW offset, NEW calendar,
           Alike(a, b, ts), Alike(x, y, ts), NEW e \in Engines
    PROVE  Assemble(a, x, ts, offset, calendar)[e] = Assemble(b, y, ts, offset, calendar)[e]
  <1> USE DEF Alike
  <1>1. CASE e = "session"
    <2>1. SessionCompute(a, ts, offset) = SessionCompute(b, ts, offset)
      BY DEF SessionCompute
    <2> QED BY <1>1, <2>1 DEF Assemble
  <1>2. CASE e = "vwap"
    <2>1. VwapCompute(a, ts, offset) = VwapCompute(b, ts, offset)
      BY DEF VwapCompute
    <2> QED BY <1>2, <2>1 DEF Assemble
  <1>3. CASE e = "vr"
    <2>1. VolumeRangeCompute(x, ts) = VolumeRangeCompute(y, ts)
      BY DEF VolumeRangeCompute
    <2> QED BY <1>3, <2>1 DEF Assemble
  <1>4. CASE e = "fvg"
    <2>1. FvgCompute(a, ts) = FvgCompute(b, ts)
      BY DEF FvgCompute
    <2> QED BY <1>4, <2>1 DEF Assemble
  <1>5. CASE e = "structure"
    <2>1. StructureCompute(a, ts, FractalN, 10, M5) = StructureCompute(b, ts, FractalN, 10, M5)
      BY DEF StructureCompute
    <2> QED BY <1>5, <2>1 DEF Assemble
  <1>6. CASE e = "structureH1"
    <2>1. StructureCompute(a, ts, 2, 3, H1) = StructureCompute(b, ts, 2, 3, H1)
      BY DEF StructureCompute
    <2> QED BY <1>6, <2>1 DEF Assemble
  <1>7. CASE e = "momentum"
    <2>1. MomentumCompute(a, ts) = MomentumCompute(b, ts)
      BY DEF MomentumCompute
    <2> QED BY <1>7, <2>1 DEF Assemble
  <1>8. CASE e = "volumeTrend"
    <2>1. VolumeTrend(a, ts, 9, 20, 10) = VolumeTrend(b, ts, 9, 20, 10)
      BY DEF VolumeTrend
    <2> QED BY <1>8, <2>1 DEF Assemble
  <1>9. CASE e = "fib"
    <2>1. FibCompute(a, ts) = FibCompute(b, ts)
      BY DEF FibCompute
    <2> QED BY <1>9, <2>1 DEF Assemble
  <1>10. CASE e = "news"
    BY <1>10 DEF Assemble
  <1> QED BY <1>1, <1>2, <1>3, <1>4, <1>5, <1>6, <1>7, <1>8, <1>9, <1>10 DEF Engines

\* The bars after the first k are later than ts.
AllLater(bars, k, ts) == \A i \in (k + 1)..Len(bars) : bars[i].t \in Int /\ ts < bars[i].t

\* Whatever the two buffers hold, in any order and with repeats: bars appended
\* after the first k and m that are all later than ts do not change what the
\* engines see at ts.
THEOREM EnginesSeeNoFuture ==
    ASSUME NEW T, NEW bars \in Seq(T), NEW deep \in Seq(T),
           NEW k \in 0..Len(bars), NEW m \in 0..Len(deep),
           NEW ts \in Int, NEW offset, NEW calendar,
           AllLater(bars, k, ts), AllLater(deep, m, ts)
    PROVE  Restrict(Assemble(bars, deep, ts, offset, calendar), Engines)
              = Restrict(Assemble(SubSeq(bars, 1, k), SubSeq(deep, 1, m), ts, offset, calendar),
                         Engines)
  <1> DEFINE a == SubSeq(bars, 1, k)
             b == SubSeq(deep, 1, m)
  <1>1. Until(bars, ts) = Until(a, ts)
    BY UntilPrefix DEF AllLater
  <1>2. Until(deep, ts) = Until(b, ts)
    BY UntilPrefix DEF AllLater
  <1>3. Alike(bars, a, ts) /\ Alike(deep, b, ts)
    BY <1>1, <1>2 DEF Alike, PointInTimeBars
  <1> HIDE DEF a, b
  <1>4. \A e \in Engines : Assemble(bars, deep, ts, offset, calendar)[e]
                              = Assemble(a, b, ts, offset, calendar)[e]
    BY <1>3, EnginesReadOnlyThePast
  <1>5. Restrict(Assemble(bars, deep, ts, offset, calendar), Engines)
          = Restrict(Assemble(a, b, ts, offset, calendar), Engines)
    BY <1>4 DEF Restrict
  <1> QED BY <1>5 DEF a, b

\* PointInTime of the run, for every set of such charts.
THEOREM MarketPointInTime == MarketSpec => []PointInTime
  <1>1. PointInTimeIn(Charts, News)
    <2> SUFFICES ASSUME NEW bars \in Charts, NEW k \in 1..(Len(bars) - 1)
                 PROVE  Restrict(Assemble(bars, bars, bars[k].t, 0, News), Engines)
                           = Restrict(Assemble(SubSeq(bars, 1, k), SubSeq(bars, 1, k),
                                               bars[k].t, 0, News), Engines)
      BY DEF PointInTimeIn
    <2> DEFINE T == [t : Int, o : Int, h : Int, l : Int, c : Int, v : Nat]
    <2>1. bars \in Seq(T) /\ \A i, j \in DOMAIN bars : i < j => bars[i].t < bars[j].t
      BY ChartsAssumption DEF ChartsAssumption
    <2>2. \A i \in DOMAIN bars : bars[i].t \in Int
      <3> TAKE i \in DOMAIN bars
      <3>1. bars[i] \in T
        <4> HIDE DEF T
        <4> QED BY <2>1
      <3> QED BY <3>1
    <2>3. Len(bars) \in Nat /\ k \in 0..Len(bars) /\ DOMAIN bars = 1..Len(bars) /\ k \in DOMAIN bars
      <3> HIDE DEF T
      <3>1. Len(bars) \in Nat /\ DOMAIN bars = 1..Len(bars)
        BY <2>1
      <3> QED BY <3>1
    <2> DEFINE ts == bars[k].t
    <2>4. ts \in Int /\ AllLater(bars, k, ts)
      <3> HIDE DEF T
      <3> QED BY <2>1, <2>2, <2>3 DEF AllLater
    <2> HIDE DEF T, ts
    <2>5. Restrict(Assemble(bars, bars, ts, 0, News), Engines)
            = Restrict(Assemble(SubSeq(bars, 1, k), SubSeq(bars, 1, k), ts, 0, News), Engines)
      BY <2>1, <2>3, <2>4, EnginesSeeNoFuture
    <2> QED BY <2>5 DEF ts
  <1>2. PointInTime
    BY <1>1 DEF PointInTime
  <1> QED BY <1>2, PTL

================================================================================
