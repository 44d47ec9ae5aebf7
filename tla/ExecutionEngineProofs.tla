------------------------ MODULE ExecutionEngineProofs ------------------------
(***************************************************************************)
(* The life of a position for any number of tickets and faults: the plan   *)
(* is kept while the position is open, and no result is booked early or    *)
(* twice.                                                                  *)
(***************************************************************************)
EXTENDS ExecutionEngine, SequenceTheorems, TLAPS

Finalising == pc \in {"info", "publish", "book", "delete"}

\* The ticket in work.
CurInWork ==
    /\ Finalising => /\ cur \in plans
                     /\ cur \notin todo
                     /\ cur \in book => cur \in misread
    /\ pc \in {"store", "trade"} => cur \in 1..tickets
    /\ pc = "store" => cur \notin plans /\ booked[cur] = 0

\* A plan that is taken for closed is, unless positions_get was wrong.
SnapIsRight ==
    pc = "loop" \/ Finalising =>
        \A t \in todo : t \in book /\ t \notin snap => t \in misread

\* A result is booked for tickets that exist; the plan is then gone or about
\* to go, unless its deletion failed.
BookedIsGone ==
    \A t \in Tickets :
        booked[t] > 0 => /\ t <= tickets
                         /\ \/ t \notin plans
                            \/ t \in rebook
                            \/ pc = "delete" /\ cur = t

\* Every position ever opened has a plan, or its entry broke, or it was
\* finalised, with or without a result to book.
Settled ==
    /\ pc = "delete" => cur \in unbooked \/ booked[cur] > 0
    /\ \A t \in 1..tickets :
          \/ t \in plans \cup orphaned \cup unbooked
          \/ booked[t] > 0
          \/ pc = "store" /\ cur = t

IInv ==
    /\ TypeOK
    /\ Settled
    /\ CurInWork
    /\ SnapIsRight
    /\ BookedIsGone
    /\ PlanKeptUnlessMisread
    /\ BookedAtMostOnce
    /\ NeverBookedWhileOpen

LEMMA InitIInv == Init => IInv
  <1> SUFFICES ASSUME Init PROVE IInv
    OBVIOUS
  <1>1. /\ tickets \in 0..MaxTickets /\ faults \in 0..MaxFaults
        /\ cur \in 0..tickets
    BY EngineAssumption DEF EngineAssumption, Init
  <1>2. events \in Seq(Event)
    BY DEF Init
  <1>3. /\ row \in [Tickets -> {"none", "open", "closed"}]
        /\ booked \in [Tickets -> Nat]
    BY DEF Init
  <1>4. TypeOK
    BY <1>1, <1>2, <1>3 DEF Init, TypeOK, PcStates
  <1>5. \A t \in Tickets : booked[t] = 0
    BY DEF Init
  <1>6. CurInWork /\ SnapIsRight /\ PlanKeptUnlessMisread
    BY DEF Init, CurInWork, SnapIsRight, Finalising, PlanKeptUnlessMisread
  <1>7. NeverBookedWhileOpen
    BY DEF Init, NeverBookedWhileOpen
  <1>8. Settled
    <2>1. 1..tickets = {} /\ pc = "idle"
      BY DEF Init
    <2> QED BY <2>1 DEF Settled
  <1> QED BY <1>4, <1>5, <1>6, <1>7, <1>8 DEF IInv, BookedIsGone, BookedAtMostOnce

-----------------------------------------------------------------------------
(* Types.                                                                  *)

LEMMA TicketTypes ==
    ASSUME TypeOK
    PROVE  /\ tickets \in Nat /\ MaxTickets \in Nat /\ tickets <= MaxTickets
           /\ 1..tickets \subseteq Tickets
           /\ plans \subseteq Tickets /\ book \subseteq Tickets
  BY EngineAssumption DEF EngineAssumption, TypeOK, Tickets

LEMMA FaultTypes ==
    ASSUME TypeOK, Fault
    PROVE  faults' \in 0..MaxFaults
  BY EngineAssumption DEF EngineAssumption, TypeOK, Fault

\* The handler's steps over the stored plans.
LEMMA ManageTypeOK ==
    ASSUME TypeOK, CurInWork,
           \/ Manage \/ AbortFinalise \/ DeletePlanFails
    PROVE  TypeOK'
  <1> USE DEF PcStates
  <1>1. CASE LoadPlans \/ MeetClosed \/ EndLoop \/ AskDealHistory
    <2>1. /\ todo' \subseteq plans /\ cur' \in {cur} \cup todo
          /\ pnlKnown' \in BOOLEAN /\ pc' \in PcStates
          /\ UNCHANGED <<tickets, book, plans, snap, booked, faults, torn, journal>>
      BY <1>1 DEF LoadPlans, MeetClosed, EndLoop, AskDealHistory, TypeOK
    <2>2. cur' \in 0..tickets
      BY <2>1 DEF TypeOK
    <2> QED BY <2>1, <2>2 DEF TypeOK, torn, journal
  <1>2. CASE ReadPositions
    <2>1. faults' \in 0..MaxFaults
      <3>1. faults' = faults \/ Fault
        BY <1>2 DEF ReadPositions
      <3> QED BY <3>1, FaultTypes DEF TypeOK
    <2>2. /\ snap' \in {book, {}, snap} /\ pc' \in PcStates
          /\ todo' \in {todo, {}} /\ misread' \subseteq misread \cup todo
          /\ UNCHANGED <<tickets, book, plans, cur, pnlKnown, booked, orphaned,
                         untraded, unbooked, rebook, journal>>
      BY <1>2 DEF ReadPositions
    <2>3. misread' \subseteq Tickets
      BY <2>2, TicketTypes DEF TypeOK
    <2> QED BY <2>1, <2>2, <2>3 DEF TypeOK, journal
  <1>3. CASE ManageLive
    <2>1. faults' \in 0..MaxFaults
      <3>1. faults' = faults \/ Fault
        BY <1>3 DEF ManageLive
      <3> QED BY <3>1, FaultTypes DEF TypeOK
    <2>2. /\ book' \subseteq book /\ todo' \subseteq todo /\ pc' \in PcStates
          /\ UNCHANGED <<tickets, plans, snap, cur, pnlKnown, booked, torn, journal>>
      BY <1>3 DEF ManageLive
    <2> QED BY <2>1, <2>2 DEF TypeOK, torn, journal
  <1>4. CASE PublishClose
    <2>1. cur \in Tickets
      BY <1>4, TicketTypes DEF PublishClose, CurInWork, Finalising
    <2>2. [kind |-> "close", ticket |-> cur] \in Event
      BY <2>1 DEF Event
    <2>3. events' \in Seq(Event)
      BY <1>4, <2>2 DEF PublishClose, TypeOK
    <2> QED BY <1>4, <2>3 DEF PublishClose, TypeOK, torn
  <1>5. CASE BookPnl
    <2>1. cur \in Tickets
      BY <1>5, TicketTypes DEF BookPnl, CurInWork, Finalising
    <2>2. booked' \in [Tickets -> Nat]
      BY <1>5, <2>1 DEF BookPnl, TypeOK
    <2>3. unbooked' \subseteq Tickets
      BY <1>5, <2>1 DEF BookPnl, TypeOK
    <2> QED BY <1>5, <2>2, <2>3 DEF BookPnl, TypeOK, journal
  <1>6. CASE DeletePlan
    <2>1. /\ plans' \subseteq 1..tickets /\ todo \subseteq plans' /\ 0 \in 0..tickets
      BY <1>6, TicketTypes DEF DeletePlan, TypeOK, CurInWork, Finalising
    <2> QED BY <1>6, <2>1 DEF DeletePlan, TypeOK, torn, journal
  <1>7. CASE AbortFinalise
    <2>1. cur \in Tickets
      BY <1>7, TicketTypes DEF AbortFinalise, CurInWork, Finalising
    <2>2. faults' \in 0..MaxFaults /\ unbooked' \subseteq Tickets
      BY <1>7, <2>1, FaultTypes DEF AbortFinalise, TypeOK
    <2> QED BY <1>7, <2>2 DEF AbortFinalise, TypeOK, journal
  <1>8. CASE DeletePlanFails
    <2>1. cur \in Tickets
      BY <1>8, TicketTypes DEF DeletePlanFails, CurInWork, Finalising
    <2>2. faults' \in 0..MaxFaults
      BY <1>8, FaultTypes DEF DeletePlanFails
    <2>3. rebook' \subseteq Tickets
      BY <1>8, <2>1 DEF DeletePlanFails, TypeOK
    <2>4. 0 \in 0..tickets
      BY TicketTypes
    <2> QED BY <1>8, <2>2, <2>3, <2>4 DEF DeletePlanFails, TypeOK, journal
  <1> QED BY <1>1, <1>2, <1>3, <1>4, <1>5, <1>6, <1>7, <1>8 DEF Manage

\* The entry.
LEMMA EntryTypeOK ==
    ASSUME TypeOK, CurInWork,
           \/ Entry \/ SendReplyLost \/ EntryFails
    PROVE  TypeOK'
  <1> USE DEF PcStates
  <1>1. CASE NoEntry
    BY <1>1 DEF NoEntry, TypeOK, torn, journal
  <1>2. CASE Send \/ SendReplyLost
    <2>1. tickets < MaxTickets /\ tickets' = tickets + 1
      BY <1>2 DEF Send, SendReplyLost
    <2>2. /\ tickets' \in 0..MaxTickets /\ tickets + 1 \in Tickets
          /\ 1..tickets \subseteq 1..tickets' /\ tickets + 1 \in 1..tickets'
          /\ 0..tickets \subseteq 0..tickets' /\ tickets + 1 \in 0..tickets'
      BY <2>1, TicketTypes DEF Tickets
    <2>3. faults' \in 0..MaxFaults
      <3>1. faults' = faults \/ Fault
        BY <1>2 DEF Send, SendReplyLost
      <3> QED BY <3>1, FaultTypes DEF TypeOK
    <2>4. /\ book' = book \cup {tickets + 1} /\ pc' \in {"store", "idle"}
          /\ cur' \in {cur, tickets + 1}
          /\ orphaned' \subseteq orphaned \cup {tickets + 1}
          /\ UNCHANGED <<plans, todo, snap, pnlKnown, booked, untraded,
                         unbooked, rebook, misread, journal>>
      BY <1>2 DEF Send, SendReplyLost, torn
    <2>5. /\ book' \subseteq 1..tickets' /\ plans' \subseteq 1..tickets'
          /\ snap' \subseteq 1..tickets' /\ cur' \in 0..tickets'
          /\ orphaned' \subseteq Tickets /\ pc' \in PcStates
      BY <2>2, <2>4 DEF TypeOK
    <2> QED BY <2>2, <2>3, <2>4, <2>5 DEF TypeOK, journal
  <1>3. CASE StorePlan
    <2>1. cur \in 1..tickets
      BY <1>3 DEF StorePlan, CurInWork
    <2> QED BY <1>3, <2>1 DEF StorePlan, TypeOK, torn, journal
  <1>4. CASE PublishTrade
    <2>1. cur \in Tickets
      BY <1>4, TicketTypes DEF PublishTrade, CurInWork
    <2>2. [kind |-> "trade", ticket |-> cur] \in Event
      BY <2>1 DEF Event
    <2>3. events' \in Seq(Event) /\ 0 \in 0..tickets
      BY <1>4, <2>2, TicketTypes DEF PublishTrade, TypeOK
    <2> QED BY <1>4, <2>3 DEF PublishTrade, TypeOK, torn
  <1>5. CASE EntryFails
    <2>1. cur \in Tickets
      BY <1>5, TicketTypes DEF EntryFails, CurInWork
    <2>2. faults' \in 0..MaxFaults /\ 0 \in 0..tickets
      BY <1>5, FaultTypes, TicketTypes DEF EntryFails
    <2>3. orphaned' \subseteq Tickets /\ untraded' \subseteq Tickets
      BY <1>5, <2>1 DEF EntryFails, TypeOK
    <2> QED BY <1>5, <2>2, <2>3 DEF EntryFails, TypeOK, journal
  <1> QED BY <1>1, <1>2, <1>3, <1>4, <1>5 DEF Entry

\* Broker, process and journal writer.
LEMMA OutsideTypeOK ==
    ASSUME TypeOK, CurInWork,
           \/ BrokerCloses \/ Crash \/ Restart
           \/ WriteEvent \/ WriteFails \/ UNCHANGED vars
    PROVE  TypeOK'
  <1> USE DEF PcStates
  <1>1. CASE BrokerCloses \/ Restart
    <2>1. /\ book' \subseteq book /\ pc' \in PcStates
          /\ UNCHANGED <<tickets, plans, todo, snap, cur, pnlKnown, booked,
                         faults, torn, journal>>
      BY <1>1 DEF BrokerCloses, Restart, engine, TypeOK
    <2> QED BY <2>1 DEF TypeOK, torn, journal
  <1>2. CASE Crash
    <2>1. pc \in {"store", "trade", "delete"} => cur \in Tickets
      BY TicketTypes DEF CurInWork, Finalising
    <2>2. /\ orphaned' \subseteq Tickets /\ untraded' \subseteq Tickets
          /\ rebook' \subseteq Tickets
      BY <1>2, <2>1 DEF Crash, TypeOK
    <2>3. faults' \in 0..MaxFaults /\ 0 \in 0..tickets
      BY <1>2, FaultTypes, TicketTypes DEF Crash
    <2> QED BY <1>2, <2>2, <2>3 DEF Crash, TypeOK, journal
  <1>3. CASE WriteEvent \/ WriteFails
    <2>1. events # <<>>
      BY <1>3 DEF WriteEvent, WriteFails
    <2>2. Head(events) \in Event /\ Tail(events) \in Seq(Event)
      BY <2>1, HeadTailProperties DEF TypeOK
    <2>3. Head(events).ticket \in Tickets
      BY <2>2 DEF Event
    <2>4. Written(Head(events)) \in [Tickets -> {"none", "open", "closed"}]
      BY <2>3 DEF Written, TypeOK
    <2>5. /\ row' \in [Tickets -> {"none", "open", "closed"}]
          /\ events' \in Seq(Event)
          /\ unmatched' \subseteq Tickets /\ lost' \subseteq Tickets
      BY <1>3, <2>2, <2>3, <2>4 DEF WriteEvent, WriteFails, TypeOK
    <2>6. faults' \in 0..MaxFaults
      <3>1. faults' = faults \/ Fault
        BY <1>3 DEF WriteEvent, WriteFails
      <3> QED BY <3>1, FaultTypes DEF TypeOK
    <2>7. UNCHANGED <<tickets, book, plans, engine, booked, torn>>
      BY <1>3 DEF WriteEvent, WriteFails
    <2> QED BY <2>5, <2>6, <2>7 DEF TypeOK, engine, torn
  <1>4. CASE UNCHANGED vars
    BY <1>4 DEF vars, engine, torn, journal, TypeOK
  <1> QED BY <1>1, <1>2, <1>3, <1>4

LEMMA NextTypeOK == TypeOK /\ CurInWork /\ [Next]_vars => TypeOK'
  BY ManageTypeOK, EntryTypeOK, OutsideTypeOK DEF Next

-----------------------------------------------------------------------------
(* The rest of the invariant.                                              *)

LEMMA NextCurInWork == IInv /\ [Next]_vars => CurInWork'
  <1> SUFFICES ASSUME IInv, [Next]_vars PROVE CurInWork'
    OBVIOUS
  <1> USE DEF IInv, Finalising
  <1>1. CASE LoadPlans \/ ReadPositions \/ EndLoop \/ NoEntry \/ DeletePlan
             \/ DeletePlanFails \/ PublishTrade \/ EntryFails \/ SendReplyLost
             \/ Crash \/ Restart
    <2>1. pc' \in {"read", "loop", "entry", "idle", "down"}
      BY <1>1 DEF LoadPlans, ReadPositions, EndLoop, NoEntry, DeletePlan,
                  DeletePlanFails, PublishTrade, EntryFails, SendReplyLost,
                  Crash, Restart
    <2> QED BY <2>1 DEF CurInWork
  <1>2. CASE ManageLive
    <2>1. pc' \in {"loop", "entry"}
      BY <1>2 DEF ManageLive
    <2> QED BY <2>1 DEF CurInWork
  <1>3. CASE MeetClosed
    <2>1. PICK t \in todo \ snap : cur' = t /\ todo' = todo \ {t}
      BY <1>3 DEF MeetClosed
    <2>2. pc = "loop" /\ pc' = "info" /\ UNCHANGED <<plans, book, misread>>
      BY <1>3 DEF MeetClosed, torn
    <2> QED BY <2>1, <2>2 DEF CurInWork, SnapIsRight, TypeOK
  <1>4. CASE AskDealHistory \/ PublishClose \/ BookPnl \/ AbortFinalise
    <2>1. /\ Finalising /\ pc' \in {"publish", "book", "delete"}
          /\ UNCHANGED <<cur, todo, plans, book, misread>>
      BY <1>4 DEF AskDealHistory, PublishClose, BookPnl, AbortFinalise, torn
    <2> QED BY <2>1 DEF CurInWork
  <1>5. CASE Send
    <2>1. /\ pc' = "store" /\ cur' = tickets + 1 /\ tickets' = tickets + 1
          /\ tickets < MaxTickets /\ UNCHANGED <<plans, booked>>
      BY <1>5 DEF Send
    <2>2. /\ tickets + 1 \in 1..tickets' /\ tickets + 1 \in Tickets
          /\ tickets + 1 \notin 1..tickets /\ ~(tickets + 1 <= tickets)
      BY <2>1, TicketTypes DEF Tickets
    <2>3. booked[tickets + 1] \in Nat
      BY <2>2 DEF TypeOK
    <2>4. booked[tickets + 1] = 0
      BY <2>2, <2>3 DEF BookedIsGone
    <2> QED BY <2>1, <2>2, <2>4 DEF CurInWork, TypeOK
  <1>6. CASE StorePlan
    BY <1>6 DEF StorePlan, CurInWork
  <1>7. CASE BrokerCloses
    <2>1. book' \subseteq book /\ UNCHANGED <<tickets, plans, engine, booked, torn>>
      BY <1>7 DEF BrokerCloses
    <2> QED BY <2>1 DEF CurInWork, engine, torn
  <1>8. CASE WriteEvent \/ WriteFails \/ UNCHANGED vars
    <2>1. UNCHANGED <<tickets, book, plans, engine, booked, torn>>
      BY <1>8 DEF WriteEvent, WriteFails, vars
    <2> QED BY <2>1 DEF CurInWork, engine, torn
  <1> QED BY <1>1, <1>2, <1>3, <1>4, <1>5, <1>6, <1>7, <1>8
          DEF Next, Manage, Entry

LEMMA NextSnapIsRight == IInv /\ [Next]_vars => SnapIsRight'
  <1> SUFFICES ASSUME IInv, [Next]_vars PROVE SnapIsRight'
    OBVIOUS
  <1> USE DEF IInv, Finalising
  <1>1. CASE ReadPositions
    <2>1. \/ /\ snap' = book /\ UNCHANGED <<todo, misread>>
          \/ /\ snap' = {} /\ todo' = todo
             /\ misread' = misread \cup (todo \cap book)
          \/ pc' = "entry"
      BY <1>1 DEF ReadPositions
    <2>2. book' = book
      BY <1>1 DEF ReadPositions
    <2> QED BY <2>1, <2>2 DEF SnapIsRight
  <1>2. CASE \/ ManageLive \/ MeetClosed \/ AskDealHistory \/ PublishClose
             \/ BookPnl \/ DeletePlan \/ DeletePlanFails \/ AbortFinalise
    <2>1. pc = "loop" \/ Finalising
      BY <1>2 DEF ManageLive, MeetClosed, AskDealHistory, PublishClose, BookPnl,
                  DeletePlan, DeletePlanFails, AbortFinalise
    <2>2. /\ todo' \subseteq todo /\ book' \subseteq book
          /\ UNCHANGED <<snap, misread>>
      BY <1>2 DEF ManageLive, MeetClosed, AskDealHistory, PublishClose, BookPnl,
                  DeletePlan, DeletePlanFails, AbortFinalise, torn
    <2> QED BY <2>1, <2>2 DEF SnapIsRight
  <1>3. CASE \/ LoadPlans \/ EndLoop \/ Entry \/ SendReplyLost \/ EntryFails
             \/ Crash \/ Restart
    <2>1. pc' \in {"read", "entry", "idle", "store", "trade", "down"}
      BY <1>3 DEF LoadPlans, EndLoop, Entry, NoEntry, Send, StorePlan,
                  PublishTrade, SendReplyLost, EntryFails, Crash, Restart
    <2> QED BY <2>1 DEF SnapIsRight
  <1>4. CASE BrokerCloses \/ WriteEvent \/ WriteFails \/ UNCHANGED vars
    <2>1. book' \subseteq book /\ UNCHANGED <<engine, torn>>
      BY <1>4 DEF BrokerCloses, WriteEvent, WriteFails, vars
    <2> QED BY <2>1 DEF SnapIsRight, engine, torn
  <1> QED BY <1>1, <1>2, <1>3, <1>4 DEF Next, Manage

LEMMA NextBookedIsGone == IInv /\ [Next]_vars => BookedIsGone'
  <1> SUFFICES ASSUME IInv, [Next]_vars PROVE BookedIsGone'
    OBVIOUS
  <1> USE DEF IInv, Finalising
  <1>1. CASE BookPnl
    <2>1. /\ pc' = "delete" /\ cur' = cur /\ cur \in 1..tickets
          /\ UNCHANGED <<tickets, plans, rebook>>
          /\ booked' = [booked EXCEPT ![cur] = IF pnlKnown THEN @ + 1 ELSE @]
      BY <1>1 DEF BookPnl, CurInWork, TypeOK
    <2>2. ASSUME NEW t \in Tickets, booked'[t] > 0
          PROVE  t <= tickets /\ (t \notin plans \/ t \in rebook \/ cur = t)
      <3>1. CASE t = cur
        BY <2>1, <3>1, TicketTypes
      <3>2. CASE t # cur
        <4>1. booked'[t] = booked[t] /\ pc # "delete"
          BY <1>1, <2>1, <3>2 DEF BookPnl, TypeOK
        <4> QED BY <2>2, <4>1 DEF BookedIsGone
      <3> QED BY <3>1, <3>2
    <2> QED BY <2>1, <2>2 DEF BookedIsGone
  <1>2. CASE DeletePlan
    <2>1. /\ plans' = plans \ {cur} /\ UNCHANGED <<tickets, booked, rebook>>
      BY <1>2 DEF DeletePlan, torn
    <2> QED BY <2>1 DEF BookedIsGone
  <1>3. CASE DeletePlanFails \/ Crash
    <2>1. /\ pc = "delete" => rebook' = rebook \cup {cur}
          /\ rebook \subseteq rebook' /\ UNCHANGED <<tickets, booked, plans>>
      BY <1>3 DEF DeletePlanFails, Crash
    <2> QED BY <2>1 DEF BookedIsGone
  <1>4. CASE Send \/ SendReplyLost
    <2>1. /\ tickets' = tickets + 1 /\ UNCHANGED <<booked, plans, rebook>>
          /\ pc # "delete"
      BY <1>4 DEF Send, SendReplyLost, torn
    <2>2. \A t \in Tickets : t <= tickets => t <= tickets + 1
      BY TicketTypes DEF Tickets
    <2> QED BY <2>1, <2>2 DEF BookedIsGone
  <1>5. CASE StorePlan
    <2>1. /\ plans' = plans \cup {cur} /\ booked[cur] = 0 /\ pc # "delete"
          /\ UNCHANGED <<tickets, booked, rebook>>
      BY <1>5 DEF StorePlan, CurInWork, torn
    <2> QED BY <2>1 DEF BookedIsGone
  <1>6. CASE \/ LoadPlans \/ ReadPositions \/ ManageLive \/ MeetClosed \/ EndLoop
             \/ AskDealHistory \/ PublishClose \/ AbortFinalise \/ NoEntry
             \/ PublishTrade \/ EntryFails \/ Restart
    <2>1. pc # "delete" /\ UNCHANGED <<tickets, booked, plans, rebook>>
      BY <1>6 DEF LoadPlans, ReadPositions, ManageLive, MeetClosed, EndLoop,
                  AskDealHistory, PublishClose, AbortFinalise, NoEntry,
                  PublishTrade, EntryFails, Restart, torn
    <2> QED BY <2>1 DEF BookedIsGone
  <1>7. CASE BrokerCloses \/ WriteEvent \/ WriteFails \/ UNCHANGED vars
    <2>1. UNCHANGED <<tickets, plans, booked, engine, torn>>
      BY <1>7 DEF BrokerCloses, WriteEvent, WriteFails, vars
    <2> QED BY <2>1 DEF BookedIsGone, engine, torn
  <1> QED BY <1>1, <1>2, <1>3, <1>4, <1>5, <1>6, <1>7 DEF Next, Manage, Entry

LEMMA NextPlanKept == IInv /\ [Next]_vars => PlanKeptUnlessMisread'
  <1> SUFFICES ASSUME IInv, [Next]_vars PROVE PlanKeptUnlessMisread'
    OBVIOUS
  <1> USE DEF IInv, Finalising
  <1>1. CASE DeletePlan
    <2>1. /\ plans' = plans \ {cur} /\ (cur \in book => cur \in misread)
          /\ pc # "store" /\ UNCHANGED <<book, orphaned, misread>>
      BY <1>1 DEF DeletePlan, CurInWork, torn
    <2> QED BY <2>1 DEF PlanKeptUnlessMisread
  <1>2. CASE Send \/ SendReplyLost
    <2>1. /\ pc # "store" /\ book' = book \cup {tickets + 1}
          /\ \/ pc' = "store" /\ cur' = tickets + 1 /\ orphaned' = orphaned
             \/ orphaned' = orphaned \cup {tickets + 1}
          /\ UNCHANGED <<plans, misread>>
      BY <1>2 DEF Send, SendReplyLost, torn
    <2> QED BY <2>1 DEF PlanKeptUnlessMisread
  <1>3. CASE StorePlan \/ EntryFails \/ Crash
    <2>1. /\ plans \cup orphaned \subseteq plans' \cup orphaned'
          /\ pc = "store" => cur \in plans' \cup orphaned'
          /\ UNCHANGED <<book, misread>>
      BY <1>3 DEF StorePlan, EntryFails, Crash, torn
    <2> QED BY <2>1 DEF PlanKeptUnlessMisread
  <1>4. CASE \/ LoadPlans \/ ReadPositions \/ ManageLive \/ MeetClosed \/ EndLoop
             \/ AskDealHistory \/ PublishClose \/ BookPnl \/ AbortFinalise
             \/ DeletePlanFails \/ NoEntry \/ PublishTrade \/ Restart
    <2>1. /\ pc # "store" /\ book' \subseteq book /\ misread \subseteq misread'
          /\ UNCHANGED <<plans, orphaned>>
      BY <1>4 DEF LoadPlans, ReadPositions, ManageLive, MeetClosed, EndLoop,
                  AskDealHistory, PublishClose, BookPnl, AbortFinalise,
                  DeletePlanFails, NoEntry, PublishTrade, Restart, torn
    <2> QED BY <2>1 DEF PlanKeptUnlessMisread
  <1>5. CASE BrokerCloses \/ WriteEvent \/ WriteFails \/ UNCHANGED vars
    <2>1. book' \subseteq book /\ UNCHANGED <<plans, engine, torn>>
      BY <1>5 DEF BrokerCloses, WriteEvent, WriteFails, vars
    <2> QED BY <2>1 DEF PlanKeptUnlessMisread, engine, torn
  <1> QED BY <1>1, <1>2, <1>3, <1>4, <1>5 DEF Next, Manage, Entry

\* A plan that is still stored has not been booked yet, unless its deletion
\* failed; a position that is booked now was missing from positions_get.
LEMMA NextBooked ==
    IInv /\ [Next]_vars => BookedAtMostOnce' /\ NeverBookedWhileOpen'
  <1> SUFFICES ASSUME IInv, [Next]_vars
               PROVE  BookedAtMostOnce' /\ NeverBookedWhileOpen'
    OBVIOUS
  <1> USE DEF IInv, Finalising
  <1>1. CASE BookPnl
    <2>1. /\ pc = "book" /\ cur \in plans /\ (cur \in book => cur \in misread)
          /\ cur \in Tickets
          /\ UNCHANGED <<book, misread, rebook>>
          /\ booked' = [booked EXCEPT ![cur] = IF pnlKnown THEN @ + 1 ELSE @]
      BY <1>1, TicketTypes DEF BookPnl, CurInWork
    <2>2. \A t \in Tickets : t # cur => booked'[t] = booked[t]
      BY <2>1 DEF TypeOK
    <2>3. booked[cur] \in Nat /\ booked'[cur] \in {booked[cur], booked[cur] + 1}
      BY <2>1 DEF TypeOK
    <2>4. booked[cur] > 0 => cur \in rebook
      BY <2>1 DEF BookedIsGone
    <2>5. booked'[cur] > 1 => cur \in rebook'
      BY <2>1, <2>3, <2>4
    <2>6. BookedAtMostOnce'
      BY <2>1, <2>2, <2>5 DEF BookedAtMostOnce
    <2>7. NeverBookedWhileOpen'
      BY <2>1, <2>2, TicketTypes DEF NeverBookedWhileOpen
    <2> QED BY <2>6, <2>7
  <1>2. CASE Send \/ SendReplyLost
    <2>1. /\ book' = book \cup {tickets + 1} /\ tickets < MaxTickets
          /\ UNCHANGED <<booked, rebook, misread>>
      BY <1>2 DEF Send, SendReplyLost, torn
    <2>2. tickets + 1 \in Tickets /\ ~(tickets + 1 <= tickets)
      BY <2>1, TicketTypes DEF Tickets
    <2>3. ~(booked[tickets + 1] > 0)
      BY <2>2 DEF BookedIsGone
    <2> QED BY <2>1, <2>3 DEF BookedAtMostOnce, NeverBookedWhileOpen
  <1>3. CASE \/ LoadPlans \/ ReadPositions \/ ManageLive \/ MeetClosed \/ EndLoop
             \/ AskDealHistory \/ PublishClose \/ DeletePlan \/ AbortFinalise
             \/ DeletePlanFails \/ NoEntry \/ StorePlan \/ PublishTrade
             \/ EntryFails \/ Crash \/ Restart
    <2>1. /\ book' \subseteq book /\ misread \subseteq misread'
          /\ rebook \subseteq rebook' /\ booked' = booked
      BY <1>3 DEF LoadPlans, ReadPositions, ManageLive, MeetClosed, EndLoop,
                  AskDealHistory, PublishClose, DeletePlan, AbortFinalise,
                  DeletePlanFails, NoEntry, StorePlan, PublishTrade,
                  EntryFails, Crash, Restart, torn
    <2> QED BY <2>1 DEF BookedAtMostOnce, NeverBookedWhileOpen
  <1>4. CASE BrokerCloses \/ WriteEvent \/ WriteFails \/ UNCHANGED vars
    <2>1. book' \subseteq book /\ UNCHANGED <<booked, torn>>
      BY <1>4 DEF BrokerCloses, WriteEvent, WriteFails, vars
    <2> QED BY <2>1 DEF BookedAtMostOnce, NeverBookedWhileOpen, torn
  <1> QED BY <1>1, <1>2, <1>3, <1>4 DEF Next, Manage, Entry

LEMMA NextSettled == IInv /\ [Next]_vars => Settled'
  <1> SUFFICES ASSUME IInv, [Next]_vars PROVE Settled'
    OBVIOUS
  <1> USE DEF IInv, Finalising
  <1>1. CASE BookPnl
    <2>1. /\ pc = "book" /\ pc' = "delete" /\ cur \in Tickets
          /\ UNCHANGED <<tickets, plans, orphaned, cur>>
          /\ booked' = [booked EXCEPT ![cur] = IF pnlKnown THEN @ + 1 ELSE @]
          /\ unbooked' = IF pnlKnown THEN unbooked ELSE unbooked \cup {cur}
      BY <1>1, TicketTypes DEF BookPnl, CurInWork
    <2>2. cur \in unbooked' \/ booked'[cur] > 0
      <3>1. pnlKnown => booked'[cur] = booked[cur] + 1
        BY <2>1 DEF TypeOK
      <3>2. booked[cur] \in Nat
        BY <2>1 DEF TypeOK
      <3> QED BY <2>1, <3>1, <3>2
    <2>3. \A t \in Tickets : t # cur => booked'[t] = booked[t]
      BY <2>1 DEF TypeOK
    <2> QED BY <2>1, <2>2, <2>3, TicketTypes DEF Settled
  <1>2. CASE DeletePlan
    <2>1. /\ pc = "delete" /\ pc' # "delete" /\ plans' = plans \ {cur}
          /\ UNCHANGED <<tickets, booked, orphaned, unbooked>>
      BY <1>2 DEF DeletePlan, torn
    <2> QED BY <2>1 DEF Settled
  <1>3. CASE Send \/ SendReplyLost
    <2>1. /\ tickets' = tickets + 1 /\ pc # "store" /\ pc' # "delete"
          /\ orphaned \subseteq orphaned'
          /\ \/ pc' = "store" /\ cur' = tickets + 1
             \/ tickets + 1 \in orphaned'
          /\ UNCHANGED <<booked, plans, unbooked>>
      BY <1>3 DEF Send, SendReplyLost, torn
    <2>2. \A t \in 1..(tickets + 1) : t \in 1..tickets \/ t = tickets + 1
      BY TicketTypes
    <2> QED BY <2>1, <2>2 DEF Settled
  <1>4. CASE StorePlan \/ EntryFails \/ Crash
    <2>1. /\ plans \cup orphaned \subseteq plans' \cup orphaned'
          /\ pc = "store" => cur \in plans' \cup orphaned'
          /\ pc' # "delete" /\ UNCHANGED <<tickets, booked, unbooked>>
      BY <1>4 DEF StorePlan, EntryFails, Crash, torn
    <2> QED BY <2>1 DEF Settled
  <1>5. CASE AbortFinalise
    <2>1. /\ pc # "store" /\ unbooked' = unbooked \cup {cur} /\ cur' = cur
          /\ UNCHANGED <<tickets, booked, plans, orphaned>>
      BY <1>5 DEF AbortFinalise
    <2> QED BY <2>1 DEF Settled
  <1>6. CASE \/ LoadPlans \/ ReadPositions \/ ManageLive \/ MeetClosed \/ EndLoop
             \/ AskDealHistory \/ PublishClose \/ DeletePlanFails
             \/ NoEntry \/ PublishTrade \/ Restart
    <2>1. /\ pc # "store" /\ pc' # "delete"
          /\ UNCHANGED <<tickets, booked, plans, orphaned, unbooked>>
      BY <1>6 DEF LoadPlans, ReadPositions, ManageLive, MeetClosed, EndLoop,
                  AskDealHistory, PublishClose, DeletePlanFails, NoEntry,
                  PublishTrade, Restart, torn
    <2> QED BY <2>1 DEF Settled
  <1>7. CASE BrokerCloses \/ WriteEvent \/ WriteFails \/ UNCHANGED vars
    <2>1. UNCHANGED <<tickets, plans, booked, engine, torn>>
      BY <1>7 DEF BrokerCloses, WriteEvent, WriteFails, vars
    <2> QED BY <2>1 DEF Settled, engine, torn
  <1> QED BY <1>1, <1>2, <1>3, <1>4, <1>5, <1>6, <1>7 DEF Next, Manage, Entry

LEMMA NextIInv == IInv /\ [Next]_vars => IInv'
  <1> SUFFICES ASSUME IInv, [Next]_vars PROVE IInv'
    OBVIOUS
  <1>1. TypeOK'
    BY NextTypeOK DEF IInv
  <1>2. CurInWork' /\ SnapIsRight' /\ BookedIsGone' /\ Settled'
    BY NextCurInWork, NextSnapIsRight, NextBookedIsGone, NextSettled
  <1>3. PlanKeptUnlessMisread' /\ BookedAtMostOnce' /\ NeverBookedWhileOpen'
    BY NextPlanKept, NextBooked
  <1> QED BY <1>1, <1>2, <1>3 DEF IInv

LEMMA Invariant == Spec => []IInv
  BY InitIInv, NextIInv, PTL DEF Spec

-----------------------------------------------------------------------------
(* The journal.                                                            *)

\* Of the events before the i-th and the rows, something tells the writer of
\* the trade, or the trade event was never published or was lost.
Known(t, i) ==
    \/ t \in untraded \cup lost
    \/ row[t] # "none"
    \/ \E j \in 1..(i - 1) : events[j] = [kind |-> "trade", ticket |-> t]

\* A stored plan's trade event is out, but for the entry in work, so that a
\* close event can only be published behind it.
PlanIsTraded ==
    \A t \in plans : Known(t, Len(events) + 1) \/ (pc = "trade" /\ cur = t)

CloseFollowsTrade ==
    \A i \in 1..Len(events) :
        events[i].kind = "close" => Known(events[i].ticket, i)

JournalInv == PlanIsTraded /\ CloseFollowsTrade /\ ClosesFindTheirTrade

LEMMA InitJournal == Init => JournalInv
  <1> SUFFICES ASSUME Init PROVE JournalInv
    OBVIOUS
  <1>1. plans = {} /\ unmatched = {} /\ Len(events) = 0
    BY DEF Init
  <1> QED BY <1>1 DEF JournalInv, PlanIsTraded, CloseFollowsTrade,
                      ClosesFindTheirTrade

\* A step that leaves the journal alone.
LEMMA JournalUntouched ==
    ASSUME TypeOK, JournalInv, untraded \subseteq untraded',
           UNCHANGED journal,
           \A t \in plans' : \/ t \in untraded'
                             \/ pc' = "trade" /\ cur' = t
                             \/ t \in plans /\ ~(pc = "trade" /\ cur = t)
    PROVE  JournalInv'
  <1>1. ASSUME NEW t, NEW i, Known(t, i) PROVE Known(t, i)'
    BY <1>1 DEF Known, journal
  <1>2. CloseFollowsTrade'
    BY <1>1 DEF CloseFollowsTrade, JournalInv, journal
  <1>3. ClosesFindTheirTrade'
    BY DEF ClosesFindTheirTrade, JournalInv, journal
  <1>4. ASSUME NEW t \in plans', t \in untraded'
        PROVE  Known(t, Len(events) + 1)'
    BY <1>4 DEF Known
  <1>5. PlanIsTraded'
    BY <1>1, <1>4 DEF PlanIsTraded, JournalInv, journal
  <1> QED BY <1>2, <1>3, <1>5 DEF JournalInv

\* An event is appended: a trade, or the close of a stored plan.
LEMMA JournalAppended ==
    ASSUME TypeOK, JournalInv, NEW e \in Event,
           events' = Append(events, e),
           UNCHANGED <<plans, untraded, row, lost, unmatched>>,
           pc' # "trade",
           \A t \in plans : pc = "trade" /\ cur = t =>
                                e = [kind |-> "trade", ticket |-> t],
           e.kind = "close" => e.ticket \in plans /\ pc # "trade"
    PROVE  JournalInv'
  <1>1. /\ events \in Seq(Event) /\ Len(events) \in Nat
        /\ Len(events') = Len(events) + 1
        /\ events'[Len(events) + 1] = e
        /\ \A i \in 1..Len(events) : events'[i] = events[i]
    BY DEF TypeOK
  <1>2. ASSUME NEW t, NEW i \in 1..(Len(events) + 1), Known(t, i)
        PROVE  Known(t, i)'
    <2>1. \A j \in 1..(i - 1) : events'[j] = events[j]
      BY <1>1
    <2> QED BY <1>2, <2>1 DEF Known
  <1>3. PlanIsTraded'
    <2> SUFFICES ASSUME NEW t \in plans PROVE Known(t, Len(events) + 1)'
      BY DEF PlanIsTraded
    <2>1. CASE Known(t, Len(events) + 1)
      <3>1. \A j \in 1..Len(events) : j \in 1..(Len(events') + 1 - 1)
        BY <1>1
      <3>2. Len(events) + 1 - 1 = Len(events)
        BY <1>1
      <3> QED BY <1>1, <2>1, <3>1, <3>2 DEF Known
    <2>2. CASE pc = "trade" /\ cur = t
      <3>1. Len(events) + 1 \in 1..(Len(events') + 1 - 1)
        BY <1>1
      <3> QED BY <1>1, <2>2, <3>1 DEF Known
    <2> QED BY <2>1, <2>2 DEF JournalInv, PlanIsTraded
  <1>4. CloseFollowsTrade'
    <2> SUFFICES ASSUME NEW i \in 1..Len(events'), events'[i].kind = "close"
                 PROVE  Known(events[i].ticket, i)'
      BY DEF CloseFollowsTrade
    <2>1. CASE i \in 1..Len(events)
      BY <1>1, <1>2, <2>1 DEF JournalInv, CloseFollowsTrade
    <2>2. CASE i = Len(events) + 1
      <3>1. Known(e.ticket, i)
        BY <1>1, <2>2 DEF JournalInv, PlanIsTraded
      <3> QED BY <1>1, <1>2, <2>2, <3>1
    <2> QED BY <1>1, <2>1, <2>2
  <1> QED BY <1>3, <1>4 DEF JournalInv, ClosesFindTheirTrade

\* The oldest event leaves the stream: it was a trade and its row is there,
\* or it was lost, or it was a close whose trade came before it.
LEMMA JournalRead ==
    ASSUME TypeOK, JournalInv, events # <<>>, events' = Tail(events),
           UNCHANGED <<plans, untraded, pc, cur>>,
           lost \subseteq lost',
           \A t \in Tickets : row[t] # "none" => row'[t] # "none",
           \/ Head(events).ticket \in lost'
           \/ Head(events).kind = "trade" =>
                row'[Head(events).ticket] # "none",
           unmatched' \subseteq unmatched \cup
              {t \in {Head(events).ticket} : Head(events).kind = "close"
                                             /\ row[t] = "none"}
    PROVE  JournalInv'
  <1>1. /\ events \in Seq(Event) /\ Len(events) \in Nat \ {0}
        /\ Len(events') = Len(events) - 1
        /\ \A i \in 1..(Len(events) - 1) : events'[i] = events[i + 1]
        /\ Head(events) = events[1] /\ events[1] \in Event
        /\ plans \subseteq Tickets
    BY TicketTypes DEF TypeOK
  <1>2. ASSUME NEW t \in Tickets, NEW i \in 1..(Len(events) + 1), i > 1,
               Known(t, i)
        PROVE  Known(t, i - 1)'
    <2>1. CASE t \in untraded \cup lost \/ row[t] # "none"
      BY <2>1 DEF Known
    <2>2. ASSUME NEW j \in 1..(i - 1),
                 events[j] = [kind |-> "trade", ticket |-> t]
          PROVE  Known(t, i - 1)'
      <3>1. CASE j = 1
        BY <1>1, <2>2, <3>1 DEF Known
      <3>2. CASE j > 1
        <4>1. j - 1 \in 1..(i - 1 - 1) /\ events'[j - 1] = events[j]
          BY <1>1, <3>2
        <4> QED BY <2>2, <4>1 DEF Known
      <3> QED BY <3>1, <3>2
    <2> QED BY <1>2, <2>1, <2>2 DEF Known
  <1>3. PlanIsTraded'
    <2>1. Len(events) + 1 > 1 /\ Len(events) + 1 - 1 = Len(events') + 1
          /\ Len(events) + 1 \in 1..(Len(events) + 1)
      BY <1>1
    <2> QED BY <1>1, <1>2, <2>1 DEF PlanIsTraded, JournalInv
  <1>4. CloseFollowsTrade'
    <2> SUFFICES ASSUME NEW i \in 1..Len(events'), events'[i].kind = "close"
                 PROVE  Known(events[i].ticket, i)'
      BY DEF CloseFollowsTrade
    <2>1. /\ i + 1 \in 1..Len(events) /\ i + 1 > 1 /\ i + 1 - 1 = i
          /\ i + 1 \in 1..(Len(events) + 1)
          /\ events'[i] = events[i + 1]
      BY <1>1
    <2>2. events[i + 1].ticket \in Tickets
      <3>1. events[i + 1] \in Event
        BY <1>1, <2>1
      <3> QED BY <3>1 DEF Event
    <2>3. Known(events[i + 1].ticket, i + 1)
      BY <2>1 DEF JournalInv, CloseFollowsTrade
    <2> QED BY <1>2, <2>1, <2>2, <2>3
  <1>5. ClosesFindTheirTrade'
    <2>1. ASSUME events[1].kind = "close", row[events[1].ticket] = "none"
          PROVE  events[1].ticket \in untraded \cup lost
      <3>1. Known(events[1].ticket, 1)
        BY <1>1, <2>1 DEF JournalInv, CloseFollowsTrade
      <3>2. 1..(1 - 1) = {}
        OBVIOUS
      <3> QED BY <2>1, <3>1, <3>2 DEF Known
    <2> QED BY <1>1, <2>1 DEF ClosesFindTheirTrade, JournalInv
  <1> QED BY <1>3, <1>4, <1>5 DEF JournalInv

LEMMA NextJournal == IInv /\ JournalInv /\ [Next]_vars => JournalInv'
  <1> SUFFICES ASSUME IInv, JournalInv, [Next]_vars PROVE JournalInv'
    OBVIOUS
  <1> USE DEF IInv
  <1>1. CASE \/ LoadPlans \/ ReadPositions \/ ManageLive \/ MeetClosed \/ EndLoop
             \/ AskDealHistory \/ BookPnl \/ DeletePlan \/ AbortFinalise
             \/ DeletePlanFails \/ NoEntry \/ Send \/ SendReplyLost \/ Restart
    <2>1. /\ plans' \subseteq plans /\ pc # "trade"
          /\ UNCHANGED <<untraded, journal>>
      BY <1>1 DEF LoadPlans, ReadPositions, ManageLive, MeetClosed, EndLoop,
                  AskDealHistory, BookPnl, DeletePlan, AbortFinalise,
                  DeletePlanFails, NoEntry, Send, SendReplyLost, Restart, torn
    <2> QED BY <2>1, JournalUntouched
  <1>2. CASE StorePlan
    <2>1. /\ pc = "store" /\ pc' = "trade" /\ cur' = cur
          /\ plans' = plans \cup {cur} /\ UNCHANGED <<untraded, journal>>
      BY <1>2 DEF StorePlan, torn
    <2> QED BY <2>1, JournalUntouched
  <1>8. CASE EntryFails \/ Crash
    <2>1. /\ plans' = plans /\ UNCHANGED journal
          /\ untraded \subseteq untraded'
          /\ pc = "trade" => cur \in untraded'
      BY <1>8 DEF EntryFails, Crash
    <2>2. \A t \in plans' : \/ t \in untraded'
                            \/ t \in plans /\ ~(pc = "trade" /\ cur = t)
      BY <2>1
    <2> QED BY <2>1, <2>2, JournalUntouched
  <1>3. CASE PublishClose
    <2>1. /\ cur \in plans /\ cur \in Tickets
      BY <1>3, TicketTypes DEF PublishClose, CurInWork, Finalising
    <2>2. [kind |-> "close", ticket |-> cur] \in Event
      BY <2>1 DEF Event
    <2> QED BY <1>3, <2>1, <2>2, JournalAppended DEF PublishClose, torn
  <1>4. CASE PublishTrade
    <2>1. cur \in Tickets
      BY <1>4, TicketTypes DEF PublishTrade, CurInWork
    <2>2. [kind |-> "trade", ticket |-> cur] \in Event
      BY <2>1 DEF Event
    <2> QED BY <1>4, <2>1, <2>2, JournalAppended DEF PublishTrade, torn
  <1>5. CASE WriteEvent
    <2>1. /\ Head(events) \in Event /\ Head(events).ticket \in Tickets
          /\ row \in [Tickets -> {"none", "open", "closed"}]
      <3>1. Head(events) \in Event
        BY <1>5 DEF WriteEvent, TypeOK
      <3> QED BY <3>1 DEF Event, TypeOK
    <2>2. /\ \A t \in Tickets : row[t] # "none" => row'[t] # "none"
          /\ Head(events).kind = "trade" =>
                row'[Head(events).ticket] # "none"
      BY <1>5, <2>1 DEF WriteEvent, Written
    <2> QED BY <1>5, <2>2, JournalRead DEF WriteEvent, engine, torn
  <1>6. CASE WriteFails
    BY <1>6, JournalRead DEF WriteFails, engine, torn
  <1>7. CASE BrokerCloses \/ UNCHANGED vars
    BY <1>7, JournalUntouched DEF BrokerCloses, vars, engine, torn, journal,
                                  JournalInv, PlanIsTraded, Known
  <1> QED BY <1>1, <1>2, <1>3, <1>4, <1>5, <1>6, <1>7, <1>8
          DEF Next, Manage, Entry

-----------------------------------------------------------------------------
(* Theorems.                                                               *)

\* The life cycle of execution_engine.py's positions is well typed.
THEOREM EngineTypeOK == Spec => []TypeOK
  BY Invariant, PTL DEF IInv

\* No interleaving of bars, entries, broker closes, failed calls and restarts
\* costs an open position its plan, except an entry that broke before
\* _store_managed and an empty positions_get.
THEOREM EnginePlanKept == Spec => []PlanKeptUnlessMisread
  BY Invariant, PTL DEF IInv

\* _journal_close books a result twice only after the plan could not be
\* deleted.
THEOREM EngineBookedAtMostOnce == Spec => []BookedAtMostOnce
  BY Invariant, PTL DEF IInv

\* _journal_close books nothing for a position that is open, unless
\* positions_get came back empty.
THEOREM EngineNeverBookedWhileOpen == Spec => []NeverBookedWhileOpen
  BY Invariant, PTL DEF IInv

\* No interleaving forgets a result: a position that is gone from the broker
\* and from Redis was booked, unless its entry broke or its result was not to
\* be had.
THEOREM EngineEveryCloseBooked == Spec => []EveryCloseBooked
  <1>1. IInv => EveryCloseBooked
    BY DEF IInv, Settled, EveryCloseBooked
  <1> QED BY <1>1, Invariant, PTL

\* The stream between engine and journal writer keeps every close behind its
\* trade: the writer drops a close only if the trade event was never
\* published or the writer failed on it.
THEOREM EngineClosesFindTheirTrade == Spec => []ClosesFindTheirTrade
  <1>1. JournalInv => ClosesFindTheirTrade
    BY DEF JournalInv
  <1> QED BY <1>1, InitJournal, NextJournal, Invariant, PTL DEF Spec

=============================================================================
