------------------------------ MODULE OnceInOrder ------------------------------
(***************************************************************************)
(* What a service may rely on when it hands its handler to a consumer: the *)
(* handler runs for one entry at a time, in the order of publication, at   *)
(* most once for each, and ends by returning, by raising or with its       *)
(* process. Nothing says that every entry comes.                           *)
(***************************************************************************)
EXTENDS Naturals

VARIABLES
    last,     \* number of entries published
    given,    \* entries handed to the handler
    running,  \* the entry it works on, 0 for none
    done,     \* entries whose handler returned
    raised    \* entries whose handler raised
onceVars == <<last, given, running, done, raised>>

Init == last = 0 /\ given = {} /\ running = 0 /\ done = {} /\ raised = {}

Publish ==
    /\ last' = last + 1
    /\ UNCHANGED <<given, running, done, raised>>

Give ==
    /\ running = 0
    /\ \E i \in 1 .. last :
        /\ \A j \in given : j < i
        /\ given' = given \cup {i} /\ running' = i
    /\ UNCHANGED <<last, done, raised>>

Return ==
    /\ running # 0
    /\ done' = done \cup {running} /\ running' = 0
    /\ UNCHANGED <<last, given, raised>>

Raise ==
    /\ running # 0
    /\ raised' = raised \cup {running} /\ running' = 0
    /\ UNCHANGED <<last, given, done>>

Die ==
    /\ running # 0
    /\ running' = 0
    /\ UNCHANGED <<last, given, done, raised>>

Next == Publish \/ Give \/ Return \/ Raise \/ Die

Spec == Init /\ [][Next]_onceVars
=============================================================================
