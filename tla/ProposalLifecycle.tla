--------------------------- MODULE ProposalLifecycle ---------------------------
(***************************************************************************)
(* What the journal promises of a fitting proposal. It is written once as  *)
(* proposed; every later write carries some version the proposal had, with *)
(* a test result or a decision put on it, and brings a status that follows *)
(* a status the proposal had. Where the store checks and writes in one     *)
(* step that is the present status, and a decision is final. Where it      *)
(* takes two steps it may be an earlier one, and a decision may be undone  *)
(* by a write that was checked before it.                                  *)
(***************************************************************************)
CONSTANTS Proposals, Absent, Operators, Results

VARIABLES
    row,     \* the stored version of each proposal
    past,    \* the versions it has had, none before it is proposed
    atomic   \* whether the store checks and writes in one step
lifecycleVars == <<row, past, atomic>>

Statuses == {"proposed", "backtested", "approved", "rejected"}
Final == {"approved", "rejected"}

Follows(old, new) ==
    \/ new = old
    \/ old \in {"proposed", "backtested"} /\ new \in Final
    \/ old = "proposed" /\ new = "backtested"

Fresh(v) ==
    /\ {"status", "result", "by"} \subseteq DOMAIN v
    /\ v.status = "proposed" /\ v.result = Absent /\ v.by = Absent

Written(p) == past[p] # {}

Init ==
    /\ atomic \in BOOLEAN
    /\ row = [p \in Proposals |-> row[p]] /\ past = [p \in Proposals |-> past[p]]
    /\ \A p \in Proposals : Written(p) => Fresh(row[p]) /\ past[p] = {row[p]}

Write(p, v) ==
    /\ row' = [row EXCEPT ![p] = v]
    /\ past' = [past EXCEPT ![p] = @ \cup {v}]
    /\ UNCHANGED atomic

Propose(p) ==
    /\ ~ Written(p)
    /\ row'[p] # Absent /\ Fresh(row'[p])
    /\ Write(p, row'[p])

WithResult(v, result) == [v EXCEPT !.status = "backtested", !.result = result]
WithDecision(v, status, operator) == [v EXCEPT !.status = status, !.by = operator]

Versions(v) ==
    {WithResult(v, result) : result \in Results}
        \cup {WithDecision(v, status, operator) : status \in Final, operator \in Operators}

Checked(p) == IF atomic THEN {row[p]} ELSE past[p]

Revise(p) ==
    /\ Written(p)
    /\ \E old \in past[p] : \E v \in Versions(old) :
        /\ \E seen \in Checked(p) : Follows(seen.status, v.status)
        /\ Write(p, v)

Next == \E p \in Proposals : Propose(p) \/ Revise(p)

Spec == Init /\ [][Next]_lifecycleVars

-----------------------------------------------------------------------------
(* A decision is final where the store checks and writes in one step: the   *)
(* terminal statuses of JournalStore.update_fitting_proposal.               *)
DecisionIsFinal ==
    [][\A p \in Proposals :
        atomic /\ Written(p) /\ row[p].status \in Final
            => row'[p].status = row[p].status]_lifecycleVars

(* Whatever the store, no version of a proposal is forgotten, and one that  *)
(* was tested or decided is never again merely proposed: no writer of       *)
(* FittingProposalEngine brings that status back.                           *)
NeverReopened ==
    [][\A p \in Proposals : Written(p) =>
            /\ past[p] \subseteq past'[p]
            /\ row[p].status # "proposed" => row'[p].status # "proposed"]_lifecycleVars
=============================================================================
