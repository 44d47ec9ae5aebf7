----------------------------- MODULE MCExecution -----------------------------
(***************************************************************************)
(* Two tasks of the execution engine for TLC: a behaviour is the kill      *)
(* switch in front of the entries, or the management of one position.      *)
(* Three operator commands are the fewest that reach the manager's stale   *)
(* date: engage, release after the pause elapsed, engage again.            *)
(***************************************************************************)
EXTENDS MCPositionManager, KillSwitch

VARIABLE part   \* whose behaviour it is

MCInit ==
    /\ Init /\ KillInit
    /\ \/ part = "switch" /\ side = "BUY"
       \/ part = "position"
MCNext ==
    \/ part = "switch" /\ KillNext /\ UNCHANGED <<part, vars>>
    \/ part = "position" /\ Next /\ UNCHANGED <<part, killVars>>
\* The fairness of FairKillSpec and of FairSpec, each where it is its turn
MCSpec ==
    /\ MCInit /\ [][MCNext]_<<part, vars, killVars>>
    /\ WF_vars(part = "position" /\ Manage)
    /\ WF_killVars(part = "switch" /\ KillHandler)
    /\ SF_killVars(part = "switch" /\ Decide)
    /\ WF_killVars(/\ part = "switch"
                   /\ ReadFlag \/ Arm \/ Date \/ Flatten \/ ClearActive \/ ClearUntil)
    /\ WF_killVars(part = "switch" /\ Restart)
=============================================================================
