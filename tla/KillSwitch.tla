----------------------------- MODULE KillSwitch -----------------------------
(***************************************************************************)
(* The operator's kill switch: the flag in Redis, the EmergencyStopManager *)
(* the execution engine mirrors it onto every 3 seconds, and the handler   *)
(* that may be half way through an entry. Handler and sync share one event *)
(* loop; manual_trigger and clear run in a worker thread beside it, so     *)
(* their assignments interleave with the handler's approve and order_send. *)
(***************************************************************************)
EXTENDS Naturals

CONSTANTS MaxOrders,    \* bound: orders ever sent
          MaxCommands,  \* bound: operator commands
          MaxCrashes    \* bound: process deaths

ASSUME KillAssumption ==
    MaxOrders \in Nat /\ MaxCommands \in Nat /\ MaxCrashes \in Nat

VARIABLES
    engaged,  \* runtime:emergency_stop
    active,   \* EmergencyStopManager._state.active
    until,    \* _state.paused_until: "none", "future" or "past"
    sync,     \* _sync_emergency and its worker thread
    seenFlag, \* the flag as _sync_emergency read it
    stage,    \* the handler
    orders,   \* orders sent so far
    open,     \* positions open at the broker
    doomed,   \* positions the last _flatten_all was asked to close
    up,       \* is the process alive?
    commands, \* operator commands so far
    crashes,  \* process deaths so far
    late      \* history: orders sent since the flag was last engaged

killVars == <<engaged, active, until, sync, seenFlag, stage, orders, open, doomed, up,
          commands, crashes, late>>

\* sync: "sleep", "decide" (flag read), then in the thread either "arm",
\* "date", "flatten" (manual_trigger) or "clear", "undate" (clear).
SyncStates == {"sleep", "decide", "arm", "date", "flatten", "clear", "undate"}

\* stage: "gate" (asks Redis for the flag), "gated" (has the answer "off"), then
\* without giving up the loop "approve", "check" (in is_active), "send" and
\* "pause" (in activate_external_pause).
EntryStages ==
    {"idle", "gate", "gated", "approve", "check", "send", "pause"}

KillTypeOK ==
    /\ engaged \in BOOLEAN
    /\ active \in BOOLEAN
    /\ until \in {"none", "future", "past"}
    /\ sync \in SyncStates
    /\ seenFlag \in BOOLEAN
    /\ stage \in EntryStages
    /\ orders \in 0..MaxOrders
    /\ open \subseteq 1..orders
    /\ doomed \subseteq 1..orders
    /\ up \in BOOLEAN
    /\ commands \in 0..MaxCommands
    /\ crashes \in 0..MaxCrashes
    /\ late \in 0..orders

KillInit ==
    /\ engaged = FALSE
    /\ active = FALSE
    /\ until = "none"
    /\ sync = "sleep"
    /\ seenFlag = FALSE
    /\ stage = "idle"
    /\ orders = 0
    /\ open = {}
    /\ doomed = {}
    /\ up = TRUE
    /\ commands = 0
    /\ crashes = 0
    /\ late = 0

-----------------------------------------------------------------------------
(* The operator and the clock.                                             *)

Engage ==
    /\ commands < MaxCommands
    /\ ~engaged
    /\ engaged' = TRUE
    /\ late' = 0
    /\ commands' = commands + 1
    /\ UNCHANGED <<active, until, sync, seenFlag, stage, orders, open, doomed,
                   up, crashes>>

Release ==
    /\ commands < MaxCommands
    /\ engaged
    /\ engaged' = FALSE
    /\ commands' = commands + 1
    /\ UNCHANGED <<active, until, sync, seenFlag, stage, orders, open, doomed,
                   up, crashes, late>>

\* The pause (1 hour, or to the end of a day or week) runs out.
Elapse ==
    /\ until = "future"
    /\ until' = "past"
    /\ UNCHANGED <<engaged, active, sync, seenFlag, stage, orders, open, doomed, up,
                   commands, crashes, late>>

-----------------------------------------------------------------------------
(* The handler: one decision at a time.                                    *)

LoopHeld == stage \in {"approve", "check", "send", "pause"}

\* A qualified decision is at the kill-switch gate.
StartEntry ==
    /\ up
    /\ stage = "idle"
    /\ orders < MaxOrders
    /\ stage' = "gate"
    /\ UNCHANGED <<engaged, active, until, sync, seenFlag, orders, open, doomed,
                   up, commands, crashes, late>>

\* Mutant: the gate is left to the RiskManager.
GateOpen ==
    /\ stage = "gate"
    /\ stage' = "gated"
    /\ UNCHANGED <<engaged, active, until, sync, seenFlag, orders, open, doomed,
                   up, commands, crashes, late>>

\* get_emergency_stop; an error raises out of the handler.
Gate ==
    /\ stage = "gate"
    /\ \/ stage' = "idle"
       \/ ~engaged /\ stage' = "gated"
    /\ UNCHANGED <<engaged, active, until, sync, seenFlag, orders, open, doomed,
                   up, commands, crashes, late>>

\* The loop resumes the handler; pipeline.process begins, unless the decision
\* is too old or its zone is locked.
Resume ==
    /\ stage = "gated"
    /\ stage' \in {"approve", "idle"}
    /\ UNCHANGED <<engaged, active, until, sync, seenFlag, orders, open, doomed,
                   up, commands, crashes, late>>

\* pause_active reads the emergency manager's active field ...
ReadActive ==
    /\ stage = "approve"
    /\ stage' = IF active THEN "check" ELSE "send"
    /\ UNCHANGED <<engaged, active, until, sync, seenFlag, orders, open, doomed,
                   up, commands, crashes, late>>

\* ... and then its paused_until: an elapsed pause is switched off.
ReadUntil ==
    /\ stage = "check"
    /\ stage' = IF until = "past" THEN "send" ELSE "idle"
    /\ active' = (active /\ until # "past")
    /\ UNCHANGED <<engaged, until, sync, seenFlag, orders, open, doomed, up,
                   commands, crashes, late>>

\* A limit vetoes; a loss cap also arms an external pause: active first, ...
Veto ==
    /\ stage = "send"
    /\ \/ stage' = "idle" /\ UNCHANGED active
       \/ stage' = "pause" /\ active' = TRUE
    /\ UNCHANGED <<engaged, until, sync, seenFlag, orders, open, doomed, up,
                   commands, crashes, late>>

\* ... paused_until afterwards.
PauseUntil ==
    /\ stage = "pause"
    /\ stage' = "idle"
    /\ until' = "future"
    /\ UNCHANGED <<engaged, active, sync, seenFlag, orders, open, doomed, up,
                   commands, crashes, late>>

\* connector.order_send fills.
Send ==
    /\ stage = "send"
    /\ stage' = "idle"
    /\ orders' = orders + 1
    /\ open' = open \cup {orders + 1}
    /\ late' = IF engaged THEN late + 1 ELSE late
    /\ UNCHANGED <<engaged, active, until, sync, seenFlag, doomed, up, commands,
                   crashes>>

-----------------------------------------------------------------------------
(* _sync_emergency.                                                        *)

\* await get_emergency_stop
ReadFlag ==
    /\ up
    /\ sync = "sleep"
    /\ seenFlag' = engaged
    /\ sync' = "decide"
    /\ UNCHANGED <<engaged, active, until, stage, orders, open, doomed, up, commands,
                   crashes, late>>

IsActive == active /\ until # "past"

\* Mutant: a manager that was triggered once is not triggered again.
DecideOnce ==
    /\ sync = "decide"
    /\ ~LoopHeld
    /\ active' = IsActive
    /\ sync' = IF seenFlag /\ until = "none" THEN "arm"
               ELSE IF ~seenFlag /\ IsActive THEN "clear"
               ELSE "sleep"
    /\ UNCHANGED <<engaged, until, seenFlag, stage, orders, open, doomed, up,
                   commands, crashes, late>>

\* Compare with is_active() and hand the work to a thread.
Decide ==
    /\ sync = "decide"
    /\ ~LoopHeld
    /\ active' = IsActive
    /\ sync' = IF seenFlag /\ ~IsActive THEN "arm"
               ELSE IF ~seenFlag /\ IsActive THEN "clear"
               ELSE "sleep"
    /\ UNCHANGED <<engaged, until, seenFlag, stage, orders, open, doomed, up,
                   commands, crashes, late>>

\* manual_trigger: active first, ...
Arm ==
    /\ sync = "arm"
    /\ active' = TRUE
    /\ sync' = "date"
    /\ UNCHANGED <<engaged, until, seenFlag, stage, orders, open, doomed, up,
                   commands, crashes, late>>

\* ... paused_until afterwards, ...
Date ==
    /\ sync = "date"
    /\ until' = "future"
    /\ sync' = "flatten"
    /\ UNCHANGED <<engaged, active, seenFlag, stage, orders, open, doomed, up,
                   commands, crashes, late>>

\* ... then _flatten_all over positions_get (which may come back short) with
\* ExecutionPipeline._flatten_position, and _cancel_all.
Flatten ==
    /\ sync = "flatten"
    /\ doomed' \in {open, {}}
    /\ sync' = "sleep"
    /\ UNCHANGED <<engaged, active, until, seenFlag, stage, orders, open, up,
                   commands, crashes, late>>

ClearActive ==
    /\ sync = "clear"
    /\ active' = FALSE
    /\ sync' = "undate"
    /\ UNCHANGED <<engaged, until, seenFlag, stage, orders, open, doomed, up,
                   commands, crashes, late>>

ClearUntil ==
    /\ sync = "undate"
    /\ until' = "none"
    /\ sync' = "sleep"
    /\ UNCHANGED <<engaged, active, seenFlag, stage, orders, open, doomed, up,
                   commands, crashes, late>>

-----------------------------------------------------------------------------
(* The broker and the process.                                             *)

\* A stop, a target or the manage loop closes a position.
ClosePosition ==
    /\ \E p \in open : open' = open \ {p}
    /\ UNCHANGED <<engaged, active, until, sync, seenFlag, stage, orders, doomed,
                   up, commands, crashes, late>>

KillCrash ==
    /\ up
    /\ crashes < MaxCrashes
    /\ up' = FALSE
    /\ stage' = "idle"
    /\ sync' = "sleep"
    /\ crashes' = crashes + 1
    /\ UNCHANGED <<engaged, active, until, seenFlag, orders, open, doomed,
                   commands, late>>

\* A new EmergencyStopManager: the pipeline gives it no state file.
Restart ==
    /\ ~up
    /\ up' = TRUE
    /\ active' = FALSE
    /\ until' = "none"
    /\ doomed' = {}
    /\ UNCHANGED <<engaged, sync, seenFlag, stage, orders, open, commands, crashes,
                   late>>

-----------------------------------------------------------------------------
Sync ==
    \/ ReadFlag \/ Decide \/ Arm \/ Date \/ Flatten \/ ClearActive \/ ClearUntil

KillHandler ==
    \/ Gate \/ Resume \/ ReadActive \/ ReadUntil \/ Veto \/ PauseUntil \/ Send

KillNext ==
    \/ Engage \/ Release \/ Elapse
    \/ StartEntry \/ KillHandler
    \/ Sync
    \/ ClosePosition \/ KillCrash \/ Restart

KillSpec == KillInit /\ [][KillNext]_killVars

\* The event loop and the worker thread run, and a dead process is restarted
\* by its container. Operator, decisions, broker and faults owe nothing.
\* Both tasks of the loop stay enabled until they are served.
FairKillSpec ==
    /\ KillSpec
    /\ WF_killVars(KillHandler)
    /\ SF_killVars(Decide)
    /\ WF_killVars(ReadFlag \/ Arm \/ Date \/ Flatten \/ ClearActive \/ ClearUntil)
    /\ WF_killVars(Restart)

-----------------------------------------------------------------------------
(* Properties.                                                             *)

\* While the switch stays engaged at most one order goes out: the one whose
\* handler had read "off" before. No lost trigger, elapsed pause, late clear
\* or restart lets a second one through.
AtMostOneLateOrder == engaged => late <= 1

\* A switch that stays engaged ends up armed, also when a concurrent approve
\* took the manager's old, elapsed date for the new one and switched it off;
\* one that stays released ends up cleared, so trading can resume.
CommandsTakeEffect ==
    /\ engaged ~> (active \/ ~engaged)
    /\ (~engaged) ~> (~active \/ engaged)

=============================================================================
