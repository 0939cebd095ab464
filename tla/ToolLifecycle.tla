---------------------------- MODULE ToolLifecycle ----------------------------
(***************************************************************************)
(* The life of one managed tool in openframe-client: the supervisor loops  *)
(* of ToolRunManager, the operations that install, update, uninstall and   *)
(* restart the tool, stop_all and restart_all of the deactivation          *)
(* supervisor, the start-up run() and the registry of installed tools.     *)
(*                                                                         *)
(* The tool is a supervised (Standard) one.  Tools share only the          *)
(* shutting_down flag, so one tool shows the whole protocol.  An operation *)
(* is one delivered message; two may overlap, because every kind has a     *)
(* listener of its own and messages parked by the client update gate are   *)
(* dispatched side by side.  A version stands for a binary and everything  *)
(* downloaded with it.                                                     *)
(***************************************************************************)
EXTENDS Integers, FiniteSets

CONSTANTS
    Versions,    \* tool versions, positive numbers
    Kinds,       \* the operations that occur
    Ops,         \* tasks that run operations
    Sups,        \* bound: supervisor tasks alive at a time
    MaxOps,      \* bound: operations started
    MaxCrashes,  \* bound: agent restarts
    MaxFaults,   \* bound: failing kills, downloads, file operations, timeouts
    MaxStops     \* bound: stop_all commands

ASSUME VersionsAssumption == Versions \subseteq Nat \ {0} /\ Versions # {}
ASSUME KindsAssumption ==
    Kinds \subseteq {"install", "reinstall", "update", "uninstall", "restart"}
ASSUME ActorsAssumption ==
    IsFiniteSet(Ops) /\ IsFiniteSet(Sups) /\ "none" \notin Ops
ASSUME LimitsAssumption ==
    MaxOps \in Nat /\ MaxCrashes \in Nat /\ MaxFaults \in Nat /\ MaxStops \in Nat

Missing == 0
NoRecord == [state |-> "absent", version |-> 0]

VARIABLES
    up,            \* the agent runs
    running,       \* the tool is in running_tools
    updating,      \* its counter in updating_tools
    lock,          \* the operation that holds tool_lock, or "none"
    shuttingDown,  \* shutting_down
    record,        \* its entry in installed_tools.json
    binary,        \* the version on disk, or Missing
    sup,           \* the spawned supervisor loops
    procs,         \* supervisors whose child process is alive
    orphan,        \* a process left over from an earlier agent is alive
    op,            \* the operations
    runner,        \* the tasks that execute run(): start-up and deactivation
    started, crashes, faults, stops,   \* how much of each bound is used
    \* history, read by no action:
    promise        \* what the last operation that did its work achieved

manager == <<running, updating, lock, shuttingDown>>
disk == <<record, binary>>
processes == <<sup, procs, orphan>>
limits == <<started, crashes, faults, stops>>
vars == <<up, manager, disk, processes, op, runner, limits, promise>>

IdleOp == [kind |-> "none", pc |-> "idle", version |-> 0, ok |-> TRUE,
           worked |-> FALSE, repair |-> FALSE, backup |-> Missing,
           copy |-> NoRecord]
NoPromise == [known |-> FALSE, version |-> 0]

\* A machine on which the tool is installed and running, or never was.
Init ==
    /\ up = FALSE
    /\ running = FALSE /\ updating = 0 /\ lock = "none"
    /\ shuttingDown = FALSE
    /\ \/ record = NoRecord /\ binary = Missing
       \/ \E v \in Versions :
            record = [state |-> "Installed", version |-> v] /\ binary = v
    /\ sup = [s \in Sups |-> "free"]
    /\ procs = {} /\ orphan = FALSE
    /\ op = [o \in Ops |-> IdleOp]
    /\ runner = [r \in {"boot", "deactivation"} |-> "idle"]
    /\ started = 0 /\ crashes = 0 /\ faults = 0 /\ stops = 0
    /\ promise = NoPromise

-----------------------------------------------------------------------------
(* Shared pieces.                                                          *)

Fault ==
    /\ faults < MaxFaults
    /\ faults' = faults + 1
    /\ UNCHANGED <<started, crashes, stops>>

\* ToolKillService: every matching process is gone.  The code lists them and then
\* awaits their ends one by one; the action stands for the moment of the list.  An
\* earlier death is a ProcessExit, one that comes later only delays a SupReap, and a
\* process spawned meanwhile is on no list and survives in both.
KillAll == procs' = {} /\ orphan' = FALSE

\* A process survived MAX_KILL_RETRIES; those before it are already dead.
KillFails ==
    /\ Fault
    /\ procs' \in SUBSET procs
    /\ orphan' \in {orphan, FALSE}
    /\ procs' # {} \/ orphan'

\* set_state changes an existing record only.
SetState(st) ==
    record' = IF record = NoRecord THEN record ELSE [record EXCEPT !.state = st]

\* run_tool after a successful stop_tool: a new supervisor loop.
Supervise ==
    /\ KillAll
    /\ \E s \in Sups :
         /\ sup[s] = "free"
         /\ sup' = [sup EXCEPT ![s] = "top"]

Goto(o, pc) == op' = [op EXCEPT ![o].pc = pc]
Worked(o, pc) == op' = [op EXCEPT ![o].pc = pc, ![o].worked = TRUE]
Failed(o) == op' = [op EXCEPT ![o].pc = "clear", ![o].ok = FALSE]

-----------------------------------------------------------------------------
(* The supervisor loop spawned by run_tool.                                *)

SupTop(s) ==
    /\ sup[s] = "top"
    /\ sup' = [sup EXCEPT ![s] = IF shuttingDown THEN "free" ELSE "wait"]
    /\ UNCHANGED <<up, manager, disk, procs, orphan, op, runner, limits, promise>>

\* The loop sleeps while an operation is in flight.
SupWait(s) ==
    /\ sup[s] = "wait"
    /\ updating = 0
    /\ sup' = [sup EXCEPT ![s] = "check"]
    /\ UNCHANGED <<up, manager, disk, procs, orphan, op, runner, limits, promise>>

SupCheck(s) ==
    /\ sup[s] = "check"
    /\ sup' = [sup EXCEPT ![s] = IF running THEN "launch" ELSE "free"]
    /\ UNCHANGED <<up, manager, disk, procs, orphan, op, runner, limits, promise>>

\* The run arguments could not be resolved.
SupArgsFail(s) ==
    /\ sup[s] = "launch"
    /\ Fault
    /\ sup' = [sup EXCEPT ![s] = "sleep"]
    /\ UNCHANGED <<up, manager, disk, procs, orphan, op, runner, promise>>

SupLaunch(s) ==
    /\ sup[s] = "launch"
    /\ sup' = [sup EXCEPT ![s] = IF shuttingDown THEN "free" ELSE "spawn"]
    /\ UNCHANGED <<up, manager, disk, procs, orphan, op, runner, limits, promise>>

SupSpawn(s) ==
    /\ sup[s] = "spawn"
    /\ sup' = [sup EXCEPT ![s] = IF binary = Missing THEN "sleep" ELSE "alive"]
    /\ procs' = IF binary = Missing THEN procs ELSE procs \cup {s}
    /\ UNCHANGED <<up, manager, disk, orphan, op, runner, limits, promise>>

\* child.wait() returns once the process is gone.
SupReap(s) ==
    /\ sup[s] = "alive"
    /\ s \notin procs
    /\ sup' = [sup EXCEPT ![s] = "sleep"]
    /\ UNCHANGED <<up, manager, disk, procs, orphan, op, runner, limits, promise>>

SupWake(s) ==
    /\ sup[s] = "sleep"
    /\ sup' = [sup EXCEPT ![s] = "top"]
    /\ UNCHANGED <<up, manager, disk, procs, orphan, op, runner, limits, promise>>

\* The tool's process exits by itself.
ProcessExit ==
    /\ \/ \E s \in procs : procs' = procs \ {s} /\ UNCHANGED orphan
       \/ orphan /\ orphan' = FALSE /\ UNCHANGED procs
    /\ UNCHANGED <<up, manager, disk, sup, op, runner, limits, promise>>

-----------------------------------------------------------------------------
(* Operations: how they begin and end.                                     *)

\* A listener dispatches a message, or mesh self-heal asks for a restart.
Begin(o, kind, v) ==
    /\ up
    /\ kind \in Kinds
    /\ op[o].pc = "idle"
    /\ started < MaxOps
    /\ started' = started + 1
    /\ op' = [op EXCEPT ![o] = [IdleOp EXCEPT
         !.kind = kind, !.version = v,
         !.pc = CASE kind \in {"install", "reinstall"} -> "lock"
                  [] kind \in {"uninstall", "restart"} -> "try_lock"
                  [] kind = "update" -> "read"]]
    /\ UNCHANGED <<up, manager, disk, processes, runner, crashes, faults, stops,
                   promise>>

\* Mutant of Lock: install() does not wait for the lock.
Lock_NoWait(o) ==
    /\ op[o].pc = "lock"
    /\ lock' = o
    /\ Goto(o, "mark")
    /\ UNCHANGED <<up, running, updating, shuttingDown, disk, processes, runner,
                   limits, promise>>

\* install() waits for the lock.
Lock(o) ==
    /\ op[o].pc = "lock"
    /\ lock = "none"
    /\ lock' = o
    /\ Goto(o, "mark")
    /\ UNCHANGED <<up, running, updating, shuttingDown, disk, processes, runner,
                   limits, promise>>

\* uninstall and restart give up at once: the message stays unacknowledged,
\* the restart is Busy.
TryLock(o) ==
    /\ op[o].pc = "try_lock"
    /\ \/ /\ lock = "none"
          /\ lock' = o
          /\ Goto(o, "mark")
       \/ /\ lock # "none"
          /\ op' = [op EXCEPT ![o] = IdleOp]
          /\ UNCHANGED lock
    /\ UNCHANGED <<up, running, updating, shuttingDown, disk, processes, runner,
                   limits, promise>>

MarkUpdating(o) ==
    /\ op[o].pc = "mark"
    /\ updating' = updating + 1
    /\ Goto(o, CASE op[o].kind \in {"install", "reinstall"} -> "inspect"
                 [] op[o].kind = "uninstall" -> "find"
                 [] op[o].kind = "restart" -> "lookup"
                 [] op[o].kind = "update" -> "stop_old")
    /\ UNCHANGED <<up, running, lock, shuttingDown, disk, processes, runner,
                   limits, promise>>

\* clear_updating.  A repaired record is finalised after that.
ClearUpdating(o) ==
    /\ op[o].pc = "clear"
    /\ updating' = updating - 1
    /\ Goto(o, IF op[o].kind = "update" /\ op[o].ok /\ op[o].repair
               THEN "finalize" ELSE "end")
    /\ UNCHANGED <<up, running, lock, shuttingDown, disk, processes, runner,
                   limits, promise>>

\* The lock is released and the message acknowledged if the operation is Ok.
End(o) ==
    /\ op[o].pc = "end"
    /\ lock' = IF lock = o THEN "none" ELSE lock
    /\ promise' = CASE ~op[o].ok -> NoPromise
                    [] op[o].ok /\ op[o].worked ->
                         [known |-> TRUE,
                          version |-> IF op[o].kind = "uninstall" THEN 0
                                      ELSE op[o].version]
                    [] OTHER -> promise
    /\ op' = [op EXCEPT ![o] = IdleOp]
    /\ UNCHANGED <<up, running, updating, shuttingDown, disk, processes, runner,
                   limits>>

-----------------------------------------------------------------------------
(* ToolInstallationService::install_inner.                                 *)

\* The registry decides; one that cannot be read ends the operation.
Inspect(o) ==
    /\ op[o].pc = "inspect"
    /\ \/ /\ record = NoRecord
          /\ Goto(o, "leftovers")
          /\ UNCHANGED <<record, limits>>
       \/ /\ record # NoRecord /\ op[o].kind = "install" /\ binary # Missing
          /\ Goto(o, "clear")
          /\ UNCHANGED <<record, limits>>
       \/ /\ record # NoRecord
          /\ op[o].kind = "reinstall" \/ binary = Missing
          /\ Goto(o, IF op[o].kind = "reinstall" THEN "stop_old" ELSE "leftovers")
          \* A failing set_state is only logged.
          /\ \/ SetState("Installing") /\ UNCHANGED limits
             \/ Fault /\ UNCHANGED record
       \/ Fault /\ Failed(o) /\ UNCHANGED record
    /\ UNCHANGED <<up, manager, binary, processes, runner, promise>>

\* Reinstall: the old process is stopped; a failure is only logged.
StopBeforeReinstall(o) ==
    /\ op[o].pc = "stop_old" /\ op[o].kind = "reinstall"
    /\ \/ KillAll /\ UNCHANGED limits
       \/ KillFails
    /\ Goto(o, "remove_dir")
    /\ UNCHANGED <<up, manager, disk, sup, runner, promise>>

\* Mutant of RemoveDir: the tracking entry is cleared, as the comment in the
\* code warns against.
RemoveDir_ClearsRunning(o) ==
    /\ op[o].pc = "remove_dir" /\ op[o].kind = "reinstall"
    /\ \/ binary' = Missing /\ Goto(o, "leftovers") /\ UNCHANGED limits
       \/ Fault /\ Failed(o) /\ UNCHANGED binary
    /\ running' = FALSE
    /\ UNCHANGED <<up, updating, lock, shuttingDown, record, processes, runner,
                   promise>>

\* Reinstall: the directory goes; the entry in running_tools stays.
RemoveDir(o) ==
    /\ op[o].pc = "remove_dir" /\ op[o].kind = "reinstall"
    /\ \/ binary' = Missing /\ Goto(o, "leftovers") /\ UNCHANGED limits
       \/ Fault /\ Failed(o) /\ UNCHANGED binary
    /\ UNCHANGED <<up, manager, record, processes, runner, promise>>

\* Leftover processes are stopped before the download.
StopLeftovers(o) ==
    /\ op[o].pc = "leftovers"
    /\ \/ KillAll /\ UNCHANGED limits
       \/ KillFails
    /\ Goto(o, "download")
    /\ UNCHANGED <<up, manager, disk, sup, runner, promise>>

\* Download, assets; a reinstall without a record wipes the directory first.  An
\* asset may fail after the binary was written.
Download(o) ==
    /\ op[o].pc = "download"
    /\ \/ binary' = op[o].version /\ Goto(o, "command") /\ UNCHANGED limits
       \/ /\ Fault
          /\ Failed(o)
          /\ \/ UNCHANGED binary
             \/ op[o].kind = "reinstall" /\ binary' = Missing
             \/ binary' = op[o].version
    /\ UNCHANGED <<up, manager, record, processes, runner, promise>>

\* The installation command, if there is one, runs after another attempt to
\* stop the tool; then the record is saved.
InstallCommand(o) ==
    /\ op[o].pc = "command"
    /\ KillAll \/ UNCHANGED <<procs, orphan>>
    /\ \/ /\ record' = [state |-> "Installed", version |-> op[o].version]
          /\ Worked(o, "run")
          /\ UNCHANGED limits
       \/ Fault /\ Failed(o) /\ UNCHANGED record
    /\ UNCHANGED <<up, manager, binary, sup, runner, promise>>

\* run_new_tool: try_mark_running.
RunNewTool(o) ==
    /\ op[o].pc = "run"
    /\ running' = TRUE
    /\ Goto(o, IF running THEN "clear" ELSE "spawn")
    /\ UNCHANGED <<up, updating, lock, shuttingDown, disk, processes, runner,
                   limits, promise>>

\* run_tool: stop_tool, then the supervisor; an error leaves the tool marked.
RunTool(o) ==
    /\ op[o].pc = "spawn"
    /\ \/ Supervise /\ Goto(o, "clear") /\ UNCHANGED limits
       \/ KillFails /\ Failed(o) /\ UNCHANGED sup
    /\ UNCHANGED <<up, manager, disk, runner, promise>>

-----------------------------------------------------------------------------
(* ToolAgentUpdateService::process_update.  It takes no lock.              *)

UpdateRead(o) ==
    /\ op[o].pc = "read"
    /\ LET repair == record.state = "Installing" \/ binary = Missing IN
         \/ /\ record = NoRecord \/ (~repair /\ record.version = op[o].version)
            /\ Goto(o, "end")
            /\ UNCHANGED <<record, limits>>
         \/ /\ record # NoRecord
            /\ repair \/ record.version # op[o].version
            /\ op' = [op EXCEPT ![o].pc = "mark", ![o].repair = repair,
                 ![o].copy = IF repair THEN [record EXCEPT !.state = "Installing"]
                             ELSE record]
            /\ \/ /\ IF repair THEN SetState("Installing") ELSE UNCHANGED record
                  /\ UNCHANGED limits
               \/ /\ repair /\ record.state # "Installing"
                  /\ Fault
                  /\ UNCHANGED record
         \/ /\ Fault
            /\ op' = [op EXCEPT ![o].pc = "end", ![o].ok = FALSE]
            /\ UNCHANGED record
    /\ UNCHANGED <<up, manager, binary, processes, runner, promise>>

\* Mutant of UpdateStop: the error returns before clear_updating.
UpdateStop_EarlyReturn(o) ==
    /\ op[o].pc = "stop_old" /\ op[o].kind = "update"
    /\ \/ /\ KillAll
          /\ op' = [op EXCEPT ![o].pc = "apply", ![o].backup = binary]
          /\ UNCHANGED limits
       \/ KillFails /\ op' = [op EXCEPT ![o].pc = "end", ![o].ok = FALSE]
    /\ UNCHANGED <<up, manager, disk, sup, runner, promise>>

\* prepare: stop the tool and back its binary up.
UpdateStop(o) ==
    /\ op[o].pc = "stop_old" /\ op[o].kind = "update"
    /\ \/ /\ KillAll
          /\ op' = [op EXCEPT ![o].pc = "apply", ![o].backup = binary]
          /\ UNCHANGED limits
       \/ KillFails /\ Failed(o)
    /\ UNCHANGED <<up, manager, disk, sup, runner, promise>>

\* apply, or roll back to the backup, which may fail as well.
UpdateApply(o) ==
    /\ op[o].pc = "apply"
    /\ \/ binary' = op[o].version /\ Goto(o, "save") /\ UNCHANGED limits
       \/ /\ Fault
          /\ Failed(o)
          /\ binary' \in {binary} \cup ({op[o].backup} \ {Missing})
    /\ UNCHANGED <<up, manager, record, processes, runner, promise>>

\* save() writes the copy read at the start, with the new version.
UpdateSave(o) ==
    /\ op[o].pc = "save"
    /\ \/ /\ record' = [op[o].copy EXCEPT !.version = op[o].version]
          /\ Worked(o, "clear")
          /\ UNCHANGED limits
       \/ Fault /\ Failed(o) /\ UNCHANGED record
    /\ UNCHANGED <<up, manager, binary, processes, runner, promise>>

\* set_state(Installed) after a repair; a failure is only logged.
UpdateFinalize(o) ==
    /\ op[o].pc = "finalize"
    /\ \/ /\ SetState("Installed")
          /\ Goto(o, "end")
          /\ UNCHANGED limits
       \/ /\ Fault
          /\ op' = [op EXCEPT ![o].pc = "end", ![o].worked = FALSE]
          /\ UNCHANGED record
    /\ UNCHANGED <<up, manager, binary, processes, runner, promise>>

-----------------------------------------------------------------------------
(* ToolUninstallMessageListener::dispatch and uninstall_by_tool_agent_id.  *)

UninstallFind(o) ==
    /\ op[o].pc = "find"
    /\ \/ /\ Goto(o, IF record = NoRecord THEN "unsupervise" ELSE "stop_old")
          /\ UNCHANGED limits
       \/ Fault /\ Failed(o)
    /\ UNCHANGED <<up, manager, disk, processes, runner, promise>>

\* Stop the tool and run its uninstallation command.
UninstallStop(o) ==
    /\ op[o].pc = "stop_old" /\ op[o].kind = "uninstall"
    /\ \/ KillAll /\ Goto(o, "remove_dir") /\ UNCHANGED limits
       \/ KillFails /\ Failed(o)
       \/ Fault /\ Failed(o) /\ KillAll
    /\ UNCHANGED <<up, manager, disk, sup, runner, promise>>

UninstallRemoveDir(o) ==
    /\ op[o].pc = "remove_dir" /\ op[o].kind = "uninstall"
    /\ \/ binary' = Missing /\ Goto(o, "delete") /\ UNCHANGED limits
       \/ Fault /\ Failed(o) /\ UNCHANGED binary
    /\ UNCHANGED <<up, manager, record, processes, runner, promise>>

UninstallDelete(o) ==
    /\ op[o].pc = "delete"
    /\ \/ /\ record' = NoRecord
          /\ Worked(o, "unsupervise")
          /\ UNCHANGED limits
       \/ Fault /\ Failed(o) /\ UNCHANGED record
    /\ UNCHANGED <<up, manager, binary, processes, runner, promise>>

\* clear_running_tool, before the updating flag is cleared.
Unsupervise(o) ==
    /\ op[o].pc = "unsupervise"
    /\ running' = FALSE
    /\ Goto(o, "clear")
    /\ UNCHANGED <<up, updating, lock, shuttingDown, disk, processes, runner,
                   limits, promise>>

-----------------------------------------------------------------------------
(* ToolRestartService::restart_guarded.                                    *)

RestartLookup(o) ==
    /\ op[o].pc = "lookup"
    /\ \/ /\ Goto(o, IF record = NoRecord THEN "clear" ELSE "stop_old")
          /\ UNCHANGED limits
       \/ Fault /\ Failed(o)
    /\ UNCHANGED <<up, manager, disk, processes, runner, promise>>

RestartStop(o) ==
    /\ op[o].pc = "stop_old" /\ op[o].kind = "restart"
    /\ \/ KillAll /\ Goto(o, "run") /\ UNCHANGED limits
       \/ KillFails /\ Failed(o)
    /\ UNCHANGED <<up, manager, disk, sup, runner, promise>>

\* TOOL_RESTART_TIMEOUT_SECS elapses: the future is dropped where it stands,
\* and UpdatingGuard clears the flag and then releases the lock.
RestartTimeout(o) ==
    /\ op[o].kind = "restart"
    /\ op[o].pc \in {"stop_old", "run", "spawn"}
    /\ Fault
    /\ Failed(o)
    /\ UNCHANGED <<up, manager, disk, processes, runner, promise>>

-----------------------------------------------------------------------------
(* run(), stop_all() and restart_all().                                    *)

\* get_all: what follows works on this copy of the registry.
RunRead(r) ==
    /\ runner[r] = "read"
    /\ runner' = [runner EXCEPT ![r] = CASE record = NoRecord -> "idle"
                                        [] record.state = "Installing" -> "recheck"
                                        [] record.state = "Installed" -> "mark"]
    /\ UNCHANGED <<up, manager, disk, processes, op, limits, promise>>

\* A record left Installing: is the binary there?
RunRecheck(r) ==
    /\ runner[r] = "recheck"
    /\ runner' = [runner EXCEPT ![r] = IF binary = Missing THEN "mark" ELSE "settle"]
    /\ UNCHANGED <<up, manager, disk, processes, op, limits, promise>>

\* It is: set_state(Installed); a failure is only logged.
RunSettle(r) ==
    /\ runner[r] = "settle"
    /\ \/ SetState("Installed") /\ UNCHANGED limits
       \/ Fault /\ UNCHANGED record
    /\ runner' = [runner EXCEPT ![r] = "mark"]
    /\ UNCHANGED <<up, manager, binary, processes, op, promise>>

\* try_mark_running.
RunMark(r) ==
    /\ runner[r] = "mark"
    /\ running' = TRUE
    /\ runner' = [runner EXCEPT ![r] = IF running THEN "idle" ELSE "spawn"]
    /\ UNCHANGED <<up, updating, lock, shuttingDown, disk, processes, op, limits,
                   promise>>

RunSpawn(r) ==
    /\ runner[r] = "spawn"
    /\ Supervise
    /\ runner' = [runner EXCEPT ![r] = "idle"]
    /\ UNCHANGED <<up, manager, disk, op, limits, promise>>

\* The agent stops: every task is gone, processes of tools live on.
AgentExit ==
    /\ up' = FALSE
    /\ running' = FALSE /\ updating' = 0 /\ lock' = "none"
    /\ shuttingDown' = FALSE
    /\ sup' = [s \in Sups |-> "free"]
    /\ procs' = {}
    /\ orphan' = (orphan \/ procs # {})
    /\ op' = [o \in Ops |-> IdleOp]
    /\ runner' = [r \in {"boot", "deactivation"} |-> "idle"]
    /\ promise' = IF \A o \in Ops : op[o].pc = "idle" THEN promise ELSE NoPromise

\* The registry cannot be read: run() returns the error, which ends start() and the
\* agent with it; the deactivation supervisor logs it.
RunReadFails(r) ==
    /\ runner[r] = "read"
    /\ Fault
    /\ \/ r = "boot" /\ AgentExit
       \/ /\ r = "deactivation"
          /\ runner' = [runner EXCEPT ![r] = "idle"]
          /\ UNCHANGED <<up, manager, processes, op, promise>>
    /\ UNCHANGED disk

\* stop_tool failed: start() returns the error and the agent exits, or the
\* deactivation supervisor logs it.
RunSpawnFails(r) ==
    /\ runner[r] = "spawn"
    /\ \/ /\ r = "boot"
          /\ orphan \/ procs # {}
          /\ Fault
          /\ AgentExit
       \/ /\ r = "deactivation"
          /\ KillFails
          /\ runner' = [runner EXCEPT ![r] = "idle"]
          /\ UNCHANGED <<up, manager, sup, op, promise>>
    /\ UNCHANGED disk

\* stop_all: shutting_down first, then the supervision, then the processes.
StopAll ==
    /\ up
    /\ runner["deactivation"] = "idle" /\ ~shuttingDown
    /\ stops < MaxStops
    /\ stops' = stops + 1
    /\ shuttingDown' = TRUE
    /\ runner' = [runner EXCEPT !["deactivation"] = "stop_clear"]
    /\ UNCHANGED <<up, running, updating, lock, disk, processes, op, started,
                   crashes, faults, promise>>

StopAllClear ==
    /\ runner["deactivation"] = "stop_clear"
    /\ running' = FALSE
    /\ runner' = [runner EXCEPT !["deactivation"] = "stop_kill"]
    /\ UNCHANGED <<up, updating, lock, shuttingDown, disk, processes, op, limits,
                   promise>>

StopAllKill ==
    /\ runner["deactivation"] = "stop_kill"
    /\ \/ record # NoRecord /\ KillAll /\ UNCHANGED limits
       \/ record # NoRecord /\ KillFails
       \/ record = NoRecord /\ UNCHANGED <<procs, orphan, limits>>
       \/ Fault /\ UNCHANGED <<procs, orphan>>
    /\ runner' = [runner EXCEPT !["deactivation"] = "idle"]
    /\ UNCHANGED <<up, manager, disk, sup, op, promise>>

RestartAll ==
    /\ runner["deactivation"] = "idle" /\ shuttingDown
    /\ shuttingDown' = FALSE
    /\ runner' = [runner EXCEPT !["deactivation"] = "restart_clear"]
    /\ UNCHANGED <<up, running, updating, lock, disk, processes, op, limits,
                   promise>>

\* Mutant of RestartAllClear: ids left behind by the shutdown stay marked.
RestartAllClear_Keeps ==
    /\ runner["deactivation"] = "restart_clear"
    /\ runner' = [runner EXCEPT !["deactivation"] = "read"]
    /\ UNCHANGED <<up, manager, disk, processes, op, limits, promise>>

RestartAllClear ==
    /\ runner["deactivation"] = "restart_clear"
    /\ running' = FALSE
    /\ runner' = [runner EXCEPT !["deactivation"] = "read"]
    /\ UNCHANGED <<up, updating, lock, shuttingDown, disk, processes, op, limits,
                   promise>>

\* The listeners are up before start() reaches run().
Boot ==
    /\ ~up
    /\ up' = TRUE
    /\ runner' = [runner EXCEPT !["boot"] = "read"]
    /\ UNCHANGED <<manager, disk, processes, op, limits, promise>>

Crash ==
    /\ up
    /\ crashes < MaxCrashes
    /\ crashes' = crashes + 1
    /\ AgentExit
    /\ UNCHANGED <<disk, started, faults, stops>>

-----------------------------------------------------------------------------
SupStep(s) ==
    \/ SupTop(s) \/ SupWait(s) \/ SupCheck(s) \/ SupLaunch(s)
    \/ SupSpawn(s) \/ SupReap(s) \/ SupWake(s)

OpStep(o) ==
    \/ Lock(o) \/ TryLock(o) \/ MarkUpdating(o) \/ ClearUpdating(o) \/ End(o)
    \/ Inspect(o) \/ StopBeforeReinstall(o) \/ RemoveDir(o) \/ StopLeftovers(o)
    \/ Download(o) \/ InstallCommand(o) \/ RunNewTool(o) \/ RunTool(o)
    \/ UpdateRead(o) \/ UpdateStop(o) \/ UpdateApply(o) \/ UpdateSave(o)
    \/ UpdateFinalize(o)
    \/ UninstallFind(o) \/ UninstallStop(o) \/ UninstallRemoveDir(o)
    \/ UninstallDelete(o) \/ Unsupervise(o)
    \/ RestartLookup(o) \/ RestartStop(o)

RunnerStep(r) ==
    RunRead(r) \/ RunRecheck(r) \/ RunSettle(r) \/ RunMark(r) \/ RunSpawn(r)

DeactivationStep == StopAllClear \/ StopAllKill \/ RestartAllClear

Next ==
    \/ \E s \in Sups : SupStep(s) \/ SupArgsFail(s)
    \/ ProcessExit
    \/ \E o \in Ops : OpStep(o) \/ RestartTimeout(o)
    \/ \E o \in Ops, kind \in Kinds, v \in Versions : Begin(o, kind, v)
    \/ \E r \in {"boot", "deactivation"} : 
         RunnerStep(r) \/ RunReadFails(r) \/ RunSpawnFails(r)
    \/ StopAll \/ RestartAll \/ DeactivationStep
    \/ Boot \/ Crash

Spec == Init /\ [][Next]_vars

\* The tokio runtime keeps polling ready tasks, sleeps end, and the service
\* manager starts the agent again.
Fairness ==
    /\ \A s \in Sups : WF_vars(SupStep(s))
    /\ \A o \in Ops : WF_vars(OpStep(o))
    /\ \A r \in {"boot", "deactivation"} : WF_vars(RunnerStep(r))
    /\ WF_vars(DeactivationStep)
    /\ WF_vars(Boot)

LiveSpec == Spec /\ Fairness

-----------------------------------------------------------------------------
(* What the life of a tool guarantees.                                     *)

Marked == {"inspect", "stop_old", "remove_dir", "leftovers", "download",
           "command", "run", "spawn", "apply", "save", "find", "delete",
           "unsupervise", "lookup", "clear"}
SupPCs == {"free", "top", "wait", "check", "launch", "spawn", "alive", "sleep"}
RunnerPCs == {"idle", "read", "recheck", "settle", "mark", "spawn",
              "stop_clear", "stop_kill", "restart_clear"}
OpPCs == {"idle", "lock", "try_lock", "mark", "read", "finalize", "end"} \cup Marked

\* The stages an operation of a kind goes through.
Stages(kind) ==
    CASE kind = "none" -> {"idle"}
      [] kind = "install" -> {"lock", "mark", "inspect", "leftovers", "download",
                              "command", "run", "spawn", "clear", "end"}
      [] kind = "reinstall" -> {"lock", "mark", "inspect", "stop_old", "remove_dir",
                                "leftovers", "download", "command", "run", "spawn",
                                "clear", "end"}
      [] kind = "update" -> {"read", "mark", "stop_old", "apply", "save", "clear",
                             "finalize", "end"}
      [] kind = "uninstall" -> {"try_lock", "mark", "find", "stop_old", "remove_dir",
                                "delete", "unsupervise", "clear", "end"}
      [] kind = "restart" -> {"try_lock", "mark", "lookup", "stop_old", "run",
                              "spawn", "clear", "end"}

Binaries == Versions \cup {Missing}
Records == [state : {"Installed", "Installing"}, version : Versions] \cup {NoRecord}
OpRecords == [kind : Kinds \cup {"none"}, pc : OpPCs, version : Binaries,
              ok : BOOLEAN, worked : BOOLEAN, repair : BOOLEAN,
              backup : Binaries, copy : Records]

OpShape(r) ==
    /\ r.pc \in Stages(r.kind)
    /\ r.kind # "none" => r.version \in Versions
    /\ r.kind = "update" /\ r.pc \notin {"read", "end"} => r.copy # NoRecord

ManagerTypeOK ==
    /\ up \in BOOLEAN /\ running \in BOOLEAN /\ shuttingDown \in BOOLEAN
    /\ updating \in Int
    /\ lock \in Ops \cup {"none"}
    /\ runner \in [{"boot", "deactivation"} -> RunnerPCs]
    /\ promise \in [known : BOOLEAN, version : Binaries]
LimitsTypeOK ==
    started \in Nat /\ crashes \in Nat /\ faults \in Nat /\ stops \in Nat
DiskTypeOK == record \in Records /\ binary \in Binaries
SupTypeOK ==
    /\ sup \in [Sups -> SupPCs]
    /\ procs \subseteq {s \in Sups : sup[s] = "alive"}
    /\ orphan \in BOOLEAN
OpTypeOK == op \in [Ops -> OpRecords] /\ \A o \in Ops : OpShape(op[o])

\* The type invariant: in particular every operation stays on the path of its
\* kind, an update only writes back a record it has read, and only a
\* supervisor that waits for its child has one.
TypeOK == ManagerTypeOK /\ LimitsTypeOK /\ DiskTypeOK /\ SupTypeOK /\ OpTypeOK

\* Every mark_updating is matched by one clear_updating on every path through
\* an operation, error returns and the timed-out restart included: the flag is
\* up exactly while an operation is between the two, so no failed operation
\* keeps the supervisor waiting for ever.
FlagsBalanced == updating = Cardinality({o \in Ops : op[o].pc \in Marked})

\* The per-tool lock is meant for "preventing concurrent operations on the same
\* tool": no two are in flight together.  So it is for all kinds that take the
\* lock; an update takes none and breaks it.
OneOperation ==
    \A o, p \in Ops : op[o].pc \in Marked /\ op[p].pc \in Marked => o = p

\* What an acknowledged operation achieved is still so when the agent is quiet:
\* after an install or update the record is Installed and names the version
\* on disk, after an uninstall nothing is left.  The per-tool lock keeps other
\* operations from spoiling it half way, and neither supervisors nor a restart
\* of the agent do.
KeepsPromise ==
    (\A o \in Ops : op[o].pc = "idle") /\ promise.known =>
        IF promise.version = 0 THEN record = NoRecord /\ binary = Missing
        ELSE /\ record = [state |-> "Installed", version |-> promise.version]
             /\ binary = promise.version

\* No two processes of the tool are alive at a time, processes left over from
\* an earlier agent included: "two osqueryd fight over the osquery.db lock".
OneProcess == Cardinality(procs) + (IF orphan THEN 1 ELSE 0) <= 1

\* A tool that stays installed, while tools are not stopped, is launched again
\* and again however often its process exits: supervision is not lost to an
\* operation, to stop_all and restart_all, or to a restart of the agent.
Wanted == /\ up /\ ~shuttingDown /\ record # NoRecord /\ binary # Missing
          /\ \A o \in Ops : op[o].pc = "idle"
EventuallySupervised == <>[]Wanted => []<>(procs # {})

-----------------------------------------------------------------------------
(* A statement of the repository that the code does not keep.              *)

\* "May leave the tool stopped; self-heal or server-sent restarts recover it on
\* their next cycle": a restart that reports success leaves a supervisor.
RestartRecovers ==
    (/\ record # NoRecord
     /\ \E o \in Ops : op[o].kind = "restart" /\ op[o].pc = "end" /\ op[o].ok
     /\ \A o \in Ops : op[o].pc # "spawn"
     /\ \A r \in {"boot", "deactivation"} : runner[r] # "spawn")
    => \E s \in Sups : sup[s] # "free"
=============================================================================
