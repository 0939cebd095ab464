--------------------------- MODULE ToolConnections ---------------------------
(***************************************************************************)
(* ToolConnectionProcessingManager for one tool: the loop that resolves    *)
(* the id the tool's own server gave it, publishes it and records it, the  *)
(* mark and the wake handle that keep that loop single and reachable, and  *)
(* the operations on the tool that run beside it.                          *)
(*                                                                         *)
(* The tool never gets an id back that it had before, so an id is kept as  *)
(* "current" or "old": whether it is the one the tool has now.  A wait is  *)
(* leaving the loop where it is; a failed attempt goes back to the         *)
(* registry, and its back-off (backoff_agent_id_failure) is such a wait.   *)
(* The tool has a tool_type: without one run and run_new_tool pass over it *)
(* and it has no loop at all.                                              *)
(***************************************************************************)
EXTENDS Integers

CONSTANTS
    MaxOps,      \* bound: installs, uninstalls and updates
    MaxFaults    \* bound: failing calls, crashes, changes of the id outside an install

ASSUME ConnectionAssumption == {MaxOps, MaxFaults} \subseteq Nat

VARIABLES
    registry,    \* the tool's record: "absent", "installing", "installed", or "remains" of
                 \* a tool whose files an uninstall that failed has removed
    op,          \* the operation that holds the tool's lock, by its step
    update,      \* an update of the tool is under way (it takes no lock)
    booted,      \* run() has been called
    marked,      \* the tool is in running_tools
    wake,        \* it is in wake_signals
    permit,      \* the live loop's Notify holds a permit
    loop,        \* the live loop's step, or "off"
    got,         \* the id the loop resolved
    ending,      \* a loop that left: what it has still to remove
    published,   \* the id the backend was told last, or "none"
    torn,        \* tool_connections.json cannot be parsed
    ops, faults,
    missed,      \* history: no loop runs for the tool, and what would have started one is
                 \* over: an install that found the mark of a loop that had left or ended
                 \* before its call, a start that could not list the tools
    drifted      \* history: the id changed since the last install announced itself

manager == <<booted, marked, wake, permit, loop, got, ending>>
told == <<published, torn>>
bounds == <<ops, faults>>
connectionVars == <<registry, op, update, manager, told, bounds, missed, drifted>>

Updating == op # "none" \/ update

ConnectionTypeOK ==
    /\ registry \in {"absent", "installing", "installed", "remains"}
    /\ op \in {"none", "install", "announce", "nudge", "finish", "uninstall", "restart"}
    /\ got \in {"current", "old"} /\ published \in {"none", "current", "old"}
    /\ {torn, update, booted, marked, wake, permit, missed, drifted} \subseteq BOOLEAN
    /\ loop \in {"off", "read", "resolve", "publish", "save", "rest"}
    /\ ending \in {"no", "wake", "mark"}
    /\ ops \in 0..MaxOps /\ faults \in 0..MaxFaults

ConnectionInit ==
    /\ registry \in {"absent", "installed"} /\ op = "none" /\ update = FALSE
    /\ booted = FALSE /\ marked = FALSE /\ wake = FALSE /\ permit = FALSE
    /\ loop = "off" /\ got = "old" /\ ending = "no" /\ published = "none" /\ torn = FALSE
    /\ ops = 0 /\ faults = 0 /\ missed = FALSE /\ drifted = FALSE

Fault == faults < MaxFaults /\ faults' = faults + 1 /\ UNCHANGED ops
Operation == ops < MaxOps /\ ops' = ops + 1 /\ UNCHANGED faults

-----------------------------------------------------------------------------
(* Starting and reaching the loop *)

\* The mark and the wake handle are set under one guard, and the loop is spawned.
try_mark_running ==
    /\ marked' = TRUE /\ wake' = TRUE /\ permit' = FALSE /\ loop' = "read"
    /\ UNCHANGED <<got, ending>>

\* run: at the start of the agent, for every tool of the registry, unless the registry
\* cannot be listed.
Run ==
    /\ ~booted /\ booted' = TRUE
    /\ \/ registry # "absent" /\ ~marked /\ try_mark_running /\ missed' = FALSE /\ UNCHANGED bounds
       \/ /\ registry = "absent" \/ marked
          /\ UNCHANGED <<marked, wake, permit, loop, got, ending, missed, bounds>>
       \/ /\ Fault /\ missed' = (loop = "off")
          /\ UNCHANGED <<marked, wake, permit, loop, got, ending>>
    /\ UNCHANGED <<registry, op, update, told, drifted>>

\* run_new_tool: start a loop, or find the mark of one.
Announce ==
    /\ op = "announce"
    /\ \/ ~marked /\ try_mark_running /\ op' = "finish" /\ missed' = FALSE
       \/ marked /\ op' = "nudge" /\ UNCHANGED <<marked, wake, permit, loop, got, ending, missed>>
    /\ UNCHANGED <<registry, update, booted, told, bounds, drifted>>

\* Mutant: the waiters are notified and no permit is left for a busy loop.
Nudge_NotStored ==
    /\ op = "nudge" /\ op' = "finish"
    /\ permit' = (permit \/ (wake /\ loop = "rest"))
    /\ missed' = (loop = "off")
    /\ UNCHANGED <<registry, update, booted, marked, wake, loop, got, ending, told,
                   bounds, drifted>>

\* Reinstall with the loop still alive: wake it.  notify_one leaves a permit when
\* nobody waits; a handle that is gone, or whose loop has left, wakes nobody.
Nudge ==
    /\ op = "nudge" /\ op' = "finish"
    /\ permit' = (permit \/ (wake /\ loop # "off"))
    /\ missed' = (loop = "off")
    /\ UNCHANGED <<registry, update, booted, marked, wake, loop, got, ending, told,
                   bounds, drifted>>

-----------------------------------------------------------------------------
(* process_tool *)

\* The tool's record, then the update flag; a tool that is gone ends the loop.
ReadRegistry ==
    /\ loop = "read"
    /\ \/ registry = "absent" /\ ending = "no" /\ loop' = "off" /\ ending' = "wake"
       \/ registry # "absent" /\ ~Updating /\ loop' = "resolve" /\ UNCHANGED ending
    /\ UNCHANGED <<registry, op, update, booted, marked, wake, permit, got, told, bounds,
                   missed, drifted>>

\* The agent-id command, under its time limit.  While the tool is being replaced or
\* is gone it may fail; elsewhere a failure is a fault.
Resolve ==
    /\ loop = "resolve"
    /\ \/ registry # "absent" /\ loop' = "publish" /\ got' = "current" /\ UNCHANGED bounds
       \/ /\ registry \in {"absent", "remains"} \/ Updating
          /\ loop' = "read" /\ UNCHANGED <<got, bounds>>
       \/ loop' = "read" /\ Fault /\ UNCHANGED got
    /\ UNCHANGED <<registry, op, update, booted, marked, wake, permit, ending, told,
                   missed, drifted>>

\* Publish without waiting for an acknowledgement of the backend.
Publish ==
    /\ loop = "publish"
    /\ \/ published' = got /\ loop' = "save" /\ UNCHANGED bounds
       \/ loop' = "read" /\ Fault /\ UNCHANGED published
    /\ UNCHANGED <<registry, op, update, booted, marked, wake, permit, got, ending, torn,
                   missed, drifted>>

\* Upsert the entry of the tool; a file that cannot be parsed fails every time.
SaveConnection ==
    /\ loop = "save"
    /\ \/ ~torn /\ loop' = "rest" /\ UNCHANGED bounds
       \/ torn /\ loop' = "read" /\ UNCHANGED bounds
       \/ ~torn /\ loop' = "read" /\ Fault
    /\ UNCHANGED <<registry, op, update, booted, marked, wake, permit, got, ending,
                   told, missed, drifted>>

\* Mutant: the loop waits for the wake handle alone.
Rest_WakeOnly ==
    /\ loop = "rest" /\ permit /\ loop' = "read" /\ permit' = FALSE
    /\ UNCHANGED <<registry, op, update, booted, marked, wake, got, ending, told, bounds,
                   missed, drifted>>

\* An hour, or the wake handle.
Rest ==
    /\ loop = "rest" /\ loop' = "read" /\ permit' \in {FALSE, permit}
    /\ UNCHANGED <<registry, op, update, booted, marked, wake, got, ending, told, bounds,
                   missed, drifted>>

\* Mutant: the mark goes first.
EndLoop_MarkFirst ==
    /\ \/ ending = "wake" /\ marked' = FALSE /\ ending' = "mark" /\ UNCHANGED wake
       \/ ending = "mark" /\ wake' = FALSE /\ ending' = "no" /\ UNCHANGED marked
    /\ UNCHANGED <<registry, op, update, booted, permit, loop, got, told, bounds,
                   missed, drifted>>

\* After the loop: the wake handle goes before the mark.
EndLoop ==
    /\ \/ ending = "wake" /\ wake' = FALSE /\ ending' = "mark" /\ UNCHANGED marked
       \/ ending = "mark" /\ marked' = FALSE /\ ending' = "no" /\ UNCHANGED wake
    /\ UNCHANGED <<registry, op, update, booted, permit, loop, got, told, bounds,
                   missed, drifted>>

-----------------------------------------------------------------------------
(* The operations on the tool *)

\* The ids that were resolved and published are now those of a tool that was.
NewId ==
    /\ got' = "old" /\ published' = (IF published = "none" THEN "none" ELSE "old")
    /\ UNCHANGED <<booted, marked, wake, permit, loop, ending, torn>>

\* An install takes the lock and marks the tool as updating; a reinstall marks the
\* record and deletes the connection's entry (a failure to is only logged).
BeginInstall ==
    /\ op = "none" /\ Operation /\ op' = "install"
    /\ registry' = IF registry = "absent" THEN "absent" ELSE "installing"
    /\ UNCHANGED <<update, manager, told, missed, drifted>>

\* The tool is in place, perhaps with another id, and its record is saved.
SaveTool ==
    /\ op = "install" /\ op' = "announce" /\ registry' = "installed" /\ drifted' = FALSE
    /\ NewId \/ UNCHANGED <<manager, told>>
    /\ UNCHANGED <<update, bounds, missed>>

\* The record is saved, but the tool cannot be run: the install returns before it comes
\* to the connection, and its redelivery finds the tool installed.
StartFails ==
    /\ op = "install" /\ Fault /\ op' = "none" /\ registry' = "installed"
    /\ missed' = (loop = "off")
    /\ \/ NewId /\ drifted' = TRUE
       \/ UNCHANGED <<manager, told, drifted>>
    /\ UNCHANGED update

\* The install fails, perhaps after the tool took its new id.
InstallFails ==
    /\ op = "install" /\ Fault /\ op' = "none"
    /\ \/ NewId /\ drifted' = TRUE
       \/ UNCHANGED <<manager, told, drifted>>
    /\ UNCHANGED <<registry, update, missed>>

EndOperation ==
    /\ op = "finish" /\ op' = "none"
    /\ UNCHANGED <<registry, update, manager, told, bounds, missed, drifted>>

\* The uninstall takes the lock and, in the end, deletes the record.
BeginUninstall ==
    /\ op = "none" /\ registry # "absent" /\ Operation /\ op' = "uninstall"
    /\ UNCHANGED <<registry, update, manager, told, missed, drifted>>

RemoveTool ==
    /\ op = "uninstall" /\ registry' = "absent" /\ op' = "none"
    /\ UNCHANGED <<update, manager, told, bounds, missed, drifted>>

\* The uninstall fails: its command, the removal of the directory or of the record.
UninstallFails ==
    /\ op = "uninstall" /\ Fault /\ op' = "none" /\ registry' \in {registry, "remains"}
    /\ UNCHANGED <<update, manager, told, missed, drifted>>

\* An update marks the tool as updating, whoever holds the lock.
BeginUpdate ==
    /\ ~update /\ registry # "absent" /\ Operation /\ update' = TRUE
    /\ UNCHANGED <<registry, op, manager, told, missed, drifted>>

EndUpdate ==
    /\ update /\ update' = FALSE
    /\ UNCHANGED <<registry, op, manager, told, bounds, missed, drifted>>

\* The tool's server gives it another id, or its database is wiped.
Rekey ==
    /\ registry # "absent" /\ Fault /\ NewId /\ drifted' = TRUE
    /\ UNCHANGED <<registry, op, update, missed>>

\* The agent dies and comes back: its memory is lost, and a write in progress may be
\* torn (persist writes in place).
Crash ==
    /\ Fault
    /\ op' = "none" /\ update' = FALSE
    /\ booted' = FALSE /\ marked' = FALSE /\ wake' = FALSE /\ permit' = FALSE
    /\ loop' = "off" /\ ending' = "no" /\ missed' = FALSE /\ got' = "old"
    /\ torn' \in {torn, torn \/ loop = "save" \/ op = "install"}
    /\ UNCHANGED <<registry, published, drifted>>

ManagerStep ==
    \/ Run \/ Announce \/ Nudge \/ ReadRegistry \/ Resolve \/ Publish \/ SaveConnection \/ Rest
    \/ EndLoop

ConnectionNext ==
    \/ ManagerStep \/ BeginInstall \/ SaveTool \/ StartFails \/ InstallFails \/ EndOperation
    \/ BeginUninstall \/ RemoveTool \/ UninstallFails \/ BeginUpdate \/ EndUpdate \/ Rekey \/ Crash

\* The loop's task is scheduled, its timers fire, and an operation that began ends.
ConnectionFairness ==
    /\ WF_connectionVars(Run) /\ WF_connectionVars(Announce) /\ WF_connectionVars(Nudge)
    /\ WF_connectionVars(ReadRegistry) /\ WF_connectionVars(Resolve) /\ WF_connectionVars(Publish)
    /\ WF_connectionVars(SaveConnection) /\ WF_connectionVars(Rest) /\ WF_connectionVars(EndLoop)
    /\ WF_connectionVars(SaveTool) /\ WF_connectionVars(EndOperation)
    /\ WF_connectionVars(RemoveTool) /\ WF_connectionVars(EndUpdate)

ConnectionSpec == ConnectionInit /\ [][ConnectionNext]_connectionVars /\ ConnectionFairness

-----------------------------------------------------------------------------
(* Properties *)

\* A loop that runs is always marked and always has its wake handle registered, also
\* when a predecessor is still removing its own (process_tool: "Drop the wake entry
\* before the mark so a successor loop's fresh entry can't be clobbered").
LoopReachable == loop # "off" => marked /\ wake

\* After an install the loop never goes to rest for an hour on the id of the tool it
\* replaced: whatever it was doing when it was woken, it publishes again at once.
NoStaleRest ==
    (loop = "rest" /\ ~permit /\ op = "none" /\ ~drifted) => published = "current"

\* Once the changes stop, the backend knows the id of an installed tool: of one with a
\* loop also when an install ended before its call, and of every one unless nothing is
\* left to start its loop before the agent does (missed, see AlwaysPublished).
Publishes == <>[]((registry = "installed" /\ ~missed) => published = "current")

\* What try_mark_running promises ("so a racing run_new_tool can always nudge a marked
\* tool"): an installed tool is published in the end.  An install that arrives between a
\* loop's last look at the registry and the removal of its mark is never published, nor,
\* with a fault, one whose tool cannot be run once its record is saved.
AlwaysPublished == <>[](registry = "installed" => published = "current")
=============================================================================
