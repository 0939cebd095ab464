---------------------------- MODULE MeshSelfHeal ----------------------------
(***************************************************************************)
(* MeshSelfHealService: the watcher that follows the log of the            *)
(* meshcentral agent and, when the agent has stood in failure or silence   *)
(* for too long or its .msh file names no server, fetches a new .msh and   *)
(* restarts it.  It shares the tool with the connection loop and with the  *)
(* operations of module ToolConnections: both stand aside while the tool   *)
(* is being updated, and a heal is such an operation itself.  Beside them  *)
(* the agent (external) and the suspension of the tenant, whose commands   *)
(* stop and restart the tools.                                             *)
(*                                                                         *)
(* Time is counted in polls.  An Instant is the number of polls since it,  *)
(* up to the limit it is compared with, and Never when it is not set.      *)
(* Times run on while the tenant is suspended.                             *)
(***************************************************************************)
EXTENDS ToolConnections, Sequences, SequencesExt

CONSTANTS
    StuckAfter,    \* STUCK_DURATION
    SilentAfter,   \* SILENCE_DURATION
    Cooldown,      \* ACTION_COOLDOWN
    MaxLines       \* bound: lines the agent logs between two polls

ASSUME MeshAssumption ==
    /\ {StuckAfter, SilentAfter, Cooldown, MaxLines} \subseteq Nat \ {0}
    /\ StuckAfter < SilentAfter

VARIABLES
    suspended,    \* the tenant is gone
    stopped,      \* stop_all was called, and no restart_all since
    commands,     \* StopTools and RestartTools, in turn, still to be taken
    agent,        \* external: "down", "starting", "up", "failing" or "wedged"
    msh,          \* its .msh: "good", "stale" or without a ServerID ("noid", also no file)
    mute,         \* external: polls since a starting or connected agent started or logged
    log,          \* the lines after the watcher's offset
    tail,         \* the last marker of the log as it stands
    watch,        \* the watcher: "poll", "refresh", "restart" or "restarting"
    stuck,        \* stuck_since
    quiet,        \* last_activity
    cool          \* last_action

connection == <<manager, told, missed, drifted>>
suspension == <<suspended, stopped, commands>>
tool == <<registry, op, update, suspension, connection>>
mesh == <<agent, msh, mute, log, tail>>
timers == <<stuck, quiet, cool>>
watcher == <<watch, timers>>
vars == <<tool, mesh, watcher, bounds>>

Never == -1
Age(t, limit) == IF t \in {Never, limit} THEN t ELSE t + 1

TypeOK ==
    /\ ConnectionTypeOK /\ {suspended, stopped} \subseteq BOOLEAN /\ commands \in Nat
    /\ agent \in {"down", "starting", "up", "failing", "wedged"}
    /\ msh \in {"good", "stale", "noid"} /\ mute \in 0..SilentAfter
    /\ log \in BoundedSeq({"healthy", "failed", "other"}, MaxLines)
    /\ tail \in {"none", "healthy", "failed"}
    /\ watch \in {"poll", "refresh", "restart", "restarting"}
    /\ watch = "restarting" <=> op = "restart"
    /\ stuck \in Never..StuckAfter /\ quiet \in 0..SilentAfter /\ cool \in Never..Cooldown

Init ==
    /\ ConnectionInit /\ suspended = FALSE /\ stopped = FALSE /\ commands = 0
    /\ \/ registry = "absent" /\ agent = "down" /\ msh = "noid"
       \/ registry = "installed" /\ agent = "starting" /\ msh \in {"good", "stale"}
    /\ mute = 0 /\ log = <<>> /\ tail = "none"
    /\ watch = "poll" /\ stuck = Never /\ quiet = 0 /\ cool = Never

-----------------------------------------------------------------------------
(* The agent (external): a connect logs the healthy marker, a failure the failure marker *)

Logs(line) ==
    /\ Len(log) < MaxLines /\ log' = Append(log, line) /\ mute' = 0
    /\ tail' = IF line = "other" THEN tail ELSE line

\* It imports the .msh when it starts, and connects when the file is the server's.
AgentConnects ==
    /\ agent \in {"starting", "failing"} /\ msh = "good" /\ agent' = "up" /\ Logs("healthy")
    /\ UNCHANGED <<tool, msh, watcher, bounds>>

\* Without a fault it fails only on a .msh that is not the server's.
AgentFails ==
    /\ \/ agent \in {"starting", "failing"} /\ msh # "good" /\ UNCHANGED bounds
       \/ agent \in {"starting", "up"} /\ msh = "good" /\ Fault
    /\ agent' = "failing" /\ Logs("failed")
    /\ UNCHANGED <<tool, msh, watcher>>

\* A healthy agent logs something, and a started one comes to connect, well before it
\* has been mute for as long as counts as silence.  (Beside lines that are still to be
\* read, another one changes nothing.)
Speaks == agent \in {"starting", "up"} /\ log = <<>> => mute < SilentAfter - 1

AgentTalks ==
    /\ agent = "up" /\ log = <<>> /\ Logs("other")
    /\ UNCHANGED <<tool, agent, msh, watcher, bounds>>

AgentWedges ==
    /\ agent \in {"starting", "up", "failing"} /\ Fault /\ agent' = "wedged" /\ mute' = 0
    /\ UNCHANGED <<tool, msh, log, tail, watcher>>

\* The server changes its identity or the file is damaged; the connection drops.
MshOutdated ==
    /\ agent = "up" /\ Fault /\ msh' \in {"stale", "noid"} /\ agent' = "failing" /\ Logs("failed")
    /\ UNCHANGED <<tool, watcher>>

\* The log is rotated or cut: what was not read is lost, or the offset goes back and
\* what is left, down to the last marker, is read again.  A file that has already
\* outgrown the offset hides its lines in the same way.
LogRotated ==
    /\ Fault
    /\ \/ log' = <<>> /\ tail' = "none"
       \/ tail # "none" /\ log' = <<tail>> /\ UNCHANGED tail
    /\ UNCHANGED <<tool, agent, msh, mute, watcher>>

-----------------------------------------------------------------------------
(* watch *)

\* The lines show a connect; they show a failure that no later connect overcame.
Connects(lines) == \E i \in DOMAIN lines : lines[i] = "healthy"
StillFails(lines) ==
    \E i \in DOMAIN lines :
        lines[i] = "failed" /\ \A j \in DOMAIN lines : lines[j] = "healthy" => j < i

\* Mutants: a connect does not clear the failure; every failure starts the count anew.
Sees_KeepsStuck(t, lines) ==
    LET since == IF Connects(lines) THEN [t EXCEPT !.cool = Never] ELSE t
    IN  IF StillFails(lines) /\ since.stuck = Never THEN [since EXCEPT !.stuck = 0] ELSE since
Sees_Restarts(t, lines) ==
    LET since == IF Connects(lines) THEN [stuck |-> Never, cool |-> Never] ELSE t
    IN  IF StillFails(lines) THEN [since EXCEPT !.stuck = 0] ELSE since

\* What a batch of lines, read in order, makes of the timers: a connect forgets the
\* failure and the last action, a failure counts from the first one since.
Sees(t, lines) ==
    LET since == IF Connects(lines) THEN [stuck |-> Never, cool |-> Never] ELSE t
    IN  IF StillFails(lines) /\ since.stuck = Never THEN [since EXCEPT !.stuck = 0] ELSE since

\* The tool is fully installed and its .msh is absent or lacks a ServerID.
current_msh_missing_serverid == registry = "installed" /\ msh = "noid"

\* What the watcher does with its timers up to date: stand aside for an update, wait
\* out the cool-down, heal, or go on.  The cool-down is armed before the heal.
Decide(t, silence) ==
    LET cooling == t.cool # Never /\ t.cool < Cooldown
        due == current_msh_missing_serverid \/ t.stuck = StuckAfter \/ silence = SilentAfter
    IN  \/ Updating /\ stuck' = Never /\ quiet' = 0 /\ cool' = t.cool /\ watch' = "poll"
        \/ /\ ~Updating /\ (cooling \/ ~due)
           /\ stuck' = t.stuck /\ quiet' = silence /\ cool' = t.cool /\ watch' = "poll"
        \/ /\ ~Updating /\ ~cooling /\ due
           /\ stuck' = t.stuck /\ quiet' = silence /\ cool' = 0 /\ watch' = "refresh"

\* A poll: nothing while suspended, though the timers run on; the timers are dropped when
\* the host slept; the new lines are read, unless the file cannot be opened.
Poll ==
    /\ watch = "poll"
    /\ Speaks /\ mute' = IF agent \in {"starting", "up"} THEN Age(mute, SilentAfter) ELSE 0
    /\ \/ /\ suspended
          /\ stuck' = Age(stuck, StuckAfter) /\ quiet' = Age(quiet, SilentAfter)
          /\ cool' = Age(cool, Cooldown)
          /\ UNCHANGED <<log, watch, bounds>>
       \/ /\ ~suspended
          /\ \E slept, unreadable \in BOOLEAN :
                LET lines == IF unreadable THEN <<>> ELSE log
                    before == [stuck |-> IF slept THEN Never ELSE Age(stuck, StuckAfter),
                               cool |-> IF slept /\ cool # Never THEN Cooldown
                                        ELSE Age(cool, Cooldown)]
                    silence == IF slept \/ lines # <<>> THEN 0 ELSE Age(quiet, SilentAfter)
                IN  /\ IF slept \/ unreadable THEN Fault ELSE UNCHANGED bounds
                    /\ log' = IF unreadable THEN log ELSE <<>>
                    /\ Decide(Sees(before, lines), silence)
    /\ UNCHANGED <<tool, agent, msh, tail>>

\* heal, first half: try_refresh_msh writes beside the file, in a directory it creates,
\* and renames; it fails with the network, and at once when there is neither a file nor
\* a tool.
Refresh ==
    /\ watch = "refresh" /\ watch' = "restart"
    /\ \/ ~(msh = "noid" /\ registry = "absent") /\ msh' = "good" /\ UNCHANGED bounds
       \/ msh = "noid" /\ registry = "absent" /\ UNCHANGED <<msh, bounds>>
       \/ Fault /\ UNCHANGED msh
    /\ UNCHANGED <<tool, agent, mute, log, tail, timers>>

\* After the heal, whatever its outcome.
Healed == watch' = "poll" /\ stuck' = Never /\ quiet' = 0 /\ UNCHANGED cool

\* The agent is started, while the tools are stopped only if it is an OS service.  A tool
\* whose files are gone does not start.
Start ==
    /\ agent' \in IF registry' \in {"absent", "remains"} THEN {"down"}
                  ELSE IF stopped' THEN {"down", "starting"} ELSE {"starting"}
    /\ mute' = 0
Stop == agent' = "down" /\ mute' = 0

\* restart_guarded: not while another operation holds the lock; a tool that is not in
\* the registry has its process killed.
RestartAgent ==
    /\ watch = "restart"
    /\ \/ op # "none" /\ Healed /\ UNCHANGED <<op, agent, mute>>
       \/ op = "none" /\ registry = "absent" /\ Healed /\ Stop /\ UNCHANGED op
       \/ /\ op = "none" /\ registry # "absent" /\ op' = "restart" /\ watch' = "restarting"
          /\ Stop /\ UNCHANGED timers
    /\ UNCHANGED <<registry, update, suspension, connection, msh, log, tail, bounds>>

\* The tool is started, or the restart fails or runs into its time limit and leaves it
\* stopped.
Restarted ==
    /\ watch = "restarting" /\ op' = "none" /\ Healed
    /\ UNCHANGED <<registry, update, suspension, connection, msh, log, tail>>
    /\ \/ Start /\ UNCHANGED bounds
       \/ Fault /\ UNCHANGED <<agent, mute>>

\* The process dies and comes back: the watcher starts at the end of the log, with the
\* failure that shows in the last TAIL_BYTES, if any does, and with the age of the log,
\* cut to leave StuckAfter of silence to be observed.
WatcherStarts ==
    /\ Crash /\ log' = <<>> /\ watch' = "poll" /\ cool' = Never
    /\ stuck' \in {Never} \cup (IF tail = "failed" THEN {0} ELSE {})
    /\ quiet' \in {q \in 0..(SilentAfter - StuckAfter) : agent = "up" => q <= mute}
    /\ suspended' = FALSE /\ stopped' = FALSE /\ commands' = 0
    /\ UNCHANGED <<agent, mute, msh, tail>>

-----------------------------------------------------------------------------
(* The steps of the tool, with what they do to the agent *)

Unnoticed(A) == A /\ UNCHANGED <<suspension, mesh, watcher>>
Stopping(A) == A /\ Stop /\ UNCHANGED <<suspension, msh, log, tail, watcher>>
Starting(A) == A /\ UNCHANGED <<suspension, log, tail, watcher>> /\ Start

\* An install replaces the agent and its .msh; an uninstall removes both.  The service is
\* verified to run before the record is saved.
InstallStep ==
    \/ Stopping(BeginInstall)
    \/ Starting(SaveTool \/ StartFails) /\ msh' = "good"
    \/ Stopping(InstallFails)
    \/ Unnoticed(EndOperation)

UninstallStep ==
    \/ Stopping(BeginUninstall)
    \/ RemoveTool /\ msh' = "noid" /\ UNCHANGED <<suspension, agent, mute, log, tail, watcher>>
    \/ /\ UninstallFails /\ msh' = (IF registry' = "remains" THEN "noid" ELSE msh)
       /\ UNCHANGED <<suspension, agent, mute, log, tail, watcher>>

UpdateStep ==
    \/ Stopping(BeginUpdate)
    \/ Starting(EndUpdate) /\ UNCHANGED msh

\* A command of the deactivation service is taken, whatever the operations on the tool:
\* stop_all or restart_all, which go on when they cannot stop or start the agent.
TakeCommand ==
    /\ commands > 0 /\ commands' = commands - 1 /\ stopped' = ~stopped
    /\ UNCHANGED <<suspended, registry, op, update, connection, msh, log, tail, watcher>>
    /\ \/ ~stopped /\ Stop /\ UNCHANGED bounds
       \/ stopped /\ agent = "down" /\ Start /\ UNCHANGED bounds
       \/ stopped /\ (agent # "down" \/ Updating) /\ UNCHANGED <<agent, mute, bounds>>
       \/ Fault /\ UNCHANGED <<agent, mute>>

\* The tenant is gone, or back: the flag at once, the tools when the command is taken.
\* Bound: a suspension counts as an operation and as a fault.
Suspension ==
    /\ \/ /\ ~suspended /\ suspended' = TRUE
          /\ ops < MaxOps /\ ops' = ops + 1 /\ faults < MaxFaults /\ faults' = faults + 1
       \/ suspended /\ suspended' = FALSE /\ UNCHANGED bounds
    /\ commands' = commands + 1
    /\ UNCHANGED <<stopped, registry, op, update, connection, mesh, watcher>>

Next ==
    \/ AgentConnects \/ AgentFails \/ AgentTalks \/ AgentWedges \/ MshOutdated \/ LogRotated
    \/ Poll \/ Refresh \/ RestartAgent \/ Restarted \/ WatcherStarts
    \/ Unnoticed(ManagerStep) \/ Unnoticed(Rekey)
    \/ InstallStep \/ UninstallStep \/ UpdateStep \/ Suspension \/ TakeCommand

\* The watcher and the connection loop are tasks of a multi-threaded runtime, and every
\* wait of theirs has a time limit; a started agent comes to connect or to fail, a
\* healthy one logs, and operations and suspensions end.
Fairness ==
    /\ WF_vars(Poll) /\ WF_vars(Refresh) /\ WF_vars(RestartAgent) /\ WF_vars(Restarted)
    /\ WF_vars(agent = "starting" /\ (AgentConnects \/ AgentFails)) /\ WF_vars(AgentTalks)
    /\ WF_vars(op \notin {"none", "announce", "nudge"} /\ (InstallStep \/ UninstallStep))
    /\ WF_vars(Starting(EndUpdate) /\ UNCHANGED msh)
    /\ WF_vars(suspended /\ Suspension) /\ WF_vars(TakeCommand)
    /\ WF_vars(Unnoticed(Run)) /\ WF_vars(Unnoticed(Announce)) /\ WF_vars(Unnoticed(Nudge))
    /\ WF_vars(Unnoticed(EndLoop))
    /\ WF_vars(Unnoticed(ReadRegistry \/ Resolve \/ Publish \/ SaveConnection \/ Rest))

Spec == Init /\ [][Next]_vars /\ Fairness

-----------------------------------------------------------------------------
(* Properties *)

\* A heal is never decided against an agent that is connected and whose .msh names the
\* server, as long as the log could be read and still shows its connect: no failure that
\* has been overcome, no silence of a suspension, no timer from before a restart of the
\* watcher or of the agent, no line that a rotation brings back, brings it down.
HealthyLeftAlone ==
    [][(watch = "poll" /\ watch' = "refresh") =>
            (agent # "up" \/ msh = "noid" \/ log' # <<>> \/ tail # "healthy")]_vars

\* Whatever happens to the agent - a wedge, a failing connection, an outdated .msh, a
\* heal that fails or meets a busy tool - it is connected again in the end.
MeshRecovers == <>[](registry = "installed" => agent = "up")
=============================================================================
