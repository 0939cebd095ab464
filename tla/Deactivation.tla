---------------------------- MODULE Deactivation ----------------------------
(***************************************************************************)
(* DeactivationService of openframe-client: what the agent concludes from  *)
(* the statuses of its gateway calls.  410 Gone again and again suspends   *)
(* the agent and stops its tools, a 2xx brings both back, and a tenant     *)
(* that stays gone past a deadline makes the agent uninstall itself.       *)
(*                                                                         *)
(* The callers are two tasks: "loop" (the initial authentication, then the *)
(* token refresh loop) and "nats" (the reauthentication callback of the    *)
(* NATS connection).  A timestamp is kept as its age, counted up to the    *)
(* limit it is compared with: past it, ages cannot be told apart.          *)
(***************************************************************************)
EXTENDS Integers, Sequences, FiniteSets

CONSTANTS
    StopAfter,       \* STOP_TOOLS_AFTER_CONSECUTIVE_GONE
    UninstallAfter,  \* UNINSTALL_AFTER, in ticks
    Grace,           \* POST_RESTART_GRACE, in ticks
    BackoffMax,      \* PROBE_BACKOFF_MAX, in units of PROBE_BACKOFF_INITIAL
    SpawnAttempts,   \* UNINSTALL_SPAWN_ATTEMPTS
    MaxFaults        \* bound: failing file operations and spawns, timeouts, lost
                     \* connections, clock jumps, restarts

ASSUME LimitsAssumption ==
    /\ StopAfter \in Nat \ {0} /\ UninstallAfter \in Nat \ {0} /\ Grace \in Nat
    /\ BackoffMax \in Nat \ {0} /\ SpawnAttempts \in Nat \ {0} /\ MaxFaults \in Nat

Callers == {"loop", "nats"}
None == -1      \* no timestamp
Ages == {None} \cup 0..UninstallAfter

VARIABLES
    up,            \* the agent process runs
    \* State of DeactivationService:
    phase, consecutive, goneSince, backoff, triggered,
    elapsed,       \* age of process_started, up to Grace
    due,           \* callers between the two critical sections of record_gone
    commands,      \* the queue to the supervisor
    attempts,      \* spawns of the uninstaller still to try
    launched,      \* the detached uninstaller runs
    \* of ToolRunManager:
    shuttingDown,  \* shutting_down
    supervised,    \* run() has started the tools
    marker,        \* the file tenant_gone_since
    faults,
    \* history, read by no action:
    goneFor,       \* how long every recorded status has been 410, up to UninstallAfter
    trusted,       \* no clock jump, no marker that could not be removed
    reprieved      \* a 2xx was recorded between a decision and its request_uninstall

process == <<phase, consecutive, goneSince, backoff, triggered, elapsed>>
toolManager == <<shuttingDown, supervised>>
history == <<goneFor, trusted, reprieved>>
deactivationVars == <<up, process, due, commands, attempts, launched, toolManager,
                      marker, faults, history>>

is_suspended == phase = "Suspended"

Fault(happens) ==
    /\ happens => faults < MaxFaults
    /\ faults' = IF happens THEN faults + 1 ELSE faults

\* DeactivationService::new in a fresh process.
NewProcess ==
    /\ phase' = "Healthy" /\ consecutive' = 0 /\ goneSince' = marker
    /\ backoff' = 1 /\ triggered' = FALSE /\ elapsed' = 0
    /\ due' = {} /\ commands' = <<>> /\ attempts' = 0
    /\ shuttingDown' = FALSE /\ supervised' = FALSE /\ reprieved' = FALSE

DeactivationInit ==
    /\ up = TRUE /\ phase = "Healthy" /\ consecutive = 0 /\ goneSince = None
    /\ backoff = 1 /\ triggered = FALSE /\ elapsed = 0
    /\ due = {} /\ commands = <<>> /\ attempts = 0 /\ launched = FALSE
    /\ shuttingDown = FALSE /\ supervised = FALSE /\ marker = None /\ faults = 0
    /\ goneFor = None /\ trusted = TRUE /\ reprieved = FALSE

TypeOK ==
    /\ up \in BOOLEAN
    /\ phase \in {"Healthy", "Suspended"} /\ consecutive \in Nat
    /\ goneSince \in Ages /\ marker \in Ages /\ goneFor \in Ages
    /\ backoff \in 1..BackoffMax /\ elapsed \in 0..Grace
    /\ triggered \in BOOLEAN /\ launched \in BOOLEAN /\ trusted \in BOOLEAN
    /\ reprieved \in BOOLEAN
    /\ due \subseteq Callers /\ attempts \in 0..SpawnAttempts
    /\ commands \in Seq({"StopTools", "RestartTools", "Uninstall"})
    /\ shuttingDown \in BOOLEAN /\ supervised \in BOOLEAN
    /\ faults \in 0..MaxFaults

-----------------------------------------------------------------------------
(* Time *)

Lower(a, b) == IF a < b THEN a ELSE b
Older(age, by) == IF age = None THEN None ELSE Lower(age + by, UninstallAfter)

Tick ==
    /\ goneSince' = Older(goneSince, 1) /\ marker' = Older(marker, 1)
    /\ goneFor' = Older(goneFor, 1)
    /\ elapsed' = IF up THEN Lower(elapsed + 1, Grace) ELSE elapsed
    /\ UNCHANGED <<up, phase, consecutive, backoff, triggered, due, commands, attempts,
                   launched, toolManager, faults, trusted, reprieved>>

\* The wall clock is set forward; the monotonic process_started is not.
ClockJumps ==
    /\ Fault(TRUE)
    /\ goneSince' = Older(goneSince, UninstallAfter)
    /\ marker' = Older(marker, UninstallAfter)
    /\ trusted' = FALSE
    /\ UNCHANGED <<up, phase, consecutive, backoff, triggered, elapsed, due, commands,
                   attempts, launched, toolManager, goneFor, reprieved>>

-----------------------------------------------------------------------------
(* on_gateway_status *)

uninstall_due(ph, since) ==
    ph = "Suspended" /\ since # None /\ since >= UninstallAfter /\ elapsed >= Grace

\* record_gone up to the point where it drops the lock.  The counter saturates at
\* the number it is compared with.  save_marker only warns when it fails.
record_gone(c) ==
    IF triggered THEN UNCHANGED deactivationVars ELSE
    LET first == goneSince = None
        since == IF first THEN 0 ELSE goneSince
        count == Lower(consecutive + 1, StopAfter)
        suspends == ~is_suspended /\ count >= StopAfter
        ph == IF suspends THEN "Suspended" ELSE phase
    IN  \E saved \in BOOLEAN :
        /\ Fault(first /\ ~saved)
        /\ goneSince' = since
        /\ marker' = IF first /\ saved THEN 0 ELSE marker
        /\ consecutive' = count
        /\ phase' = ph
        /\ backoff' = IF suspends THEN 1 ELSE backoff
        /\ commands' = IF suspends THEN Append(commands, "StopTools") ELSE commands
        /\ due' = IF uninstall_due(ph, since) THEN due \cup {c} ELSE due
        /\ goneFor' = IF goneFor = None THEN 0 ELSE goneFor
        /\ UNCHANGED <<up, triggered, elapsed, attempts, launched, toolManager, trusted,
                       reprieved>>

\* A mutant: the marker outlives the 2xx.
record_healthy_KeepsMarker ==
    IF triggered THEN UNCHANGED deactivationVars ELSE
    /\ consecutive' = 0 /\ goneSince' = None /\ backoff' = 1 /\ phase' = "Healthy"
    /\ commands' = IF is_suspended THEN Append(commands, "RestartTools") ELSE commands
    /\ goneFor' = None /\ reprieved' = (reprieved \/ due # {})
    /\ UNCHANGED <<up, triggered, elapsed, due, attempts, launched, toolManager, marker,
                   faults, trusted>>

\* remove_marker only warns when it fails.
record_healthy ==
    IF triggered THEN UNCHANGED deactivationVars ELSE
    LET had_marker == goneSince # None /\ marker # None
    IN  \E removed \in BOOLEAN :
        /\ Fault(had_marker /\ ~removed)
        /\ consecutive' = 0 /\ goneSince' = None /\ backoff' = 1
        /\ marker' = IF had_marker /\ removed THEN None ELSE marker
        /\ trusted' = (trusted /\ (had_marker => removed))
        /\ phase' = "Healthy"
        /\ commands' = IF is_suspended THEN Append(commands, "RestartTools") ELSE commands
        /\ goneFor' = None /\ reprieved' = (reprieved \/ due # {})
        /\ UNCHANGED <<up, triggered, elapsed, due, attempts, launched, toolManager>>

on_gateway_status(c, status) ==
    CASE status = "gone" -> record_gone(c)
      [] status = "ok" -> record_healthy
      [] OTHER -> UNCHANGED deactivationVars

\* The second critical section of record_gone.
request_uninstall(c) ==
    /\ c \in due
    /\ due' = due \ {c}
    /\ triggered' = TRUE
    /\ commands' = IF triggered THEN commands ELSE Append(commands, "Uninstall")
    /\ UNCHANGED <<up, phase, consecutive, goneSince, backoff, elapsed, attempts, launched,
                   toolManager, marker, faults, history>>

\* The delay before the next probe is handed out, and the one after it doubles.
next_probe_delay ==
    /\ backoff' = Lower(backoff * 2, BackoffMax)
    /\ UNCHANGED <<up, phase, consecutive, goneSince, triggered, elapsed, due, commands,
                   attempts, launched, toolManager, marker, faults, history>>

-----------------------------------------------------------------------------
(* The supervisor takes one command at a time. *)

Takes(cmd) == up /\ attempts = 0 /\ commands # <<>> /\ Head(commands) = cmd

\* stop_all raises the flag that ends every supervisor loop before anything can fail.
StopTools ==
    /\ Takes("StopTools")
    /\ commands' = Tail(commands)
    /\ shuttingDown' = TRUE /\ supervised' = FALSE
    /\ UNCHANGED <<up, process, due, attempts, launched, marker, faults, history>>

\* A mutant: restart_all leaves the flag of stop_all set.
RestartTools_FlagStays ==
    /\ Takes("RestartTools")
    /\ commands' = Tail(commands)
    /\ supervised' = TRUE
    /\ UNCHANGED <<up, process, due, attempts, launched, shuttingDown, marker, faults,
                   history>>

\* restart_all lowers it; run() fails when the registry cannot be read.
RestartTools ==
    /\ Takes("RestartTools")
    /\ commands' = Tail(commands)
    /\ shuttingDown' = FALSE
    /\ \E ran \in BOOLEAN : Fault(~ran) /\ supervised' = ran
    /\ UNCHANGED <<up, process, due, attempts, launched, marker, history>>

Uninstall ==
    /\ Takes("Uninstall")
    /\ commands' = Tail(commands)
    /\ attempts' = SpawnAttempts
    /\ UNCHANGED <<up, process, due, launched, toolManager, marker, faults, history>>

\* launch_self_uninstall: the detached uninstaller starts, or the spawn fails and is
\* tried again until the attempts are used up.
SpawnUninstaller ==
    /\ up /\ attempts > 0
    /\ \E spawned \in BOOLEAN :
        /\ Fault(~spawned)
        /\ launched' = (launched \/ spawned)
        /\ attempts' = IF spawned THEN 0 ELSE attempts - 1
    /\ UNCHANGED <<up, process, due, commands, toolManager, marker, history>>

-----------------------------------------------------------------------------
(* Properties *)

\* An agent that decided to uninstall itself is suspended, has run for the grace period
\* and had StopAfter 410s in this process, and its tenant has answered nothing but 410
\* for the whole of UNINSTALL_AFTER, whatever restarts lie in between (uninstall_due,
\* load_marker).  A clock set forward or a marker that could not be removed can shorten
\* the last of the three, never the others; a 2xx between the decision and
\* request_uninstall is not heeded.
FoundedUninstall ==
    (triggered \/ due # {}) /\ ~reprieved =>
        /\ is_suspended /\ elapsed >= Grace /\ consecutive >= StopAfter
        /\ trusted => goneFor = UninstallAfter

\* What the service promises: the agent never triggers the uninstall while the last
\* status it recorded says that its tenant is healthy.
NeverWipesRestored == triggered => is_suspended

\* The tools go the way of the phase: the last command still queued, or else the flag
\* of the tool manager, says stop exactly when the agent is suspended (the send under
\* the state lock, the FIFO supervisor).
NoOrder(i, j) == \A k \in i..j : commands[k] = "Uninstall"
LastOrder ==
    \/ \E i \in 1..Len(commands) :
          commands[i] = "StopTools" /\ NoOrder(i + 1, Len(commands))
    \/ shuttingDown /\ NoOrder(1, Len(commands))
ToolsFollowPhase == LastOrder <=> is_suspended
=============================================================================
