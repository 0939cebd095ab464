---------------------------- MODULE ClientUpdate ----------------------------
(***************************************************************************)
(* The agent's update of itself, and the way back.  The agent downloads a  *)
(* version, records the update in update_state.json and launches a         *)
(* detached updater script; the script stops the service, swaps the        *)
(* binary, starts the service and waits for the boot marker of the new     *)
(* version, or restores the reserve binary.  The agent that comes up       *)
(* counts its boots, and once it is connected raises the last-known-good   *)
(* anchor and its reserve, or declares the update failed.                  *)
(*                                                                         *)
(* Versions are numbers in their semver order.  Some versions never reach  *)
(* their boot marker (Broken), some reach it and crash before they are     *)
(* connected (Flaky).  The agent writes a file with a temporary one and a  *)
(* rename, so that a crash leaves the old or the new one.  The script      *)
(* copies over the executable: until it is done, and when it fails, there  *)
(* is none that starts, and exe is None.                                   *)
(***************************************************************************)
EXTENDS Integers

CONSTANTS
    Versions,   \* the versions there are; the device starts with the lowest
    Broken,     \* the versions that never write their boot marker
    Flaky,      \* the versions that write it and never connect
    MaxBoots,   \* CRASH_LOOP_MAX_BOOT_ATTEMPTS
    MaxAsks,    \* bound: update messages published
    MaxFaults   \* bound: failing steps, crashes and losses of power

ASSUME UpdateAssumption ==
    /\ Versions \subseteq Nat \ {0} /\ Broken \subseteq Versions /\ Flaky \subseteq Versions
    /\ \E v \in Versions \ (Broken \cup Flaky) : \A w \in Versions : v <= w
    /\ MaxBoots \in Nat \ {0} /\ MaxAsks \in Nat /\ MaxFaults \in Nat

None == 0
First == CHOOSE v \in Versions : \A w \in Versions : v <= w

VARIABLES
    exe, prev, lkg,  \* the versions in the agent's executable, its .prev and its .lkg reserve
    anchor,          \* last_known_good.json
    marker,          \* the boot marker
    file,            \* update_state.json
    loaded,          \* the service manager keeps the service running
    pc, version,     \* the agent process: what it does next, the version it runs
    held,            \* the UpdateState it has in memory
    script,          \* the updater script
    copy,            \* what the script read to stamp a phase on it
    queue,           \* update messages not acknowledged
    asks, faults,
    \* history:
    started,         \* the versions that reached their boot marker
    unguarded        \* the versions whose update no anchor was there, or could be read, to refuse

disk == <<exe, prev, lkg, anchor, marker>>
history == <<started, unguarded>>
agent == <<pc, version, held>>
vars == <<disk, file, loaded, agent, script, copy, queue, asks, faults, history>>

\* "preparing" stands for Validating, Downloading, Extracting and PreparingUpdater,
\* which nothing tells apart.
Phases == {"preparing", "launched", "verifying", "rolled_back"}
Unverified == {"launched", "verifying"}
NoState == [target |-> None, phase |-> "none", boots |-> 0]
Stage(v, ph) == [target |-> v, phase |-> ph, boots |-> 0]
States == {NoState} \cup [target : Versions, phase : Phases, boots : 0..MaxBoots]

\* How the scripts ended so far: "done" (each did its work), "stood_down" (one took the
\* agent for uninstalled), "stuck" (a restore or a start of the service failed), "cut"
\* (one died with the machine's power).
Ends == {"done", "stood_down", "stuck", "cut"}
ScriptSteps == {"check", "stop", "move", "copy", "unmark", "start", "await", "verified",
                "stamp_verified", "preswap", "rollback", "restore", "restart", "rolled",
                "stamp_rolled"}
AgentSteps == {"start", "seed", "seed_anchor", "count", "count_save", "give_up", "connect",
               "pending", "promote", "promote_anchor", "resolve", "online", "download",
               "launch", "ack"}

TypeOK ==
    /\ {exe, prev, lkg, anchor, marker, version} \subseteq Versions \cup {None}
    /\ file \in States /\ held \in States /\ copy \in States
    /\ loaded \in BOOLEAN
    /\ pc \in {"down"} \cup AgentSteps
    /\ script \in [pc : {"off"} \cup ScriptSteps, target : Versions \cup {None},
                   only : BOOLEAN, end : Ends]
    /\ queue \subseteq Versions /\ asks \in 0..MaxAsks /\ faults \in 0..MaxFaults
    /\ started \subseteq Versions /\ unguarded \subseteq Versions

\* A device whose agent predates the anchor and the reserve.
Init ==
    /\ exe = First /\ prev = None /\ lkg = None /\ anchor = None /\ marker = None
    /\ file = NoState /\ loaded = TRUE
    /\ pc = "down" /\ version = None /\ held = NoState
    /\ script = [pc |-> "off", target |-> None, only |-> FALSE, end |-> "done"]
    /\ copy = NoState
    /\ queue = {} /\ asks = 0 /\ faults = 0 /\ started = {} /\ unguarded = {}

Fault(happens) ==
    /\ happens => faults < MaxFaults
    /\ faults' = IF happens THEN faults + 1 ELSE faults

\* Copying or checking the executable also fails where there is none.
ExeFault(fails) ==
    /\ ~fails => exe # None
    /\ Fault(fails /\ exe # None)

At(p) == pc = p
Go(p) == pc' = p /\ version' = version /\ held' = held

-----------------------------------------------------------------------------
(* Client::start, up to the listeners *)

\* A mutant: the reserve is filled in before the version has shown that it starts.
Boot_SeedsFirst ==
    /\ loaded /\ pc = "down" /\ exe # None
    /\ pc' = "start" /\ version' = exe /\ held' = NoState
    /\ lkg' = IF lkg = None THEN exe ELSE lkg
    /\ UNCHANGED <<exe, prev, anchor, marker, file, loaded, script, copy, queue, asks, faults, history>>

Boot ==
    /\ loaded /\ pc = "down" /\ exe # None
    /\ pc' = "start" /\ version' = exe /\ held' = NoState
    /\ UNCHANGED <<disk, file, loaded, script, copy, queue, asks, faults, history>>

\* A failing write is logged and the start-up goes on.
WriteBootMarker ==
    /\ At("start") /\ version \notin Broken
    /\ Go("seed") /\ started' = started \cup {version}
    /\ \E written \in BOOLEAN :
        /\ Fault(~written)
        /\ marker' = IF written THEN version ELSE marker
    /\ UNCHANGED <<exe, prev, lkg, anchor, file, loaded, script, copy, queue, asks, unguarded>>

\* An anchor that cannot be read counts as missing.  Copies the file at the executable's
\* path; errors are logged.
SeedIfMissing ==
    /\ At("seed")
    /\ \E readable, copied \in BOOLEAN :
        LET known   == IF readable THEN anchor ELSE None
            missing == known = None \/ lkg = None
        IN  /\ copied => missing /\ exe # None
            /\ Fault(~readable \/ (missing /\ exe # None /\ ~copied))
            /\ lkg' = IF copied THEN exe ELSE lkg
            /\ Go(IF copied /\ known \in {None, version} THEN "seed_anchor" ELSE "count")
    /\ UNCHANGED <<exe, prev, anchor, marker, file, loaded, script, copy, queue, asks, history>>

\* The targets of the update under way.
Pending == {file.target, copy.target} \ {None}

\* Over an anchor that could not be read, the version that runs may be a lower one, and
\* the update under way may be to one that is lower still.
SeedAnchor ==
    /\ At("seed_anchor")
    /\ \E works \in BOOLEAN :
        /\ Fault(~works)
        /\ anchor' = IF works THEN version ELSE anchor
        /\ unguarded' = IF works /\ anchor \notin {None, version}
                        THEN unguarded \cup {version} \cup Pending ELSE unguarded
    /\ Go("count")
    /\ UNCHANGED <<exe, prev, lkg, marker, file, loaded, script, copy, queue, asks, started>>

\* A boot of another version than the update's target, while the update is unverified,
\* is counted; at the limit the update is given up.  A state file that cannot be read or
\* removed ends it there.
RecordBootAttempt ==
    /\ At("count")
    /\ LET counts == file.phase \in Unverified /\ file.target # version
           over   == counts /\ file.boots >= MaxBoots
       IN  \/ /\ held' = IF counts /\ ~over THEN [file EXCEPT !.boots = @ + 1] ELSE NoState
              /\ pc' = IF over THEN "give_up" ELSE IF counts THEN "count_save" ELSE "connect"
              /\ file' = IF over THEN NoState ELSE file
              /\ Fault(FALSE)
           \/ counts /\ Fault(TRUE) /\ pc' = "connect" /\ held' = NoState /\ UNCHANGED file
    /\ UNCHANGED <<version, disk, loaded, script, copy, queue, asks, history>>

SaveBootAttempt ==
    /\ At("count_save")
    /\ \E saved \in BOOLEAN : Fault(~saved) /\ file' = IF saved THEN held ELSE file
    /\ Go("connect")
    /\ UNCHANGED <<disk, loaded, script, copy, queue, asks, history>>

\* An updater launched before is removed by the launcher.
Launched(v, only) == [script EXCEPT !.pc = "check", !.target = v, !.only = only]

LaunchReserveRollback ==
    /\ At("give_up")
    /\ \E works \in BOOLEAN :
        /\ Fault(~works)
        /\ script' = IF works THEN Launched(version, TRUE) ELSE script
    /\ Go("connect")
    /\ UNCHANGED <<disk, file, loaded, copy, queue, asks, history>>

\* The registration, the first authentication and the connection to NATS.
Connect ==
    /\ At("connect") /\ version \notin Flaky
    /\ Go("pending")
    /\ UNCHANGED <<disk, file, loaded, script, copy, queue, asks, faults, history>>

\* Also here a state file that cannot be read or removed ends it.
HandlePendingUpdate ==
    /\ At("pending")
    /\ \/ /\ Fault(FALSE)
          /\ CASE file = NoState                 -> Go("online") /\ UNCHANGED file
               [] file.target = version          -> /\ pc' = "promote" /\ held' = file
                                                    /\ UNCHANGED <<version, file>>
               [] file.target # version /\ file.phase \in Unverified
                                                 -> Go("online") /\ UNCHANGED file
               [] OTHER                          -> Go("online") /\ file' = NoState
       \/ file # NoState /\ Fault(TRUE) /\ Go("online") /\ UNCHANGED file
    /\ UNCHANGED <<disk, loaded, script, copy, queue, asks, history>>

\* handle_success: the reserve first, the anchor next; a failure keeps what there is.
PromoteReserve ==
    /\ At("promote")
    /\ \E works \in BOOLEAN :
        /\ ExeFault(~works)
        /\ lkg' = IF works THEN exe ELSE lkg
        /\ Go(IF works THEN "promote_anchor" ELSE "resolve")
    /\ UNCHANGED <<exe, prev, anchor, marker, file, loaded, script, copy, queue, asks, history>>

PromoteAnchor ==
    /\ At("promote_anchor")
    /\ \E works \in BOOLEAN :
        /\ Fault(~works)
        /\ anchor' = IF works THEN held.target ELSE anchor
    /\ Go("resolve")
    /\ UNCHANGED <<exe, prev, lkg, marker, file, loaded, script, copy, queue, asks, history>>

\* The version and the status are recorded, the backend told, leftovers removed, and the
\* state cleared, unless that fails.
ResolveUpdate ==
    /\ At("resolve")
    /\ \E cleared \in BOOLEAN : Fault(~cleared) /\ file' = IF cleared THEN NoState ELSE file
    /\ Go("online")
    /\ UNCHANGED <<disk, loaded, script, copy, queue, asks, history>>

-----------------------------------------------------------------------------
(* OpenFrameClientUpdateService::process_update *)

\* The update begins: the state is saved, and then the status, or the update fails there.
BeginUpdate(v) ==
    /\ file' = Stage(v, "preparing") /\ held' = Stage(v, "preparing")
    /\ \E recorded \in BOOLEAN :
        /\ Fault(~recorded)
        /\ pc' = IF recorded THEN "download" ELSE "online"
    /\ UNCHANGED <<version, queue>>

\* A mutant: no downgrade guard.
ReceiveUpdate_AnyVersion ==
    /\ At("online")
    /\ \E v \in queue :
        IF v = version
        THEN queue' = queue \ {v} /\ UNCHANGED <<agent, file, unguarded, faults>>
        ELSE /\ BeginUpdate(v)
             /\ unguarded' = IF anchor = None THEN unguarded \cup {v} ELSE unguarded
    /\ UNCHANGED <<disk, loaded, script, copy, asks, started>>

\* The running version and one below the anchor are refused, and acknowledged.  An anchor
\* that cannot be read or parsed refuses nothing.
ReceiveUpdate ==
    /\ At("online")
    /\ \E v \in queue :
        \/ /\ v = version \/ v < anchor
           /\ queue' = queue \ {v} /\ UNCHANGED <<agent, file, unguarded, faults>>
        \/ /\ v # version /\ v >= anchor
           /\ BeginUpdate(v)
           /\ unguarded' = IF anchor = None THEN unguarded \cup {v} ELSE unguarded
        \/ /\ v # version /\ v < anchor /\ Fault(TRUE)
           /\ file' = Stage(v, "preparing") /\ held' = Stage(v, "preparing")
           /\ pc' = "download" /\ UNCHANGED <<version, queue>>
           /\ unguarded' = unguarded \cup {v}
    /\ UNCHANGED <<disk, loaded, script, copy, asks, started>>

\* Without a configuration for this system, or when it cannot be saved or removed, the
\* state file stays; a failing download or archive clears it.  The message is not
\* acknowledged.
Download ==
    /\ At("download")
    /\ \E outcome \in {"done", "kept", "cleared"} :
        /\ Fault(outcome # "done")
        /\ file' = CASE outcome = "done"    -> Stage(held.target, "launched")
                     [] outcome = "kept"    -> file
                     [] outcome = "cleared" -> NoState
        /\ Go(IF outcome = "done" THEN "launch" ELSE "online")
    /\ UNCHANGED <<disk, loaded, script, copy, queue, asks, history>>

LaunchUpdater ==
    /\ At("launch")
    /\ \E works \in BOOLEAN :
        /\ Fault(~works)
        /\ script' = IF works THEN Launched(held.target, FALSE) ELSE script
        /\ file' \in IF works THEN {file} ELSE {NoState, file}
        /\ Go(IF works THEN "ack" ELSE "online")
    /\ UNCHANGED <<disk, loaded, copy, queue, asks, history>>

AcknowledgeUpdate ==
    /\ At("ack")
    /\ \E acked \in BOOLEAN :
        Fault(~acked) /\ queue' = IF acked THEN queue \ {held.target} ELSE queue
    /\ Go("online")
    /\ UNCHANGED <<disk, file, loaded, script, copy, asks, history>>

PublishUpdate ==
    /\ asks < MaxAsks /\ asks' = asks + 1
    /\ \E v \in Versions : queue' = queue \cup {v}
    /\ UNCHANGED <<disk, file, loaded, agent, script, copy, faults, history>>

-----------------------------------------------------------------------------
(* The updater script *)

On(p) == script.pc = p
Then(p) == script' = [script EXCEPT !.pc = p]
Over(e) == script' = [script EXCEPT !.pc = "off", !.end = IF e = "done" THEN @ ELSE e]
Killed == pc' = "down" /\ version' = None /\ held' = NoState

\* agent_uninstalled: no state file, and this is no rollback the agent asked for.
AgentUninstalled == ~script.only /\ file = NoState

ScriptChecks ==
    /\ On("check")
    /\ IF script.only
       THEN Then("rollback") /\ UNCHANGED faults
       ELSE \E valid \in BOOLEAN : ExeFault(~valid) /\ Then(IF valid THEN "stop" ELSE "preswap")
    /\ UNCHANGED <<disk, file, loaded, agent, copy, queue, asks, history>>

\* The service is gone, or is still there after thirty seconds.
ScriptStops ==
    /\ On("stop")
    /\ \E stopped \in BOOLEAN :
        /\ Fault(~stopped)
        /\ IF stopped THEN loaded' = FALSE /\ Killed ELSE UNCHANGED <<loaded, agent>>
        /\ Then(IF stopped THEN "move" ELSE "preswap")
    /\ UNCHANGED <<disk, file, copy, queue, asks, history>>

\* A mutant: the old binary is deleted, not moved aside.
ScriptMoves_Deletes ==
    /\ On("move")
    /\ exe' = None /\ UNCHANGED <<prev, faults>> /\ Then("copy")
    /\ UNCHANGED <<lkg, anchor, marker, file, loaded, agent, copy, queue, asks, history>>

\* On Windows the archive is unpacked first; either may fail, before the swap.
ScriptMoves ==
    /\ On("move")
    /\ \E works \in BOOLEAN :
        /\ Fault(~works)
        /\ IF works THEN prev' = exe /\ exe' = None ELSE UNCHANGED <<exe, prev>>
        /\ Then(IF works THEN "copy" ELSE "preswap")
    /\ UNCHANGED <<lkg, anchor, marker, file, loaded, agent, copy, queue, asks, history>>

ScriptCopies ==
    /\ On("copy")
    /\ \E works \in BOOLEAN :
        /\ Fault(~works)
        /\ exe' = IF works THEN script.target ELSE exe
        /\ Then(IF works THEN "unmark" ELSE "rollback")
    /\ UNCHANGED <<prev, lkg, anchor, marker, file, loaded, agent, copy, queue, asks, history>>

ScriptUnmarks ==
    /\ On("unmark")
    /\ marker' = None
    /\ Then("start")
    /\ UNCHANGED <<exe, prev, lkg, anchor, file, loaded, agent, copy, queue, asks, faults, history>>

ScriptStarts ==
    /\ On("start")
    /\ \E works \in BOOLEAN :
        /\ Fault(~works)
        /\ loaded' = works
        /\ Then(IF works THEN "await" ELSE "rollback")
    /\ UNCHANGED <<disk, file, agent, copy, queue, asks, history>>

\* A mutant: a service that runs is good enough.
AwaitMarker_Trusting ==
    /\ On("await")
    /\ Then("verified")
    /\ UNCHANGED <<disk, file, loaded, agent, copy, queue, asks, faults, history>>

\* The marker names the target, or another version, or does not appear in time.
AwaitMarker ==
    /\ On("await")
    /\ Then(IF marker = script.target THEN "verified" ELSE "rollback")
    /\ UNCHANGED <<disk, file, loaded, agent, copy, queue, asks, faults, history>>

\* set_update_phase reads the state file, writes a copy with the new phase aside and
\* renames it: what the agent wrote in between is lost.
StampRead ==
    /\ script.pc \in {"verified", "rolled"}
    /\ copy' = file
    /\ IF file = NoState
       THEN Over("done")
       ELSE Then(IF On("verified") THEN "stamp_verified" ELSE "stamp_rolled")
    /\ UNCHANGED <<disk, file, loaded, agent, queue, asks, faults, history>>

\* The rename is made even over a file the agent has just removed; it may fail.
StampWrite ==
    /\ script.pc \in {"stamp_verified", "stamp_rolled"}
    /\ \E written \in BOOLEAN :
        /\ Fault(~written)
        /\ file' = IF ~written THEN file
                   ELSE [copy EXCEPT !.phase = IF On("stamp_verified") THEN "verifying"
                                                                       ELSE "rolled_back"]
    /\ copy' = NoState
    /\ Over("done")
    /\ UNCHANGED <<disk, loaded, agent, queue, asks, history>>

\* Before the swap: the service is started again with the binary it had.
FailPreswap ==
    /\ On("preswap")
    /\ IF AgentUninstalled
       THEN Over("stood_down") /\ UNCHANGED <<loaded, faults>>
       ELSE \E works \in BOOLEAN :
            /\ Fault(~works) /\ (~works => ~loaded)
            /\ loaded' = works
            /\ Over(IF works THEN "done" ELSE "stuck")
    /\ UNCHANGED <<disk, file, agent, copy, queue, asks, history>>

\* After it: the service is stopped (or not: the script goes on) ...
FailRollback ==
    /\ On("rollback")
    /\ IF AgentUninstalled
       THEN Over("stood_down") /\ UNCHANGED <<loaded, agent, faults>>
       ELSE \E stopped \in BOOLEAN :
            /\ Fault(~stopped)
            /\ IF stopped THEN loaded' = FALSE /\ Killed ELSE UNCHANGED <<loaded, agent>>
            /\ Then("restore")
    /\ UNCHANGED <<disk, file, copy, queue, asks, history>>

RestoreSource == IF lkg # None THEN lkg ELSE prev

\* ... the reserve, or else the copy of before the swap, is put in place, in up to three
\* attempts that remove what was there first ...
RestoreReserve ==
    /\ On("restore")
    /\ IF RestoreSource = None
       THEN Over("stuck") /\ loaded' = TRUE /\ UNCHANGED <<exe, faults>>
       ELSE \E works \in BOOLEAN :
            /\ Fault(~works)
            /\ exe' = IF works THEN RestoreSource ELSE None
            /\ IF works THEN Then("restart") /\ UNCHANGED loaded
                        ELSE Over("stuck") /\ loaded' = TRUE
    /\ UNCHANGED <<prev, lkg, anchor, marker, file, agent, copy, queue, asks, history>>

\* ... and the service is started.
RestartService ==
    /\ On("restart")
    /\ \E works \in BOOLEAN :
        /\ Fault(~works) /\ (~works => ~loaded)
        /\ loaded' = works
        /\ IF works THEN Then("rolled") ELSE Over("stuck")
    /\ UNCHANGED <<disk, file, agent, copy, queue, asks, history>>

-----------------------------------------------------------------------------
(* Faults *)

Doomed == (pc = "start" /\ version \in Broken) \/ (pc = "connect" /\ version \in Flaky)

\* The service manager starts the process again.  Versions that cannot live crash for good.
Crash ==
    /\ pc # "down" /\ Fault(~Doomed)
    /\ Killed
    /\ UNCHANGED <<disk, file, loaded, script, copy, queue, asks, history>>

\* The service comes back with the machine, the script does not, and what it was copying
\* over the executable is cut short.
PowerLoss ==
    /\ Fault(TRUE)
    /\ exe' \in {exe, IF On("restore") /\ RestoreSource # None THEN None ELSE exe}
    /\ Killed /\ loaded' = TRUE /\ copy' = NoState
    /\ script' = IF script.pc = "off" THEN script ELSE [script EXCEPT !.pc = "off", !.end = "cut"]
    /\ UNCHANGED <<prev, lkg, anchor, marker, file, queue, asks, history>>

AgentStep ==
    \/ Boot \/ WriteBootMarker \/ SeedIfMissing \/ SeedAnchor \/ RecordBootAttempt
    \/ SaveBootAttempt \/ LaunchReserveRollback \/ Connect \/ HandlePendingUpdate
    \/ PromoteReserve \/ PromoteAnchor \/ ResolveUpdate \/ ReceiveUpdate \/ Download
    \/ LaunchUpdater \/ AcknowledgeUpdate
ScriptStep ==
    \/ ScriptChecks \/ ScriptStops \/ ScriptMoves \/ ScriptCopies \/ ScriptUnmarks
    \/ ScriptStarts \/ AwaitMarker \/ StampRead \/ StampWrite \/ FailPreswap
    \/ FailRollback \/ RestoreReserve \/ RestartService
Next == AgentStep \/ ScriptStep \/ PublishUpdate \/ Crash \/ PowerLoss

\* The process and the script run when they can, and a version that cannot live does not.
\* Other crashes, losses of power and update messages need not happen.
Fairness == WF_vars(AgentStep) /\ WF_vars(ScriptStep) /\ WF_vars(Doomed /\ Crash)
Spec == Init /\ [][Next]_vars /\ Fairness

-----------------------------------------------------------------------------
(* Properties *)

\* The reserve only ever holds a version that reached its boot marker: a rollback never
\* restores a binary that cannot start, whatever was interrupted on the way.
ReserveStarted == lkg # None => lkg \in started

\* Whatever is cut short, a binary that can start is on the disk: in place, in the reserve
\* or in the copy of before the swap.
Recoverable == \E v \in {exe, prev, lkg} : v \in Versions \ Broken

\* The last-known-good anchor never falls, so that a refused downgrade stays refused,
\* except to a version whose update began while no anchor was there, or could be read, to
\* refuse it; or that ran, or was about to, when seed_if_missing wrote the anchor over one
\* it could not read.
AnchorNeverFalls == [][anchor' >= anchor \/ anchor' \in unguarded']_anchor

\* What the downgrade guard is for.
AnchorStands == [][anchor' >= anchor]_anchor

\* If every updater script runs to its end, a version that can start comes up again and
\* again: one that cannot is not left in place.
ComesBack == <>(script.end # "done") \/ []<>(pc \notin {"down", "start"})

\* "Update state file is gone (agent uninstalled mid-update)": the script stands down only
\* for an agent that was uninstalled, and nothing here uninstalls it.
StandsDownForUninstallOnly == script.end # "stood_down"
=============================================================================
