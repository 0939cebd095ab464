----------------------------- MODULE ToolUpdate -----------------------------
(***************************************************************************)
(* Replacing the program of one installed tool: the updaters of            *)
(* platform/tool_updater (a supervised program and a service on Windows,   *)
(* an application bundle on macOS), the migration of a program to an       *)
(* application, the older update without a download configuration, the     *)
(* tool's asset, and a reinstallation, over the service control of module  *)
(* ServiceControl.  One operation runs at a time: updates take no lock,    *)
(* and ToolLifecycle has their overlaps with the other operations.  A      *)
(* message whose handling fails is delivered again, up to MaxDeliver times.*)
(***************************************************************************)
EXTENDS ServiceControl

CONSTANTS
    Target,      \* the version the messages ask for, of the tool and of its asset
    MaxDeliver   \* deliveries of a message

ASSUME ToolUpdateAssumption == Target \in Versions /\ MaxDeliver \in Nat \ {0}

First == CHOOSE v \in Versions : \A w \in Versions : v <= w

VARIABLES
    kind,     \* the recorded installation: "standard", "service" or "gui"
    goal,     \* the type the update message asks for, or "legacy"; never changes
    old,      \* the program moved aside, ".old"
    backup,   \* its copy, ".backup"
    version, repairing,   \* of the record: its version, state Installing
    asset, assetVersion,  \* the asset's file and its recorded version
    op,       \* the operation under way
    left,     \* deliveries left of each message
    userIn,   \* somebody is logged in at the console
    \* history, read by no action:
    spoiled,  \* a write was cut short, or a bundle removed, with nothing put back
    condemned \* a reinstallation has called for the deletion of the registered service

record == <<kind, version, repairing, assetVersion>>
aside == <<old, backup, asset>>
history == <<spoiled, condemned>>
vars == <<service, record, goal, aside, op, left, userIn, history>>

Messages == {"update", "reinstall"}
Cases == {<<"standard", "standard">>, <<"standard", "legacy">>, <<"standard", "gui">>,
          <<"standard", "service">>, <<"service", "service">>, <<"gui", "gui">>}
NoOp == [name |-> "none", at |-> "idle", tool |-> FALSE, repair |-> FALSE, saved |-> FALSE]
Steps == {"idle", "adopt", "stop", "stopping", "kill", "backup", "download", "create", "fill",
          "remove", "extract", "launch", "finalize", "starting", "remediate", "rekill",
          "restart", "rollback", "restarting", "record", "asset", "end", "fail",
          "wipe", "clear", "fetch", "register", "verify", "enter", "hung"}

TypeOK ==
    /\ ControlTypeOK
    /\ <<kind, goal>> \in Cases \cup {<<"service", "service">>, <<"gui", "gui">>}
    /\ \A f \in {old, backup, asset} : f \in {None, Torn} \cup Versions
    /\ version \in Versions /\ repairing \in BOOLEAN /\ assetVersion \in {None} \cup Versions
    /\ op \in [name : {"none"} \cup Messages, at : Steps, tool : BOOLEAN, repair : BOOLEAN,
               saved : BOOLEAN]
    /\ left \in [Messages -> 0..MaxDeliver]
    /\ userIn \in BOOLEAN /\ spoiled \in BOOLEAN /\ condemned \in BOOLEAN

\* The tool runs in its first version.  A service may be there for a tool recorded as a
\* plain program.
Init ==
    /\ \E c \in Cases : kind = c[1] /\ goal = c[2]
    /\ svc \in IF kind = "service" THEN {"running"}
               ELSE IF goal = "service" THEN {"missing", "stopped"} ELSE {"missing"}
    /\ marked = FALSE /\ wedged = "no" /\ recover = FALSE
    /\ late = [c \in Calls |-> 0] /\ free = Permits /\ ctl = Idle
    /\ exec = First /\ run = [p \in Places |-> IF p = "exec" THEN First ELSE None]
    /\ faults = 0
    /\ old = None /\ backup = None /\ asset = First
    /\ version = First /\ repairing = FALSE /\ assetVersion = First
    /\ op = NoOp
    /\ left \in [Messages -> {0, MaxDeliver}]
    /\ userIn = FALSE /\ spoiled = FALSE /\ condemned = FALSE

At(step) == op.at = step
Then(step) == op' = [op EXCEPT !.at = step]
Single == kind # "gui" /\ goal \notin {"gui", "legacy"}    \* one program file, backed up

\* clear_aside_binary: the file goes unless a process runs from it.
AsideLocked == old # None /\ run["old"] # None
Cleared == old' = IF AsideLocked THEN old ELSE None

-----------------------------------------------------------------------------
(* process_update *)

\* What is there to do: a record left Installing or without its program is repaired.
\* No installation record changes for a message that has nothing to do.
ReceiveUpdate ==
    /\ At("idle") /\ left["update"] > 0
    /\ LET repair == repairing \/ exec = None
           tool == repair \/ version # Target
       IN  IF ~tool /\ assetVersion = Target THEN
                left' = [left EXCEPT !["update"] = 0] /\ UNCHANGED <<op, repairing>>
           ELSE /\ left' = [left EXCEPT !["update"] = @ - 1]
                /\ repairing' = repair
                /\ op' = [name |-> "update", tool |-> tool, repair |-> repair, saved |-> FALSE,
                          at |-> IF tool /\ goal = "service" /\ kind = "standard" THEN "adopt"
                                 ELSE "stop"]
    /\ UNCHANGED <<service, kind, version, assetVersion, goal, aside, userIn, history>>

\* A query of the SCM without a time limit: it never returns.
Hangs == Fault(TRUE) /\ Then("hung")

\* A tool recorded as a program whose service exists (service_exists) is recorded as a
\* service; without the service there is no way to migrate it.
DetectService ==
    /\ At("adopt")
    /\ \/ Hangs /\ UNCHANGED kind
       \/ \E written \in BOOLEAN :
            /\ Fault(svc # "missing" /\ ~written)
            /\ kind' = IF svc # "missing" /\ written THEN "service" ELSE kind
            /\ Then(IF svc # "missing" /\ written THEN "stop" ELSE "fail")
    /\ UNCHANGED <<control, exec, run, version, repairing, assetVersion, goal, aside, left,
                   userIn, history>>

\* A mutant: the update allows the deletion of a wedged service, as an installation does.
StopForUpdate_Deletes ==
    /\ At("stop")
    /\ IF kind = "service" /\ op.tool THEN stop_service(TRUE) /\ Then("stopping")
       ELSE Then("kill") /\ UNCHANGED ctl
    /\ UNCHANGED <<scm, late, free, exec, run, faults, record, goal, aside, left,
                   userIn, history>>

\* prepare: a service is stopped through the SCM first, and never deleted.
StopForUpdate ==
    /\ At("stop")
    /\ IF kind = "service" /\ op.tool THEN stop_service(FALSE) /\ Then("stopping")
       ELSE Then("kill") /\ UNCHANGED ctl
    /\ UNCHANGED <<scm, late, free, exec, run, faults, record, goal, aside, left,
                   userIn, history>>

\* stop_tool: fatal except for a service, whose update goes on over a survivor.  An
\* update of the asset only stops the tool and goes on to the asset.
KillForUpdate ==
    /\ At("kill") /\ Kill(Places)
    /\ LET survivor == \E p \in Places : run'[p] # None
       IN  Then(IF survivor /\ ~(kind = "service" /\ op.tool) THEN "fail"
                ELSE IF ~op.tool THEN "asset"
                ELSE IF kind = "gui" \/ goal = "gui" THEN "remove" ELSE "backup")
    /\ UNCHANGED <<late, free, ctl, exec, record, goal, aside, left, userIn, history>>

\* backup_binary, over what an interrupted update may have left there.
BackupBinary ==
    /\ At("backup")
    /\ IF goal = "legacy" THEN UNCHANGED old ELSE Cleared
    /\ \E copied \in BOOLEAN :
        /\ Fault(~copied)
        /\ backup' \in IF exec = None THEN {backup} ELSE IF copied THEN {exec} ELSE {backup, Torn}
        /\ op' = [op EXCEPT !.at = IF copied THEN "download" ELSE "fail",
                            !.saved = exec # None /\ copied]
    /\ UNCHANGED <<control, exec, run, record, goal, asset, left, userIn, history>>

\* The archive is downloaded before the program file is touched.  The older update has
\* no rollback.
Download ==
    /\ At("download")
    /\ \E fetched \in BOOLEAN :
        /\ Fault(~fetched)
        /\ Then(IF fetched THEN "create" ELSE IF goal = "legacy" THEN "fail" ELSE "rollback")
    /\ UNCHANGED <<control, exec, run, record, goal, aside, left, userIn, history>>

\* write_executable, File::create: a program in use is moved aside, unless an older one
\* is still in use there.  The older update only creates the file.
CreateBinary ==
    /\ At("create")
    /\ IF run["exec"] = None THEN
            exec' = Torn /\ Then("fill") /\ UNCHANGED <<run, old>>
       ELSE IF goal # "legacy" /\ ~AsideLocked THEN
            /\ old' = exec /\ run' = [run EXCEPT !["old"] = run["exec"], !["exec"] = None]
            /\ exec' = Torn /\ Then("fill")
       ELSE /\ Then(IF goal = "legacy" THEN "fail" ELSE "rollback")
            /\ UNCHANGED <<exec, run, old>>
    /\ UNCHANGED <<control, faults, record, goal, backup, asset, left, userIn, history>>

\* and write_all.
FillBinary ==
    /\ At("fill")
    /\ \E written \in BOOLEAN :
        /\ Fault(~written)
        /\ exec' = IF written THEN Target ELSE exec
        /\ spoiled' = (~written /\ (spoiled \/ goal = "legacy"))
        /\ Then(IF written THEN "finalize" ELSE IF goal = "legacy" THEN "fail" ELSE "rollback")
    /\ UNCHANGED <<control, run, record, goal, aside, left, userIn, condemned>>

\* A mutant: a failed update leaves the program as it is.
Rollback_Nothing ==
    /\ At("rollback")
    /\ Then("fail")
    /\ UNCHANGED <<service, record, goal, aside, left, userIn, history>>

\* restore_from_backup: the backup is copied over the program, unless that is in use, and
\* removed.  The copy may fail half-way, and the removal after it; when all went well, a
\* service is started again.
Rollback ==
    /\ At("rollback")
    /\ LET able == op.saved /\ run["exec"] = None
       IN  \/ /\ able /\ Fault(FALSE) /\ exec' = backup /\ backup' = None
              /\ IF kind = "service" THEN Then("restarting") /\ start_service
                 ELSE Then("fail") /\ UNCHANGED ctl
           \/ /\ Fault(able) /\ exec' \in IF able THEN {exec, Torn, backup} ELSE {exec}
              /\ Then("fail") /\ UNCHANGED <<backup, ctl>>
    /\ spoiled' = (spoiled \/ exec' = Torn)
    /\ UNCHANGED <<scm, late, free, run, record, goal, old, asset, left, userIn, condemned>>

\* The application bundle is removed, then the new one is extracted: a failure in
\* between loses the application.
RemoveBundle ==
    /\ At("remove")
    /\ exec' = None /\ spoiled' = TRUE /\ Then("extract")
    /\ UNCHANGED <<control, run, faults, record, goal, aside, left, userIn, condemned>>

ExtractBundle ==
    /\ At("extract")
    /\ \E extracted \in BOOLEAN :
        /\ Fault(~extracted)
        /\ exec' = IF extracted THEN Target ELSE exec
        /\ spoiled' = (spoiled /\ ~extracted)
        /\ Then(IF extracted THEN "launch" ELSE "fail")
    /\ UNCHANGED <<control, run, record, goal, aside, left, userIn, condemned>>

\* The application is launched for the console user: an update waits for one, a
\* migration does not.  A launch that fails is only logged.
LaunchApp ==
    /\ At("launch") /\ (userIn \/ kind # "gui")
    /\ \E launched \in BOOLEAN :
        /\ Fault(userIn /\ ~launched)
        /\ run' = IF userIn /\ launched THEN [run EXCEPT !["exec"] = exec] ELSE run
    /\ Then("record")
    /\ UNCHANGED <<control, exec, record, goal, aside, left, userIn, history>>

-----------------------------------------------------------------------------
(* finalize *)

\* A service is started on the new program, unless a process still runs the old one.  Its
\* state is asked for first (service_not_stopped).
FinalizeUpdate ==
    /\ At("finalize")
    /\ IF kind = "service" THEN
            /\ Cleared /\ UNCHANGED backup
            /\ IF AsideLocked THEN Then("remediate") /\ stop_service(FALSE) /\ Fault(FALSE)
               ELSE \/ Then("starting") /\ start_service /\ Fault(FALSE)
                    \/ Hangs /\ UNCHANGED ctl
       ELSE /\ Fault(FALSE) /\ backup' = (IF goal = "legacy" THEN backup ELSE None)
            /\ Then("record") /\ UNCHANGED <<old, ctl>>
    /\ UNCHANGED <<scm, late, free, exec, run, record, goal, asset, left, userIn, history>>

\* The procedure of the service control has returned.
ServiceReturns ==
    /\ Returned /\ ctl' = Idle
    /\ Then(CASE At("stopping") -> "kill"
              [] At("starting") -> IF ctl.at = "ok" THEN "record" ELSE "fail"
              [] At("remediate") -> "rekill"
              [] At("restart") -> "record"
              [] At("restarting") -> "fail"
              [] At("clear") -> "wipe"
              [] At("verify") -> IF ctl.at = "ok" THEN "enter" ELSE "fail")
    /\ backup' = IF (At("starting") /\ ctl.at = "ok") \/ At("restart") THEN None ELSE backup
    /\ UNCHANGED <<scm, late, free, exec, run, faults, record, goal, old, asset,
                   left, userIn, history>>

\* remediate_orphaned_service: the processes are killed once more; the service stays
\* stopped while one survives.
Remediate ==
    /\ At("rekill") /\ Kill(Places)
    /\ LET locked == old # None /\ run'["old"] # None
       IN  /\ old' = IF locked THEN old ELSE None
           /\ Then(IF locked THEN "record" ELSE "restart")
           /\ IF locked THEN UNCHANGED ctl ELSE start_service
           /\ backup' = IF locked THEN None ELSE backup
    /\ UNCHANGED <<late, free, exec, record, goal, asset, left, userIn, history>>

\* A mutant: the version is recorded as soon as the program is written.
RecordVersion_Always ==
    /\ At("record")
    /\ \E written \in BOOLEAN :
        /\ Fault(~written)
        /\ version' = IF written THEN Target ELSE version
        /\ kind' = IF written /\ goal = "gui" THEN "gui" ELSE kind
        /\ Then(IF written THEN "asset" ELSE "fail")
    /\ UNCHANGED <<control, exec, run, repairing, assetVersion, goal, aside, left, userIn, history>>

\* The version is recorded unless a process still runs the program moved aside; the
\* message is done with either way.
RecordVersion ==
    /\ At("record")
    /\ LET keep == goal # "legacy" /\ AsideLocked
       IN  /\ IF goal = "legacy" THEN UNCHANGED old ELSE Cleared
           /\ \E written \in BOOLEAN :
                /\ Fault(~keep /\ ~written)
                /\ version' = IF ~keep /\ written THEN Target ELSE version
                /\ kind' = IF ~keep /\ written /\ goal = "gui" THEN "gui" ELSE kind
                /\ Then(IF keep \/ written THEN "asset" ELSE "fail")
    /\ backup' = IF goal = "legacy" /\ version' = Target THEN None ELSE backup
    /\ UNCHANGED <<control, exec, run, repairing, assetVersion, goal, asset, left, userIn, history>>

\* do_asset_update: download, write, record.
UpdateAsset ==
    /\ At("asset")
    /\ IF assetVersion = Target THEN
            Then("end") /\ UNCHANGED <<asset, assetVersion, faults>>
       ELSE \E done \in {"no", "torn", "written", "recorded"} :
            /\ Fault(done # "recorded")
            /\ asset' = CASE done = "no" -> asset [] done = "torn" -> Torn [] OTHER -> Target
            /\ assetVersion' = IF done = "recorded" THEN Target ELSE assetVersion
            /\ Then(IF done = "recorded" THEN "end" ELSE "fail")
    /\ UNCHANGED <<control, exec, run, kind, version, repairing, goal, old, backup, left, userIn,
                   history>>

\* The end of an operation: a successful repair ends the state Installing and a success
\* acknowledges the message; a failure leaves it for the next delivery.
EndOperation ==
    /\ At("end") \/ At("fail")
    /\ \E written \in BOOLEAN :
        /\ Fault(At("end") /\ op.repair /\ ~written)
        /\ repairing' = (repairing /\ ~(At("end") /\ op.repair /\ written))
    /\ left' = IF At("end") THEN [left EXCEPT ![op.name] = 0] ELSE left
    /\ op' = NoOp
    /\ UNCHANGED <<control, exec, run, kind, version, assetVersion, goal, aside, userIn, history>>

-----------------------------------------------------------------------------
(* A reinstallation of a service *)

BeginReinstall ==
    /\ At("idle") /\ left["reinstall"] > 0 /\ kind = "service"
    /\ left' = [left EXCEPT !["reinstall"] = @ - 1]
    /\ repairing' = TRUE
    /\ op' = [NoOp EXCEPT !.name = "reinstall", !.at = "clear"]
    /\ stop_service(TRUE)
    /\ UNCHANGED <<scm, late, free, exec, run, faults, kind, version,
                   assetVersion, goal, aside, userIn, history>>

\* The processes are killed and the directory removed, which a survivor prevents.
WipeTool ==
    /\ At("wipe") /\ Kill(Places)
    /\ LET survivor == \E p \in Places : run'[p] # None
       IN  IF survivor THEN Then("fail") /\ UNCHANGED <<exec, old, backup, asset, spoiled>>
           ELSE /\ exec' = None /\ old' = None /\ backup' = None /\ asset' = None
                /\ spoiled' = TRUE /\ Then("fetch")
    /\ UNCHANGED <<late, free, ctl, record, goal, left, userIn, condemned>>

\* service_clear_for_install, then the download: a service that is still there is not
\* installed over.
FetchTool ==
    /\ At("fetch")
    /\ \/ /\ free > 0 /\ UNCHANGED <<late, free>>
          /\ \E fetched \in BOOLEAN :
                LET clear == service_stopped_or_missing
                IN  /\ Fault(clear /\ ~fetched)
                    /\ exec' = IF clear /\ fetched THEN Target ELSE exec
                    /\ spoiled' = (spoiled /\ ~(clear /\ fetched))
                    /\ Then(IF clear /\ fetched THEN "register" ELSE "fail")
       \/ NoAnswer("query") /\ Then("fail") /\ UNCHANGED <<exec, spoiled>>
    /\ UNCHANGED <<scm, ctl, run, record, goal, aside, left, userIn, condemned>>

\* The installation command registers the service and may start it.  It cannot register
\* one that is marked for deletion.
RegisterService ==
    /\ At("register")
    /\ \E done \in BOOLEAN :
        /\ Fault(~done /\ ~marked)
        /\ Then(IF done THEN "verify" ELSE "fail")
        /\ IF done THEN start_service ELSE UNCHANGED ctl
        /\ \/ svc \in {"missing", "stopped"} /\ ~marked /\ Started
           \/ svc' \in {svc, IF svc = "missing" THEN "stopped" ELSE svc} /\ UNCHANGED run
        /\ done => svc' # "missing" /\ ~marked
    /\ condemned' = (condemned /\ (marked \/ late["delete"] > 0))
    /\ UNCHANGED <<marked, wedged, recover, late, free, exec, record, goal, aside, left, userIn,
                   spoiled>>

\* The tool is recorded, without its assets.
EnterTool ==
    /\ At("enter")
    /\ \E written \in BOOLEAN :
        /\ Fault(~written)
        /\ version' = IF written THEN Target ELSE version
        /\ repairing' = (repairing /\ ~written)
        /\ assetVersion' = IF written THEN None ELSE assetVersion
        /\ Then(IF written THEN "end" ELSE "fail")
    /\ UNCHANGED <<control, exec, run, kind, goal, aside, left, userIn, history>>

-----------------------------------------------------------------------------
(* The environment *)

\* The supervisor launches a program that is not being updated (module ToolLifecycle).
SuperviseTool ==
    /\ At("idle") /\ kind = "standard" /\ run["exec"] = None /\ Startable
    /\ run' = [run EXCEPT !["exec"] = exec]
    /\ UNCHANGED <<control, exec, faults, record, goal, aside, op, left, userIn, history>>

\* A process that survived a kill ends by itself.
SurvivorEnds ==
    /\ run["old"] # None
    /\ run' = [run EXCEPT !["old"] = None]
    /\ svc' = IF Host = "old" /\ svc \in {"running", "pending"} THEN "stopped" ELSE svc
    /\ wedged' = IF svc' = "stopped" THEN "no" ELSE wedged
    /\ UNCHANGED <<marked, recover, late, free, ctl, exec, faults, record, goal, aside, op, left,
                   userIn, history>>

UserLogsIn ==
    /\ ~userIn /\ userIn' = TRUE
    /\ UNCHANGED <<service, record, goal, aside, op, left, history>>

\* The agent ends in the middle of an operation, a rollback's copy perhaps, and starts
\* again; its calls end with it.
Crash ==
    /\ ~At("idle") /\ Fault(TRUE)
    /\ op' = NoOp /\ ctl' = Idle /\ late' = [c \in Calls |-> 0] /\ free' = Permits
    /\ exec' \in IF At("rollback") /\ op.saved /\ run["exec"] = None THEN {exec, Torn} ELSE {exec}
    /\ spoiled' = (spoiled \/ exec' = Torn)
    /\ UNCHANGED <<scm, run, record, goal, aside, left, userIn, condemned>>

Beside ==
    /\ condemned' = (condemned \/ (op.name = "reinstall" /\ ctl.at = "delete" /\ ctl' # ctl))
    /\ UNCHANGED <<record, goal, aside, op, left, userIn, spoiled>>

ServiceStep ==
    (Procedure \/ LateReturns \/ ServiceStops \/ RecoveryRestarts \/ MarkTakesEffect) /\ Beside

Operation ==
    \/ DetectService \/ StopForUpdate \/ KillForUpdate \/ BackupBinary \/ Download
    \/ CreateBinary \/ FillBinary \/ Rollback \/ RemoveBundle \/ ExtractBundle \/ LaunchApp
    \/ FinalizeUpdate \/ ServiceReturns \/ Remediate \/ RecordVersion \/ UpdateAsset
    \/ EndOperation \/ WipeTool \/ FetchTool \/ RegisterService \/ EnterTool

Next ==
    \/ ReceiveUpdate \/ BeginReinstall
    \/ DetectService \/ StopForUpdate \/ KillForUpdate \/ BackupBinary \/ Download
    \/ CreateBinary \/ FillBinary \/ Rollback \/ RemoveBundle \/ ExtractBundle \/ LaunchApp
    \/ FinalizeUpdate \/ ServiceReturns \/ Remediate \/ RecordVersion \/ UpdateAsset
    \/ EndOperation \/ WipeTool \/ FetchTool \/ RegisterService \/ EnterTool
    \/ ServiceStep \/ SuperviseTool \/ SurvivorEnds \/ UserLogsIn \/ Crash

\* An operation goes on, a service told to stop does, and somebody logs in one day.  An
\* abandoned call need not return, a survivor need not end, a mark need not take effect.
Fairness ==
    /\ WF_vars(Operation) /\ WF_vars(UserLogsIn)
    /\ WF_vars(Procedure /\ Beside) /\ WF_vars(ServiceStops /\ Beside)

Spec == Init /\ [][Next]_vars /\ Fairness

-----------------------------------------------------------------------------
(* Properties *)

\* The record names a new version only when the program is that version and no process
\* still runs another one: not the service that a recovery action restarted on the old
\* program before it was replaced, nor a process that outlived its service
\* (do_tool_update, clear_aside_binary).
HonestRecord ==
    [][version' # version =>
          exec = version' /\ run["old"] = None /\ run["exec"] \in {None, version'}]_vars

\* Whatever fails in the update of a program with one file, a complete version of it is
\* left on disk, and when the operation is over it is in its place, unless a write was cut
\* short by a crash, or putting the backup back failed (run_update, rollback).
BinarySurvives ==
    Single /\ ~spoiled =>
        /\ \E f \in {exec, backup, old} : f \in Versions
        /\ At("idle") => exec \in Versions

\* The service disappears from the SCM only after a reinstallation, which registers it
\* again, has called for its deletion: no update does (allow_delete).  The mark outlives
\* the call that set it, so that the service may be gone in a later update only.
ServiceNotLost == [][svc' = "missing" /\ svc # "missing" => condemned]_vars

\* Refuted: the service never disappears during an update.
ServiceStaysInUpdate == [][svc' = "missing" /\ svc # "missing" => op.name # "update"]_vars

\* Every operation ends, even when the SCM never answers another call (TimedPermitPool,
\* the bounded rounds of stop and start), unless it hangs in one of the two queries that
\* have no time limit: service_exists when a service is looked for, and
\* service_not_stopped before it is started on its new program.
OperationEnds == ~At("idle") ~> At("idle") \/ At("hung")

\* Refuted: every operation ends.
OperationAlwaysEnds == ~At("idle") ~> At("idle")
=============================================================================
