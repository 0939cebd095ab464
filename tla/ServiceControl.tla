--------------------------- MODULE ServiceControl ---------------------------
(***************************************************************************)
(* platform/system_service.rs on Windows: stopping, killing, deleting and  *)
(* starting the service of a tool through a service control manager (SCM)  *)
(* that may not answer.                                                    *)
(*                                                                         *)
(* Every SCM call takes a permit of a TimedPermitPool.  A call that times  *)
(* out is abandoned, keeps its permit, and may still take effect when it   *)
(* returns, if ever.  A process runs from the program file ("exec") or     *)
(* from where an update has moved it ("old"), and Windows keeps the file   *)
(* of a running process from being written.                                *)
(***************************************************************************)
EXTENDS Integers

CONSTANTS
    Versions,   \* versions of the tool
    Permits,    \* SCM_MAX_IN_FLIGHT
    Rounds,     \* SERVICE_START_MAX_ATTEMPTS, SERVICE_FORCE_KILL_MAX_ATTEMPTS
    MaxFaults   \* bound: SCM timeouts, wedged services, unkillable processes, failing
                \* downloads and file operations, crashes

ASSUME ControlAssumption ==
    /\ Versions \subseteq Nat \ {0} /\ Versions # {}
    /\ Permits \in Nat \ {0} /\ Rounds \in Nat \ {0} /\ MaxFaults \in Nat

None == 0
Torn == -1      \* a file that is not completely written

VARIABLES
    svc,      \* what the SCM knows: "missing", "stopped", "running" or "pending"
    marked,   \* it is marked for deletion
    wedged,   \* why a pending stop does not end: "no", "process" or "scm"
    recover,  \* the recovery action of the service is to restart it
    late,     \* how many abandoned calls of each kind there are
    free,     \* permits left
    ctl,      \* the procedure under way: its position, rounds left, allow_delete
    exec,     \* the program file
    run,      \* the version of the process running from each place
    faults

scm == <<svc, marked, wedged, recover>>
control == <<scm, late, free, ctl>>
service == <<control, exec, run, faults>>

Places == {"exec", "old"}
Calls == {"stop", "start", "query", "delete"}
Idle == [at |-> "off", n |-> 0, allow |-> FALSE]

ControlTypeOK ==
    /\ svc \in {"missing", "stopped", "running", "pending"}
    /\ marked \in BOOLEAN /\ wedged \in {"no", "process", "scm"} /\ recover \in BOOLEAN
    /\ late \in [Calls -> 0..Permits] /\ free \in 0..Permits
    /\ late["stop"] + late["start"] + late["query"] + late["delete"] + free = Permits
    /\ ctl \in [at : {"off", "stop", "stopping", "force", "delete", "deleting", "start", "starting",
                      "ok", "err"}, n : 0..Rounds, allow : BOOLEAN]
    /\ exec \in {None, Torn} \cup Versions
    /\ run \in [Places -> {None} \cup Versions]
    /\ faults \in 0..MaxFaults

Fault(happens) ==
    /\ happens => faults < MaxFaults
    /\ faults' = IF happens THEN faults + 1 ELSE faults

Goes(p) == ctl' = [ctl EXCEPT !.at = p]
Forces == ctl' = [ctl EXCEPT !.at = "force", !.n = Rounds]

-----------------------------------------------------------------------------
(* TimedPermitPool::call *)

\* The call returns in time.
Answers == free > 0 /\ Fault(FALSE) /\ UNCHANGED <<late, free>>

\* It does not: the caller goes on, the permit stays with the abandoned call.
TimesOut(call) ==
    free > 0 /\ Fault(TRUE) /\ late' = [late EXCEPT ![call] = @ + 1] /\ free' = free - 1

\* A mutant: the wait for a permit has no limit.
NoPermit_Waits == FALSE

\* No permit comes free in time: the call is not made.
NoPermit == free = 0 /\ Fault(FALSE) /\ UNCHANGED <<late, free>>

NoAnswer(call) == TimesOut(call) \/ NoPermit

service_stopped_or_missing == svc \in {"missing", "stopped"}

\* Starting the program needs a complete file; a service marked for deletion does not start.
Startable == exec \in Versions
CanStart == svc = "stopped" /\ ~marked /\ Startable
Started == svc' = "running" /\ run' = [run EXCEPT !["exec"] = exec]

\* An abandoned call returns, in time for what it asked for or too late for it.
LateReturns ==
    /\ \E call \in Calls :
        /\ late[call] > 0 /\ late' = [late EXCEPT ![call] = @ - 1] /\ free' = free + 1
        /\ \/ UNCHANGED <<svc, marked, run>>
           \/ /\ call = "stop" /\ svc = "running"
              /\ svc' = "pending" /\ UNCHANGED <<marked, run>>
           \/ call = "start" /\ CanStart /\ Started /\ UNCHANGED marked
           \/ call = "delete" /\ svc # "missing" /\ marked' = TRUE /\ UNCHANGED <<svc, run>>
    /\ UNCHANGED <<wedged, recover, ctl, exec, faults>>

-----------------------------------------------------------------------------
(* The service *)

\* The place of the service's process.
Host == IF run["exec"] # None THEN "exec" ELSE "old"

\* A service told to stop does so, unless it or the SCM is wedged; its process may linger.
ServiceStops ==
    /\ svc = "pending" /\ wedged = "no"
    /\ svc' = "stopped"
    /\ \/ Fault(FALSE) /\ run' = [run EXCEPT ![Host] = None]
       \/ Fault(TRUE) /\ UNCHANGED run
    /\ UNCHANGED <<marked, wedged, recover, late, free, ctl, exec>>

\* The recovery action restarts a service whose process was killed while it ran.
RecoveryRestarts ==
    /\ recover /\ svc = "stopped"
    /\ recover' = FALSE
    /\ IF CanStart THEN Started ELSE UNCHANGED <<svc, run>>
    /\ UNCHANGED <<marked, wedged, late, free, ctl, exec, faults>>

\* The SCM forgets a marked service once it is stopped and nobody has it open, whatever
\* became of the call that marked it.
MarkTakesEffect ==
    /\ marked /\ svc = "stopped"
    /\ svc' = "missing" /\ marked' = FALSE /\ wedged' = "no" /\ recover' = FALSE
    /\ UNCHANGED <<late, free, ctl, exec, run, faults>>

\* The processes in the given places die.  An SCM that is not wedged itself sees the
\* service stopped when its process is gone.
Dies(places) ==
    /\ run' = [p \in Places |-> IF p \in places THEN None ELSE run[p]]
    /\ LET ends == Host \in places /\ svc \in {"running", "pending"} /\ wedged # "scm"
       IN  /\ svc' = IF ends THEN "stopped" ELSE svc
           /\ wedged' = IF ends THEN "no" ELSE wedged
           /\ recover' = (recover \/ (ends /\ svc = "running" /\ run[Host] # None))
    /\ UNCHANGED marked

\* A kill of them all; some may survive it.
Kill(places) ==
    \/ Fault(FALSE) /\ Dies(places)
    \/ \E tough \in SUBSET {p \in places : run[p] # None} \ {{}} : Fault(TRUE) /\ Dies(places \ tough)

-----------------------------------------------------------------------------
(* stop_service_windows *)

\* service.stop(); a service that does not accept it is killed.
StopCall ==
    /\ ctl.at = "stop"
    /\ \/ /\ Answers /\ service_stopped_or_missing
          /\ Goes("ok") /\ UNCHANGED <<svc, wedged>>
       \/ Answers /\ svc = "pending" /\ Forces /\ UNCHANGED <<svc, wedged>>
       \/ /\ svc = "running" /\ free > 0 /\ UNCHANGED <<late, free>>
          /\ wedged' \in {"no", "process", "scm"} /\ Fault(wedged' # "no")
          /\ svc' = "pending" /\ Goes("stopping")
       \/ NoAnswer("stop") /\ Forces /\ UNCHANGED <<svc, wedged>>
    /\ UNCHANGED <<marked, recover, exec, run>>

\* wait_for_service_stop_windows: stopped, or out of polls, or out of failing queries.
StopWait ==
    /\ ctl.at = "stopping"
    /\ \/ Answers /\ service_stopped_or_missing /\ Goes("ok")
       \/ Answers /\ (wedged # "no" \/ svc = "running") /\ Forces
       \/ TimesOut("query") /\ Forces
    /\ UNCHANGED <<scm, exec, run>>

\* A round of force_stop_service_windows: unless the service is stopped its process is
\* killed: by the process id, which the SCM tells for a running service, or else, and
\* when the status query failed, by the image path, which a second query asks for.  Only
\* a taskkill that cannot be started ends the rounds.
ForceRound ==
    /\ ctl.at = "force" /\ ctl.n > 0
    /\ \/ /\ Answers /\ service_stopped_or_missing /\ Goes("ok")
          /\ UNCHANGED <<scm, run>>
       \/ /\ free > 0 /\ UNCHANGED <<late, free>> /\ svc \in {"running", "pending"}
          /\ Kill({IF svc = "running" THEN Host ELSE "exec"})
          /\ ctl' = [ctl EXCEPT !.n = @ - 1]
       \/ /\ free > 0 /\ UNCHANGED <<late, free>> /\ svc = "running" /\ Fault(TRUE) /\ Goes("err")
          /\ UNCHANGED <<scm, run>>
       \/ /\ NoAnswer("query") /\ ctl' = [ctl EXCEPT !.n = @ - 1]
          /\ \/ free' > 0 /\ Dies({"exec"})
             \/ UNCHANGED <<scm, run>>
       \/ /\ free > 1 /\ Fault(TRUE) /\ ctl' = [ctl EXCEPT !.n = @ - 1]
          /\ late' = [late EXCEPT !["query"] = @ + 2] /\ free' = free - 2
          /\ UNCHANGED <<scm, run>>
    /\ UNCHANGED exec

\* After the last round: a service that still is not stopped is deleted, but only for a
\* caller that registers it again.
ForceEnd ==
    /\ ctl.at = "force" /\ ctl.n = 0
    /\ \/ Answers /\ service_stopped_or_missing /\ Goes("ok")
       \/ /\ Answers /\ svc \in {"running", "pending"}
          /\ Goes(IF ctl.allow THEN "delete" ELSE "err")
       \/ NoAnswer("query") /\ Goes(IF ctl.allow THEN "delete" ELSE "err")
    /\ UNCHANGED <<scm, exec, run>>

\* delete_service_windows: the service is marked for deletion, which can be done once ...
DeleteCall ==
    /\ ctl.at = "delete"
    /\ \/ Answers /\ svc = "missing" /\ Goes("ok") /\ UNCHANGED marked
       \/ /\ Answers /\ svc # "missing"
          /\ marked' = TRUE /\ Goes(IF marked THEN "err" ELSE "deleting")
       \/ NoAnswer("delete") /\ Goes("err") /\ UNCHANGED marked
    /\ UNCHANGED <<svc, wedged, recover, exec, run>>

\* ... and is waited for to disappear: it has, or is still there when the polls are over,
\* or the queries fail.
DeleteWait ==
    /\ ctl.at = "deleting"
    /\ \/ Answers /\ Goes(IF svc = "missing" THEN "ok" ELSE "err")
       \/ NoAnswer("query") /\ Goes("err")
    /\ UNCHANGED <<scm, exec, run>>

-----------------------------------------------------------------------------
(* start_service *)

\* An attempt that failed is repeated while there are attempts left.
AttemptFails == IF ctl.n > 1 THEN ctl' = [ctl EXCEPT !.at = "start", !.n = @ - 1] ELSE Goes("err")

\* try_start_service_windows; a service that runs already counts as started.
StartCall ==
    /\ ctl.at = "start"
    /\ \/ Answers /\ CanStart /\ Started /\ Goes("starting")
       \/ Answers /\ svc = "running" /\ Goes("starting") /\ UNCHANGED <<svc, run>>
       \/ /\ Answers /\ svc # "running" /\ ~CanStart
          /\ AttemptFails /\ UNCHANGED <<svc, run>>
       \/ NoAnswer("start") /\ AttemptFails /\ UNCHANGED <<svc, run>>
    /\ UNCHANGED <<marked, wedged, recover, exec>>

\* wait_for_service_running_windows.
StartWait ==
    /\ ctl.at = "starting"
    /\ \/ Answers /\ svc = "running" /\ Goes("ok")
       \/ Answers /\ svc # "running" /\ AttemptFails
       \/ TimesOut("query") /\ AttemptFails
    /\ UNCHANGED <<scm, exec, run>>

Procedure ==
    \/ StopCall \/ StopWait \/ ForceRound \/ ForceEnd \/ DeleteCall \/ DeleteWait
    \/ StartCall \/ StartWait

\* What a caller does with the procedures.
stop_service(allow_delete) == ctl' = [at |-> "stop", n |-> 0, allow |-> allow_delete]
start_service == ctl' = [at |-> "start", n |-> Rounds, allow |-> FALSE]
Returned == ctl.at \in {"ok", "err"}
=============================================================================
