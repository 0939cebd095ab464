-------------------------- MODULE ToolUpdateProofs --------------------------
(***************************************************************************)
(* Theorems about the replacement of a tool's program, for any versions,   *)
(* any number of permits, rounds and deliveries, and any number of         *)
(* failures of the SCM, the disk, the network and the agent.               *)
(***************************************************************************)
EXTENDS ToolUpdate, WellFoundedInduction, TLAPS

Runs == [Places -> {None} \cup Versions]
Controls == [at : {"off", "stop", "stopping", "force", "delete", "deleting", "start", "starting",
                   "ok", "err"}, n : 0..Rounds, allow : BOOLEAN]
Operations == [name : {"none"} \cup Messages, at : Steps, tool : BOOLEAN, repair : BOOLEAN,
               saved : BOOLEAN]

-----------------------------------------------------------------------------
(* The inductive invariant *)

\* The steps at which a procedure of the service control is under way.
Waiting == {"stopping", "starting", "remediate", "restart", "restarting", "clear", "verify"}

\* What the messages, the record and the SCM can have to do with one another.
Consistent ==
  /\ kind = "service" => goal = "service"
  /\ kind = "gui" => goal = "gui"
  /\ op.at = "adopt" => goal = "service"
  /\ goal \in {"gui", "legacy", "standard"} => svc = "missing"
  /\ op.at \in {"remove", "extract", "launch"} => goal = "gui"
  /\ op.name = "reinstall" => goal = "service"
  /\ op.at \notin Waiting => ctl = Idle
  /\ op.at \in {"clear", "wipe", "fetch", "register", "verify", "enter"} => op.name = "reinstall"

\* Only a caller that registers the service again lets a procedure delete it.
Allowed ==
  /\ ctl.at = "delete" => ctl.allow
  /\ ctl.allow => op.name = "reinstall"

\* A mark for deletion, or a call that may still set it, is a reinstallation's.
Condemned == marked \/ late["delete"] > 0 => condemned

\* A process runs from a file that is complete and is the version it runs; one that
\* runs from the file moved aside keeps that file there.
InUse ==
  /\ run["exec"] # None => exec = run["exec"]
  /\ old = None \/ goal = "legacy" => run["old"] = None

\* What the program file is at each step.
Written ==
  /\ op.at = "fill" => exec = Torn
  /\ op.at \in {"extract", "fetch"} => exec = None
  /\ op.at = "remove" => run["exec"] = None
  /\ op.at \in {"launch", "finalize", "starting", "remediate", "rekill", "restart", "record",
                "register", "verify", "enter"} => exec = Target
  /\ op.at \in {"fetch", "register", "verify", "enter"} => run["old"] = None

\* A program with one file is whole, or is being replaced with its backup beside it.
Whole ==
  (Single /\ ~spoiled) =>
     /\ exec \in Versions \/ (op.at \in {"fill", "rollback"} /\ exec = Torn)
     /\ op.at \in {"download", "create", "fill", "rollback"} => op.saved /\ backup \in Versions

-----------------------------------------------------------------------------
(* What the service control does *)

LEMMA FaultType ==
  ASSUME ControlTypeOK, NEW happens \in BOOLEAN, Fault(happens)
  PROVE  faults' \in 0..MaxFaults
  BY ControlAssumption DEF ControlTypeOK, Fault

\* The processes left after a kill ran before it; no service appears or disappears.
LEMMA DiesEffect ==
  ASSUME ControlTypeOK, NEW places \in SUBSET Places, Dies(places)
  PROVE  /\ run' \in Runs /\ \A p \in Places : run'[p] \in {None, run[p]}
         /\ svc' \in {svc, "stopped"} /\ (svc' = "missing" <=> svc = "missing")
         /\ wedged' \in {"no", "process", "scm"} /\ recover' \in BOOLEAN /\ marked' = marked
  <1>1. run' \in Runs /\ \A p \in Places : run'[p] \in {None, run[p]}
    BY DEF Dies, ControlTypeOK, Runs
  <1>2. svc' \in {svc, "stopped"} /\ (svc' = "missing" <=> svc = "missing")
        /\ wedged' \in {"no", "process", "scm"}
    BY DEF Dies, ControlTypeOK
  <1>3. recover' \in BOOLEAN /\ marked' = marked
    BY DEF Dies, ControlTypeOK
  <1>4. QED
    BY <1>1, <1>2, <1>3

KillResult ==
  /\ run' \in Runs /\ \A p \in Places : run'[p] \in {None, run[p]}
  /\ svc' \in {svc, "stopped"} /\ (svc' = "missing" <=> svc = "missing")
  /\ wedged' \in {"no", "process", "scm"} /\ recover' \in BOOLEAN /\ marked' = marked
  /\ faults' \in 0..MaxFaults

LEMMA KillEffect ==
  ASSUME ControlTypeOK, NEW places \in SUBSET Places, Kill(places)
  PROVE  KillResult
  <1>1. PICK some \in SUBSET Places : Dies(some)
    BY DEF Kill
  <1>2. faults' \in 0..MaxFaults
    BY FaultType DEF Kill
  <1>3. QED
    BY <1>1, <1>2, DiesEffect DEF KillResult

\* What a step of the service control may do to the rest.
Controlled ==
  /\ run' \in Runs /\ run'["old"] \in {None, run["old"]}
  /\ \/ run'["exec"] \in {None, run["exec"]}
     \/ run'["exec"] = exec /\ svc # "missing" /\ exec \in Versions
  /\ svc = "missing" => svc' = "missing"
  /\ svc' = "missing" => svc = "missing" \/ marked
  /\ marked' \/ late'["delete"] > 0 =>
        marked \/ late["delete"] > 0 \/ (ctl.at = "delete" /\ ctl' # ctl)
  /\ ctl' = ctl \/ (ctl.at # "off" /\ ctl'.at # "off" /\ ctl'.allow = ctl.allow)
  /\ ctl'.at = "delete" => ctl.at = "delete" \/ ctl.allow

\* The permits and the abandoned calls add up.
Tally ==
  /\ late' \in [Calls -> 0..Permits] /\ free' \in 0..Permits
  /\ late'["stop"] + late'["start"] + late'["query"] + late'["delete"] + free' = Permits

LEMMA CallsType ==
  ASSUME ControlTypeOK, NEW call \in Calls,
         UNCHANGED <<late, free>> \/ Answers \/ NoAnswer(call) \/ TimesOut(call)
  PROVE  Tally /\ (late'["delete"] = late["delete"] \/ call = "delete")
  <1> USE ControlAssumption DEF ControlTypeOK, Tally, Calls
  <1>1. CASE UNCHANGED <<late, free>>
    BY <1>1
  <1>2. CASE TimesOut(call)
    <2>1. late' = [late EXCEPT ![call] = late[call] + 1] /\ free' = free - 1 /\ free > 0
      BY <1>2 DEF TimesOut
    <2>2. late[call] + 1 \in 0..Permits
      BY <2>1
    <2>3. QED
      BY <2>1, <2>2
  <1>3. QED
    BY <1>1, <1>2 DEF Answers, NoAnswer, NoPermit

LEMMA GoesEffect ==
  ASSUME ControlTypeOK,
         NEW p \in {"off", "stop", "stopping", "force", "delete", "deleting", "start", "starting",
                    "ok", "err"},
         Goes(p)
  PROVE  ctl' \in Controls /\ ctl'.at = p /\ ctl'.allow = ctl.allow
  BY DEF ControlTypeOK, Goes, Controls

LEMMA ForcesEffect ==
  ASSUME ControlTypeOK, Forces
  PROVE  ctl' \in Controls /\ ctl'.at = "force" /\ ctl'.allow = ctl.allow
  <1>1. Rounds \in 0..Rounds
    BY ControlAssumption
  <1>2. QED
    BY <1>1 DEF ControlTypeOK, Forces, Controls

LEMMA AttemptFailsEffect ==
  ASSUME ControlTypeOK, AttemptFails
  PROVE  ctl' \in Controls /\ ctl'.at \in {"start", "err"} /\ ctl'.allow = ctl.allow
  <1>1. ctl \in Controls
    BY DEF ControlTypeOK, Controls
  <1>2. ctl.n > 1 => ctl.n - 1 \in 0..Rounds
    BY <1>1, ControlAssumption DEF Controls
  <1>3. CASE ctl.n > 1
    BY <1>1, <1>2, <1>3 DEF AttemptFails, Controls
  <1>4. CASE ~(ctl.n > 1)
    BY <1>4, GoesEffect DEF AttemptFails
  <1>5. QED
    BY <1>3, <1>4

LEMMA StartedEffect ==
  ASSUME ControlTypeOK, CanStart, Started
  PROVE  /\ run' \in Runs /\ run'["old"] = run["old"] /\ run'["exec"] = exec
         /\ svc = "stopped" /\ svc' = "running" /\ exec \in Versions
  BY DEF ControlTypeOK, CanStart, Startable, Started, Runs, Places

LEMMA ServiceEffect ==
  ASSUME ControlTypeOK,
         Procedure \/ LateReturns \/ ServiceStops \/ RecoveryRestarts \/ MarkTakesEffect
  PROVE  ControlTypeOK' /\ Controlled /\ exec' = exec
  <1> USE DEF Runs, Controls, scm
  <1>1. CASE StopCall
    <2>1. Tally /\ late'["delete"] = late["delete"]
      BY <1>1, CallsType DEF Calls, StopCall
    <2>2. faults' \in 0..MaxFaults
      BY <1>1, FaultType DEF StopCall, Answers, NoAnswer, TimesOut, NoPermit
    <2>3. ctl' \in Controls /\ svc' \in {svc, "pending"} /\ (svc' # svc => svc = "running")
          /\ wedged' \in {"no", "process", "scm"} /\ ctl.at = "stop"
          /\ ctl'.at \in {"ok", "force", "stopping"} /\ ctl'.allow = ctl.allow
      BY <1>1, GoesEffect, ForcesEffect DEF StopCall, ControlTypeOK
    <2>4. UNCHANGED <<marked, recover, exec, run>>
      BY <1>1 DEF StopCall
    <2>5. QED
      BY <2>1, <2>2, <2>3, <2>4 DEF ControlTypeOK, Controlled, Tally
  <1>2. CASE StopWait
    <2>1. Tally /\ late'["delete"] = late["delete"]
      BY <1>2, CallsType DEF Calls, StopWait
    <2>2. faults' \in 0..MaxFaults
      BY <1>2, FaultType DEF StopWait, Answers, TimesOut
    <2>3. ctl' \in Controls /\ ctl.at = "stopping" /\ ctl'.at \in {"ok", "force"}
          /\ ctl'.allow = ctl.allow
      BY <1>2, GoesEffect, ForcesEffect DEF StopWait
    <2>4. UNCHANGED <<scm, exec, run>>
      BY <1>2 DEF StopWait
    <2>5. QED
      BY <2>1, <2>2, <2>3, <2>4 DEF ControlTypeOK, Controlled, Tally
  <1>3. CASE ForceRound
    <2>1. Tally /\ late'["delete"] = late["delete"]
      <3>1. CASE late' = [late EXCEPT !["query"] = @ + 2] /\ free' = free - 2 /\ free > 1
        BY <3>1, ControlAssumption DEF ControlTypeOK, Tally, Calls
      <3>2. CASE UNCHANGED <<late, free>> \/ Answers \/ NoAnswer("query")
        BY <3>2, CallsType DEF Calls
      <3>3. QED
        BY <1>3, <3>1, <3>2 DEF ForceRound
    <2>2. faults' \in 0..MaxFaults
      BY <1>3, FaultType, KillEffect
         DEF ForceRound, KillResult, Answers, NoAnswer, TimesOut, NoPermit, Places, Host
    <2>3. ctl' \in Controls /\ ctl.at = "force" /\ ctl'.at \in {"ok", "err", "force"}
          /\ ctl'.allow = ctl.allow
      <3>1. ctl.at = "force" /\ ctl.n > 0
        BY <1>3 DEF ForceRound
      <3>2. Goes("ok") \/ Goes("err") \/ ctl' = [ctl EXCEPT !.n = ctl.n - 1]
        BY <1>3 DEF ForceRound
      <3>3. ctl \in Controls /\ ctl.n - 1 \in 0..Rounds
        BY <3>1, ControlAssumption DEF ControlTypeOK
      <3>4. QED
        BY <3>1, <3>2, <3>3, GoesEffect
    <2>4. \/ UNCHANGED <<scm, run>>
          \/ \E places \in SUBSET Places : Kill(places) \/ Dies(places)
      BY <1>3 DEF ForceRound, Places, Host
    <2>5. /\ run' \in Runs /\ \A p \in Places : run'[p] \in {None, run[p]}
          /\ svc' \in {svc, "stopped"} /\ (svc' = "missing" <=> svc = "missing")
          /\ wedged' \in {"no", "process", "scm"} /\ recover' \in BOOLEAN /\ marked' = marked
      <3>1. CASE UNCHANGED <<scm, run>>
        BY <3>1 DEF ControlTypeOK
      <3>2. QED
        BY <2>4, <3>1, KillEffect, DiesEffect DEF KillResult
    <2>6. exec' = exec
      BY <1>3 DEF ForceRound
    <2>7. QED
      BY <2>1, <2>2, <2>3, <2>5, <2>6 DEF ControlTypeOK, Controlled, Tally, Places
  <1>4. CASE ForceEnd
    <2>1. Tally /\ late'["delete"] = late["delete"]
      BY <1>4, CallsType DEF Calls, ForceEnd
    <2>2. faults' \in 0..MaxFaults
      BY <1>4, FaultType DEF ForceEnd, Answers, NoAnswer, TimesOut, NoPermit
    <2>3. ctl' \in Controls /\ ctl.at = "force" /\ ctl'.at \in {"ok", "err", "delete"}
          /\ ctl'.allow = ctl.allow /\ (ctl'.at = "delete" => ctl.allow)
      BY <1>4 DEF ForceEnd, ControlTypeOK, Goes
    <2>4. UNCHANGED <<scm, exec, run>>
      BY <1>4 DEF ForceEnd
    <2>5. QED
      BY <2>1, <2>2, <2>3, <2>4 DEF ControlTypeOK, Controlled, Tally
  <1>5. CASE DeleteCall
    <2>1. Tally
      BY <1>5, CallsType DEF Calls, DeleteCall
    <2>2. faults' \in 0..MaxFaults
      BY <1>5, FaultType DEF DeleteCall, Answers, NoAnswer, TimesOut, NoPermit
    <2>3. ctl' \in Controls /\ ctl.at = "delete" /\ ctl'.at \in {"ok", "err", "deleting"}
          /\ ctl'.allow = ctl.allow /\ marked' \in BOOLEAN
      BY <1>5 DEF DeleteCall, ControlTypeOK, Goes
    <2>4. UNCHANGED <<svc, wedged, recover, exec, run>>
      BY <1>5 DEF DeleteCall
    <2>5. QED
      BY <2>1, <2>2, <2>3, <2>4 DEF ControlTypeOK, Controlled, Tally
  <1>12. CASE DeleteWait
    <2>1. Tally /\ late'["delete"] = late["delete"]
      BY <1>12, CallsType DEF Calls, DeleteWait
    <2>2. faults' \in 0..MaxFaults
      BY <1>12, FaultType DEF DeleteWait, Answers, NoAnswer, TimesOut, NoPermit
    <2>3. ctl' \in Controls /\ ctl.at = "deleting" /\ ctl'.at \in {"ok", "err"}
          /\ ctl'.allow = ctl.allow
      BY <1>12 DEF DeleteWait, ControlTypeOK, Goes
    <2>4. UNCHANGED <<scm, exec, run>>
      BY <1>12 DEF DeleteWait
    <2>5. QED
      BY <2>1, <2>2, <2>3, <2>4 DEF ControlTypeOK, Controlled, Tally
  <1>6. CASE StartCall
    <2>1. Tally /\ late'["delete"] = late["delete"]
      BY <1>6, CallsType DEF Calls, StartCall
    <2>2. faults' \in 0..MaxFaults
      BY <1>6, FaultType DEF StartCall, Answers, NoAnswer, TimesOut, NoPermit
    <2>3. ctl' \in Controls /\ ctl.at = "start" /\ ctl'.at \in {"starting", "start", "err"}
          /\ ctl'.allow = ctl.allow
      BY <1>6, GoesEffect, AttemptFailsEffect DEF StartCall
    <2>4. UNCHANGED <<svc, run>> \/ (CanStart /\ Started)
      BY <1>6 DEF StartCall
    <2>5. UNCHANGED <<marked, wedged, recover, exec>>
      BY <1>6 DEF StartCall
    <2>6. QED
      BY <2>1, <2>2, <2>3, <2>4, <2>5, StartedEffect DEF ControlTypeOK, Controlled, Tally
  <1>7. CASE StartWait
    <2>1. Tally /\ late'["delete"] = late["delete"]
      BY <1>7, CallsType DEF Calls, StartWait
    <2>2. faults' \in 0..MaxFaults
      BY <1>7, FaultType DEF StartWait, Answers, TimesOut
    <2>3. ctl' \in Controls /\ ctl.at = "starting" /\ ctl'.at \in {"ok", "start", "err"}
          /\ ctl'.allow = ctl.allow
      BY <1>7, GoesEffect, AttemptFailsEffect DEF StartWait
    <2>4. UNCHANGED <<scm, exec, run>>
      BY <1>7 DEF StartWait
    <2>5. QED
      BY <2>1, <2>2, <2>3, <2>4 DEF ControlTypeOK, Controlled, Tally
  <1>8. CASE LateReturns
    <2>1. Tally /\ (late'["delete"] > 0 => late["delete"] > 0)
      <3>1. PICK call \in Calls :
              late[call] > 0 /\ late' = [late EXCEPT ![call] = late[call] - 1] /\ free' = free + 1
        BY <1>8 DEF LateReturns
      <3>2. QED
        BY <3>1, ControlAssumption DEF ControlTypeOK, Tally, Calls
    <2>2. \/ UNCHANGED <<run, marked>> /\ svc' \in {svc, "pending"}
             /\ (svc' # svc => svc = "running")
          \/ CanStart /\ Started /\ marked' = marked
          \/ late["delete"] > 0 /\ marked' = TRUE /\ UNCHANGED <<svc, run>>
      BY <1>8 DEF LateReturns
    <2>3. UNCHANGED <<wedged, recover, ctl, exec, faults>>
      BY <1>8 DEF LateReturns
    <2>4. CASE CanStart /\ Started /\ marked' = marked
      BY <2>1, <2>3, <2>4, StartedEffect DEF ControlTypeOK, Controlled, Tally
    <2>5. CASE UNCHANGED <<run, marked>> /\ svc' \in {svc, "pending"}
               /\ (svc' # svc => svc = "running")
      BY <2>1, <2>3, <2>5 DEF ControlTypeOK, Controlled, Tally
    <2>6. CASE late["delete"] > 0 /\ marked' = TRUE /\ UNCHANGED <<svc, run>>
      BY <2>1, <2>3, <2>6 DEF ControlTypeOK, Controlled, Tally
    <2>7. QED
      BY <2>2, <2>4, <2>5, <2>6
  <1>9. CASE ServiceStops
    <2>1. faults' \in 0..MaxFaults
      BY <1>9, FaultType DEF ServiceStops
    <2>2. run' \in Runs /\ \A p \in Places : run'[p] \in {None, run[p]}
      BY <1>9 DEF ServiceStops, ControlTypeOK
    <2>3. svc = "pending" /\ svc' = "stopped"
          /\ UNCHANGED <<marked, wedged, recover, late, free, ctl, exec>>
      BY <1>9 DEF ServiceStops
    <2>4. QED
      BY <2>1, <2>2, <2>3 DEF ControlTypeOK, Controlled, Places
  <1>10. CASE RecoveryRestarts
    <2>1. UNCHANGED <<svc, run>> \/ (CanStart /\ Started)
      BY <1>10 DEF RecoveryRestarts
    <2>2. recover' = FALSE /\ UNCHANGED <<marked, wedged, late, free, ctl, exec, faults>>
      BY <1>10 DEF RecoveryRestarts
    <2>3. CASE UNCHANGED <<svc, run>>
      BY <2>2, <2>3 DEF ControlTypeOK, Controlled
    <2>4. CASE CanStart /\ Started
      BY <2>2, <2>4, StartedEffect DEF ControlTypeOK, Controlled
    <2>5. QED
      BY <2>1, <2>3, <2>4
  <1>13. CASE MarkTakesEffect
    BY <1>13 DEF MarkTakesEffect, ControlTypeOK, Controlled
  <1>11. QED
    BY <1>12, <1>13, <1>1, <1>2, <1>3, <1>4, <1>5, <1>6, <1>7, <1>8, <1>9, <1>10 DEF Procedure

-----------------------------------------------------------------------------
(* Types *)

LEMMA StopType ==
  ASSUME NEW allow \in BOOLEAN, stop_service(allow)
  PROVE  ctl' \in Controls
  <1>1. 0 \in 0..Rounds
    BY ControlAssumption
  <1>2. QED
    BY <1>1 DEF stop_service, Controls

LEMMA StartType ==
  ASSUME start_service
  PROVE  ctl' \in Controls
  <1>1. Rounds \in 0..Rounds
    BY ControlAssumption
  <1>2. QED
    BY <1>1 DEF start_service, Controls

LEMMA ThenEffect ==
  ASSUME TypeOK, NEW p \in Steps, Then(p)
  PROVE  /\ op' \in Operations /\ op'.at = p /\ op'.name = op.name /\ op'.tool = op.tool
         /\ op'.repair = op.repair /\ op'.saved = op.saved
  BY DEF TypeOK, Then, Operations

\* A procedure that has returned was waited for.
LEMMA ReturnsEffect ==
  ASSUME TypeOK, Consistent, ServiceReturns
  PROVE  /\ op.at \in Waiting
         /\ op' \in Operations /\ op'.name = op.name /\ op'.saved = op.saved
         /\ op'.at = CASE op.at = "stopping" -> "kill"
                       [] op.at = "starting" -> IF ctl.at = "ok" THEN "record" ELSE "fail"
                       [] op.at = "remediate" -> "rekill"
                       [] op.at = "restart" -> "record"
                       [] op.at = "restarting" -> "fail"
                       [] op.at = "clear" -> "wipe"
                       [] op.at = "verify" -> IF ctl.at = "ok" THEN "enter" ELSE "fail"
         /\ ctl' = Idle
  <1> DEFINE next == CASE op.at = "stopping" -> "kill"
                       [] op.at = "starting" -> IF ctl.at = "ok" THEN "record" ELSE "fail"
                       [] op.at = "remediate" -> "rekill"
                       [] op.at = "restart" -> "record"
                       [] op.at = "restarting" -> "fail"
                       [] op.at = "clear" -> "wipe"
                       [] op.at = "verify" -> IF ctl.at = "ok" THEN "enter" ELSE "fail"
  <1>1. op.at \in Waiting
    BY DEF ServiceReturns, Returned, Consistent, Idle
  <1>2. next \in Steps
    BY <1>1 DEF Waiting, Steps
  <1>3. Then(next) /\ ctl' = Idle
    BY DEF ServiceReturns, At
  <1> HIDE DEF next
  <1>4. QED
    BY <1>1, <1>2, <1>3, ThenEffect DEF next

RecordTypeOK ==
  /\ <<kind, goal>> \in Cases
  /\ version \in Versions /\ repairing \in BOOLEAN /\ assetVersion \in {None} \cup Versions
FilesTypeOK == \A f \in {old, backup, asset} : f \in {None, Torn} \cup Versions
MessagesTypeOK ==
  /\ left \in [Messages -> 0..MaxDeliver] /\ userIn \in BOOLEAN
  /\ spoiled \in BOOLEAN /\ condemned \in BOOLEAN

LEMMA OperationTypeStep ==
  ASSUME TypeOK, Consistent, [Next]_vars
  PROVE  op' \in Operations
  <1> USE ThenEffect DEF Steps
  <1>1. CASE ReceiveUpdate
    <2>1. op \in Operations
      BY DEF TypeOK, Operations
    <2>2. CASE UNCHANGED op
      BY <2>1, <2>2
    <2>3. CASE op' # op
      <3>1. PICK tool \in BOOLEAN, repair \in BOOLEAN, at \in {"adopt", "stop"} :
              op' = [name |-> "update", tool |-> tool, repair |-> repair, saved |-> FALSE,
                     at |-> at]
        BY <1>1, <2>3, Zenon DEF ReceiveUpdate, TypeOK
      <3>2. QED
        BY <3>1 DEF Operations, Messages
    <2>4. QED
      BY <2>2, <2>3
  <1>2. CASE BeginReinstall
    BY <1>2 DEF BeginReinstall, TypeOK, Operations, Steps, Messages, NoOp
  <1>3. CASE DetectService
    BY <1>3 DEF DetectService, Hangs
  <1>4. CASE StopForUpdate
    BY <1>4 DEF StopForUpdate
  <1>5. CASE KillForUpdate
    BY <1>5 DEF KillForUpdate
  <1>6. CASE BackupBinary
    BY <1>6 DEF BackupBinary, TypeOK, Operations, Steps
  <1>7. CASE Download
    BY <1>7 DEF Download
  <1>8. CASE CreateBinary
    BY <1>8 DEF CreateBinary
  <1>9. CASE FillBinary
    BY <1>9 DEF FillBinary
  <1>10. CASE Rollback
    BY <1>10 DEF Rollback
  <1>11. CASE RemoveBundle
    BY <1>11 DEF RemoveBundle
  <1>12. CASE ExtractBundle
    BY <1>12 DEF ExtractBundle
  <1>13. CASE LaunchApp
    BY <1>13 DEF LaunchApp
  <1>14. CASE FinalizeUpdate
    BY <1>14 DEF FinalizeUpdate, Hangs
  <1>15. CASE ServiceReturns
    BY <1>15, ReturnsEffect
  <1>16. CASE Remediate
    BY <1>16 DEF Remediate
  <1>17. CASE RecordVersion
    BY <1>17 DEF RecordVersion
  <1>18. CASE UpdateAsset
    BY <1>18 DEF UpdateAsset
  <1>19. CASE EndOperation
    BY <1>19 DEF EndOperation, Operations, Steps, NoOp
  <1>20. CASE WipeTool
    BY <1>20 DEF WipeTool
  <1>21. CASE FetchTool
    BY <1>21 DEF FetchTool
  <1>22. CASE RegisterService
    BY <1>22 DEF RegisterService
  <1>23. CASE EnterTool
    BY <1>23 DEF EnterTool
  <1>24. CASE SuperviseTool
    BY <1>24 DEF SuperviseTool, TypeOK, Operations
  <1>25. CASE SurvivorEnds
    BY <1>25 DEF SurvivorEnds, TypeOK, Operations
  <1>26. CASE UserLogsIn
    BY <1>26 DEF UserLogsIn, TypeOK, Operations
  <1>27. CASE Crash
    BY <1>27 DEF Crash, Operations, Steps, NoOp
  <1>28. CASE ServiceStep
    BY <1>28 DEF ServiceStep, Beside, TypeOK, Operations
  <1>29. CASE UNCHANGED vars
    BY <1>29 DEF vars, history, TypeOK, Operations
  <1>30. QED
    BY <1>1, <1>2, <1>3, <1>4, <1>5, <1>6, <1>7, <1>8, <1>9, <1>10, <1>11, <1>12,
       <1>13, <1>14, <1>15, <1>16, <1>17, <1>18, <1>19, <1>20, <1>21, <1>22, <1>23,
       <1>24, <1>25, <1>26, <1>27, <1>28, <1>29 DEF Next

LEMMA ControlTypeStep ==
  ASSUME TypeOK, Consistent, Written, [Next]_vars
  PROVE  ControlTypeOK'
  <1> USE ControlAssumption DEF TypeOK, ControlTypeOK, service, control, scm
  <1>1. CASE ReceiveUpdate
    BY <1>1 DEF ReceiveUpdate
  <1>2. CASE BeginReinstall
    <2>1. ctl' \in Controls
      BY <1>2 DEF BeginReinstall, stop_service, Controls
    <2>2. QED
      BY <1>2, <2>1 DEF BeginReinstall, Controls
  <1>3. CASE DetectService
    <2>1. faults' \in 0..MaxFaults
      BY <1>3, FaultType DEF DetectService, Hangs
    <2>2. QED
      BY <1>3, <2>1 DEF DetectService, Hangs
  <1>4. CASE StopForUpdate
    <2>1. ctl' \in Controls
      BY <1>4, StopType DEF StopForUpdate, Controls
    <2>2. QED
      BY <1>4, <2>1 DEF StopForUpdate, Controls
  <1>5. CASE KillForUpdate
    <2>1. KillResult
      BY <1>5, KillEffect DEF KillForUpdate
    <2>2. UNCHANGED <<late, free, ctl, exec>>
      BY <1>5 DEF KillForUpdate
    <2>3. QED
      BY <2>1, <2>2 DEF KillResult, Runs
  <1>6. CASE BackupBinary
    <2>1. faults' \in 0..MaxFaults
      BY <1>6, FaultType DEF BackupBinary
    <2>2. QED
      BY <1>6, <2>1 DEF BackupBinary
  <1>7. CASE Download
    <2>1. faults' \in 0..MaxFaults
      BY <1>7, FaultType DEF Download
    <2>2. QED
      BY <1>7, <2>1 DEF Download
  <1>8. CASE CreateBinary
    <2>1. run' \in Runs
      BY <1>8 DEF CreateBinary, Runs, Places
    <2>2. exec' \in {None, Torn} \cup Versions
      BY <1>8 DEF CreateBinary
    <2>3. QED
      BY <1>8, <2>1, <2>2 DEF CreateBinary, Runs
  <1>9. CASE FillBinary
    <2>1. faults' \in 0..MaxFaults
      BY <1>9, FaultType DEF FillBinary
    <2>2. exec' \in {None, Torn} \cup Versions
      BY <1>9, ToolUpdateAssumption DEF FillBinary
    <2>3. QED
      BY <1>9, <2>1, <2>2 DEF FillBinary
  <1>10. CASE Rollback
    <2>1. faults' \in 0..MaxFaults
      BY <1>10, FaultType DEF Rollback
    <2>2. ctl' \in Controls
      BY <1>10, StartType DEF Rollback, Controls
    <2>3. exec' \in {None, Torn} \cup Versions
      BY <1>10 DEF Rollback, TypeOK
    <2>4. QED
      BY <1>10, <2>1, <2>2, <2>3 DEF Rollback, Controls
  <1>11. CASE RemoveBundle
    BY <1>11 DEF RemoveBundle
  <1>12. CASE ExtractBundle
    <2>1. faults' \in 0..MaxFaults
      BY <1>12, FaultType DEF ExtractBundle
    <2>2. exec' \in {None, Torn} \cup Versions
      BY <1>12, ToolUpdateAssumption DEF ExtractBundle
    <2>3. QED
      BY <1>12, <2>1, <2>2 DEF ExtractBundle
  <1>13. CASE LaunchApp
    <2>1. faults' \in 0..MaxFaults
      BY <1>13, FaultType DEF LaunchApp
    <2>2. run' \in Runs
      BY <1>13, ToolUpdateAssumption DEF LaunchApp, At, Written, Runs, Places
    <2>3. QED
      BY <1>13, <2>1, <2>2 DEF LaunchApp, Runs
  <1>14. CASE FinalizeUpdate
    <2>1. ctl' \in Controls
      BY <1>14, StartType, StopType DEF FinalizeUpdate, Controls
    <2>2. faults' \in 0..MaxFaults
      BY <1>14, FaultType DEF FinalizeUpdate, Hangs
    <2>3. QED
      BY <1>14, <2>1, <2>2 DEF FinalizeUpdate, Controls
  <1>15. CASE ServiceReturns
    <2>1. ctl' \in Controls
      BY <1>15 DEF ServiceReturns, Idle, Controls
    <2>2. QED
      BY <1>15, <2>1 DEF ServiceReturns, Controls
  <1>16. CASE Remediate
    <2>1. KillResult
      BY <1>16, KillEffect DEF Remediate
    <2>2. UNCHANGED <<late, free, exec>>
      BY <1>16 DEF Remediate
    <2>3. ctl' \in Controls
      BY <1>16, StartType DEF Remediate, Controls
    <2>4. QED
      BY <2>1, <2>2, <2>3 DEF KillResult, Runs, Controls
  <1>17. CASE RecordVersion
    <2>1. faults' \in 0..MaxFaults
      BY <1>17, FaultType DEF RecordVersion
    <2>2. QED
      BY <1>17, <2>1 DEF RecordVersion
  <1>18. CASE UpdateAsset
    <2>1. faults' \in 0..MaxFaults
      BY <1>18, FaultType DEF UpdateAsset
    <2>2. QED
      BY <1>18, <2>1 DEF UpdateAsset
  <1>19. CASE EndOperation
    <2>1. faults' \in 0..MaxFaults
      BY <1>19, FaultType DEF EndOperation
    <2>2. QED
      BY <1>19, <2>1 DEF EndOperation
  <1>20. CASE WipeTool
    <2>1. KillResult
      BY <1>20, KillEffect DEF WipeTool
    <2>2. UNCHANGED <<late, free, ctl>> /\ exec' \in {None, exec}
      BY <1>20 DEF WipeTool
    <2>3. QED
      BY <2>1, <2>2 DEF KillResult, Runs
  <1>21. CASE FetchTool
    <2>1. faults' \in 0..MaxFaults
      BY <1>21, FaultType DEF FetchTool, NoAnswer, TimesOut, NoPermit
    <2>2. Tally
      BY <1>21, CallsType DEF FetchTool, Calls
    <2>3. exec' \in {None, Torn} \cup Versions
      BY <1>21, ToolUpdateAssumption DEF FetchTool
    <2>4. QED
      BY <1>21, <2>1, <2>2, <2>3 DEF FetchTool, Tally
  <1>22. CASE RegisterService
    <2>1. faults' \in 0..MaxFaults
      BY <1>22, FaultType DEF RegisterService
    <2>2. run' \in Runs
      BY <1>22, ToolUpdateAssumption DEF RegisterService, At, Written, Started, Runs, Places
    <2>3. ctl' \in Controls
      BY <1>22, StartType DEF RegisterService, Controls
    <2>4. svc' \in {"missing", "stopped", "running", "pending"}
      BY <1>22 DEF RegisterService, Started
    <2>5. QED
      BY <1>22, <2>1, <2>2, <2>3, <2>4 DEF RegisterService, Runs, Controls
  <1>23. CASE EnterTool
    <2>1. faults' \in 0..MaxFaults
      BY <1>23, FaultType DEF EnterTool
    <2>2. QED
      BY <1>23, <2>1 DEF EnterTool
  <1>24. CASE SuperviseTool
    <2>1. run' \in Runs
      BY <1>24 DEF SuperviseTool, Startable, Runs, Places
    <2>2. QED
      BY <1>24, <2>1 DEF SuperviseTool, Runs
  <1>25. CASE SurvivorEnds
    <2>1. run' \in Runs
      BY <1>25 DEF SurvivorEnds, Runs
    <2>2. QED
      BY <1>25, <2>1 DEF SurvivorEnds, Runs
  <1>26. CASE UserLogsIn
    BY <1>26 DEF UserLogsIn
  <1>27. CASE Crash
    <2>1. faults' \in 0..MaxFaults
      BY <1>27, FaultType DEF Crash
    <2>2. Tally
      BY <1>27 DEF Crash, Calls, Tally
    <2>3. ctl' \in Controls
      BY <1>27 DEF Crash, Idle, Controls
    <2>4. QED
      BY <1>27, <2>1, <2>2, <2>3 DEF Crash, Controls, Tally
  <1>28. CASE ServiceStep
    BY <1>28, ServiceEffect DEF ServiceStep, Beside
  <1>29. CASE UNCHANGED vars
    BY <1>29 DEF vars, history, service, control, scm
  <1>30. QED
    BY <1>1, <1>2, <1>3, <1>4, <1>5, <1>6, <1>7, <1>8, <1>9, <1>10, <1>11, <1>12,
       <1>13, <1>14, <1>15, <1>16, <1>17, <1>18, <1>19, <1>20, <1>21, <1>22, <1>23,
       <1>24, <1>25, <1>26, <1>27, <1>28, <1>29 DEF Next

LEMMA RecordTypeStep ==
  ASSUME TypeOK, Consistent, [Next]_vars
  PROVE  RecordTypeOK'
  <1> USE ToolUpdateAssumption DEF TypeOK, RecordTypeOK, Cases, Consistent, record, At
  <1>1. CASE ReceiveUpdate
    BY <1>1 DEF ReceiveUpdate
  <1>2. CASE BeginReinstall
    BY <1>2 DEF BeginReinstall
  <1>3. CASE DetectService
    BY <1>3 DEF DetectService, Hangs
  <1>4. CASE StopForUpdate
    BY <1>4 DEF StopForUpdate
  <1>5. CASE KillForUpdate
    BY <1>5 DEF KillForUpdate
  <1>6. CASE BackupBinary
    BY <1>6 DEF BackupBinary
  <1>7. CASE Download
    BY <1>7 DEF Download
  <1>8. CASE CreateBinary
    BY <1>8 DEF CreateBinary
  <1>9. CASE FillBinary
    BY <1>9 DEF FillBinary
  <1>10. CASE Rollback
    BY <1>10 DEF Rollback
  <1>11. CASE RemoveBundle
    BY <1>11 DEF RemoveBundle
  <1>12. CASE ExtractBundle
    BY <1>12 DEF ExtractBundle
  <1>13. CASE LaunchApp
    BY <1>13 DEF LaunchApp
  <1>14. CASE FinalizeUpdate
    BY <1>14 DEF FinalizeUpdate, Hangs
  <1>15. CASE ServiceReturns
    BY <1>15 DEF ServiceReturns
  <1>16. CASE Remediate
    BY <1>16 DEF Remediate
  <1>17. CASE RecordVersion
    BY <1>17 DEF RecordVersion
  <1>18. CASE UpdateAsset
    BY <1>18 DEF UpdateAsset
  <1>19. CASE EndOperation
    BY <1>19 DEF EndOperation
  <1>20. CASE WipeTool
    BY <1>20 DEF WipeTool
  <1>21. CASE FetchTool
    BY <1>21 DEF FetchTool
  <1>22. CASE RegisterService
    BY <1>22 DEF RegisterService
  <1>23. CASE EnterTool
    BY <1>23 DEF EnterTool
  <1>24. CASE SuperviseTool
    BY <1>24 DEF SuperviseTool
  <1>25. CASE SurvivorEnds
    BY <1>25 DEF SurvivorEnds
  <1>26. CASE UserLogsIn
    BY <1>26 DEF UserLogsIn
  <1>27. CASE Crash
    BY <1>27 DEF Crash
  <1>28. CASE ServiceStep
    BY <1>28 DEF ServiceStep, Beside
  <1>29. CASE UNCHANGED vars
    BY <1>29 DEF vars, history, service, control, scm
  <1>30. QED
    BY <1>1, <1>2, <1>3, <1>4, <1>5, <1>6, <1>7, <1>8, <1>9, <1>10, <1>11, <1>12,
       <1>13, <1>14, <1>15, <1>16, <1>17, <1>18, <1>19, <1>20, <1>21, <1>22, <1>23,
       <1>24, <1>25, <1>26, <1>27, <1>28, <1>29 DEF Next

LEMMA FilesTypeStep ==
  ASSUME TypeOK, [Next]_vars
  PROVE  FilesTypeOK'
  <1> USE ToolUpdateAssumption DEF TypeOK, ControlTypeOK, FilesTypeOK, aside, Cleared
  <1>1. CASE ReceiveUpdate
    BY <1>1 DEF ReceiveUpdate
  <1>2. CASE BeginReinstall
    BY <1>2 DEF BeginReinstall
  <1>3. CASE DetectService
    BY <1>3 DEF DetectService, Hangs
  <1>4. CASE StopForUpdate
    BY <1>4 DEF StopForUpdate
  <1>5. CASE KillForUpdate
    BY <1>5 DEF KillForUpdate
  <1>6. CASE BackupBinary
    BY <1>6 DEF BackupBinary
  <1>7. CASE Download
    BY <1>7 DEF Download
  <1>8. CASE CreateBinary
    BY <1>8 DEF CreateBinary
  <1>9. CASE FillBinary
    BY <1>9 DEF FillBinary
  <1>10. CASE Rollback
    BY <1>10 DEF Rollback
  <1>11. CASE RemoveBundle
    BY <1>11 DEF RemoveBundle
  <1>12. CASE ExtractBundle
    BY <1>12 DEF ExtractBundle
  <1>13. CASE LaunchApp
    BY <1>13 DEF LaunchApp
  <1>14. CASE FinalizeUpdate
    BY <1>14 DEF FinalizeUpdate, Hangs
  <1>15. CASE ServiceReturns
    BY <1>15 DEF ServiceReturns
  <1>16. CASE Remediate
    BY <1>16 DEF Remediate
  <1>17. CASE RecordVersion
    BY <1>17 DEF RecordVersion
  <1>18. CASE UpdateAsset
    BY <1>18 DEF UpdateAsset
  <1>19. CASE EndOperation
    BY <1>19 DEF EndOperation
  <1>20. CASE WipeTool
    BY <1>20 DEF WipeTool
  <1>21. CASE FetchTool
    BY <1>21 DEF FetchTool
  <1>22. CASE RegisterService
    BY <1>22 DEF RegisterService
  <1>23. CASE EnterTool
    BY <1>23 DEF EnterTool
  <1>24. CASE SuperviseTool
    BY <1>24 DEF SuperviseTool
  <1>25. CASE SurvivorEnds
    BY <1>25 DEF SurvivorEnds
  <1>26. CASE UserLogsIn
    BY <1>26 DEF UserLogsIn
  <1>27. CASE Crash
    BY <1>27 DEF Crash
  <1>28. CASE ServiceStep
    BY <1>28 DEF ServiceStep, Beside
  <1>29. CASE UNCHANGED vars
    BY <1>29 DEF vars, history, service, control, scm
  <1>30. QED
    BY <1>1, <1>2, <1>3, <1>4, <1>5, <1>6, <1>7, <1>8, <1>9, <1>10, <1>11, <1>12,
       <1>13, <1>14, <1>15, <1>16, <1>17, <1>18, <1>19, <1>20, <1>21, <1>22, <1>23,
       <1>24, <1>25, <1>26, <1>27, <1>28, <1>29 DEF Next

LEMMA MessagesTypeStep ==
  ASSUME TypeOK, [Next]_vars
  PROVE  MessagesTypeOK'
  <1> USE ToolUpdateAssumption DEF TypeOK, MessagesTypeOK, Messages, history
  <1>1. CASE ReceiveUpdate
    BY <1>1 DEF ReceiveUpdate
  <1>2. CASE BeginReinstall
    BY <1>2 DEF BeginReinstall
  <1>3. CASE DetectService
    BY <1>3 DEF DetectService, Hangs
  <1>4. CASE StopForUpdate
    BY <1>4 DEF StopForUpdate
  <1>5. CASE KillForUpdate
    BY <1>5 DEF KillForUpdate
  <1>6. CASE BackupBinary
    BY <1>6 DEF BackupBinary
  <1>7. CASE Download
    BY <1>7 DEF Download
  <1>8. CASE CreateBinary
    BY <1>8 DEF CreateBinary
  <1>9. CASE FillBinary
    BY <1>9 DEF FillBinary
  <1>10. CASE Rollback
    BY <1>10 DEF Rollback
  <1>11. CASE RemoveBundle
    BY <1>11 DEF RemoveBundle
  <1>12. CASE ExtractBundle
    BY <1>12 DEF ExtractBundle
  <1>13. CASE LaunchApp
    BY <1>13 DEF LaunchApp
  <1>14. CASE FinalizeUpdate
    BY <1>14 DEF FinalizeUpdate, Hangs
  <1>15. CASE ServiceReturns
    BY <1>15 DEF ServiceReturns
  <1>16. CASE Remediate
    BY <1>16 DEF Remediate
  <1>17. CASE RecordVersion
    BY <1>17 DEF RecordVersion
  <1>18. CASE UpdateAsset
    BY <1>18 DEF UpdateAsset
  <1>19. CASE EndOperation
    <2>1. 0 \in 0..MaxDeliver
      OBVIOUS
    <2>2. left' \in {left, [left EXCEPT ![op.name] = 0]} /\ UNCHANGED <<userIn, history>>
      BY <1>19 DEF EndOperation
    <2>3. QED
      BY <2>1, <2>2
  <1>20. CASE WipeTool
    BY <1>20 DEF WipeTool
  <1>21. CASE FetchTool
    BY <1>21 DEF FetchTool
  <1>22. CASE RegisterService
    BY <1>22 DEF RegisterService
  <1>23. CASE EnterTool
    BY <1>23 DEF EnterTool
  <1>24. CASE SuperviseTool
    BY <1>24 DEF SuperviseTool
  <1>25. CASE SurvivorEnds
    BY <1>25 DEF SurvivorEnds
  <1>26. CASE UserLogsIn
    BY <1>26 DEF UserLogsIn
  <1>27. CASE Crash
    BY <1>27 DEF Crash
  <1>28. CASE ServiceStep
    BY <1>28 DEF ServiceStep, Beside
  <1>29. CASE UNCHANGED vars
    BY <1>29 DEF vars, history, service, control, scm
  <1>30. QED
    BY <1>1, <1>2, <1>3, <1>4, <1>5, <1>6, <1>7, <1>8, <1>9, <1>10, <1>11, <1>12,
       <1>13, <1>14, <1>15, <1>16, <1>17, <1>18, <1>19, <1>20, <1>21, <1>22, <1>23,
       <1>24, <1>25, <1>26, <1>27, <1>28, <1>29 DEF Next

LEMMA TypeStep ==
  ASSUME TypeOK, Consistent, Written, [Next]_vars
  PROVE  TypeOK'
  <1>1. ControlTypeOK' /\ op' \in Operations /\ RecordTypeOK' /\ FilesTypeOK' /\ MessagesTypeOK'
    BY ControlTypeStep, OperationTypeStep, RecordTypeStep, FilesTypeStep, MessagesTypeStep
  <1>2. QED
    BY <1>1 DEF TypeOK, RecordTypeOK, FilesTypeOK, MessagesTypeOK, Operations

-----------------------------------------------------------------------------
(* The invariant is preserved *)

LEMMA ConsistentStep ==
  ASSUME TypeOK, Consistent, [Next]_vars
  PROVE  Consistent'
  <1> USE DEF TypeOK, Cases, Consistent, Waiting, record, aside, history, service, control, scm, At,
          Then, NoOp, Idle, start_service, stop_service
  <1>1. CASE ReceiveUpdate
    BY <1>1 DEF ReceiveUpdate
  <1>2. CASE BeginReinstall
    BY <1>2 DEF BeginReinstall
  <1>3. CASE DetectService
    BY <1>3 DEF DetectService, Hangs
  <1>4. CASE StopForUpdate
    BY <1>4 DEF StopForUpdate
  <1>5. CASE KillForUpdate
    BY <1>5, KillEffect DEF KillResult, KillForUpdate, Places
  <1>6. CASE BackupBinary
    BY <1>6 DEF BackupBinary
  <1>7. CASE Download
    BY <1>7 DEF Download
  <1>8. CASE CreateBinary
    BY <1>8 DEF CreateBinary
  <1>9. CASE FillBinary
    BY <1>9 DEF FillBinary
  <1>10. CASE Rollback
    BY <1>10 DEF Rollback
  <1>11. CASE RemoveBundle
    BY <1>11 DEF RemoveBundle
  <1>12. CASE ExtractBundle
    BY <1>12 DEF ExtractBundle
  <1>13. CASE LaunchApp
    BY <1>13 DEF LaunchApp
  <1>14. CASE FinalizeUpdate
    BY <1>14 DEF FinalizeUpdate, Hangs
  <1>15. CASE ServiceReturns
    BY <1>15, ReturnsEffect DEF ServiceReturns
  <1>16. CASE Remediate
    BY <1>16, KillEffect DEF KillResult, Remediate, Places
  <1>17. CASE RecordVersion
    BY <1>17 DEF RecordVersion
  <1>18. CASE UpdateAsset
    BY <1>18 DEF UpdateAsset
  <1>19. CASE EndOperation
    BY <1>19 DEF EndOperation
  <1>20. CASE WipeTool
    BY <1>20, KillEffect DEF KillResult, WipeTool, Places
  <1>21. CASE FetchTool
    BY <1>21 DEF FetchTool
  <1>22. CASE RegisterService
    BY <1>22 DEF RegisterService, Started
  <1>23. CASE EnterTool
    BY <1>23 DEF EnterTool
  <1>24. CASE SuperviseTool
    BY <1>24 DEF SuperviseTool
  <1>25. CASE SurvivorEnds
    BY <1>25 DEF SurvivorEnds
  <1>26. CASE UserLogsIn
    BY <1>26 DEF UserLogsIn
  <1>27. CASE Crash
    BY <1>27 DEF Crash
  <1>28. CASE ServiceStep
    BY <1>28, ServiceEffect DEF ServiceStep, Beside, Controlled
  <1>29. CASE UNCHANGED vars
    BY <1>29 DEF vars, history, service, control, scm
  <1>30. QED
    BY <1>1, <1>2, <1>3, <1>4, <1>5, <1>6, <1>7, <1>8, <1>9, <1>10, <1>11, <1>12,
       <1>13, <1>14, <1>15, <1>16, <1>17, <1>18, <1>19, <1>20, <1>21, <1>22, <1>23,
       <1>24, <1>25, <1>26, <1>27, <1>28, <1>29 DEF Next

LEMMA AllowedStep ==
  ASSUME TypeOK, Consistent, Allowed, [Next]_vars
  PROVE  Allowed'
  <1> USE DEF TypeOK, ControlTypeOK, Consistent, Waiting, Allowed, record, aside,
          service, control, scm, At, Then, NoOp, Idle, start_service, stop_service
  <1>1. CASE ReceiveUpdate
    BY <1>1 DEF ReceiveUpdate
  <1>2. CASE BeginReinstall
    BY <1>2 DEF BeginReinstall
  <1>3. CASE DetectService
    BY <1>3 DEF DetectService, Hangs
  <1>4. CASE StopForUpdate
    BY <1>4 DEF StopForUpdate
  <1>5. CASE KillForUpdate
    BY <1>5 DEF KillForUpdate
  <1>6. CASE BackupBinary
    BY <1>6 DEF BackupBinary
  <1>7. CASE Download
    BY <1>7 DEF Download
  <1>8. CASE CreateBinary
    BY <1>8 DEF CreateBinary
  <1>9. CASE FillBinary
    BY <1>9 DEF FillBinary
  <1>10. CASE Rollback
    <2>1. ctl = Idle
      BY <1>10 DEF Rollback
    <2>2. start_service \/ UNCHANGED ctl
      BY <1>10, Zenon DEF Rollback
    <2>3. QED
      BY <2>1, <2>2
  <1>11. CASE RemoveBundle
    BY <1>11 DEF RemoveBundle
  <1>12. CASE ExtractBundle
    BY <1>12 DEF ExtractBundle
  <1>13. CASE LaunchApp
    BY <1>13 DEF LaunchApp
  <1>14. CASE FinalizeUpdate
    <2>1. ctl = Idle
      BY <1>14 DEF FinalizeUpdate
    <2>2. start_service \/ stop_service(FALSE) \/ UNCHANGED ctl
      BY <1>14, Zenon DEF FinalizeUpdate
    <2>3. QED
      BY <2>1, <2>2
  <1>15. CASE ServiceReturns
    BY <1>15 DEF ServiceReturns
  <1>16. CASE Remediate
    BY <1>16 DEF Remediate
  <1>17. CASE RecordVersion
    BY <1>17 DEF RecordVersion
  <1>18. CASE UpdateAsset
    BY <1>18 DEF UpdateAsset
  <1>19. CASE EndOperation
    BY <1>19 DEF EndOperation
  <1>20. CASE WipeTool
    BY <1>20 DEF WipeTool
  <1>21. CASE FetchTool
    BY <1>21 DEF FetchTool
  <1>22. CASE RegisterService
    BY <1>22 DEF RegisterService
  <1>23. CASE EnterTool
    BY <1>23 DEF EnterTool
  <1>24. CASE SuperviseTool
    BY <1>24 DEF SuperviseTool
  <1>25. CASE SurvivorEnds
    BY <1>25 DEF SurvivorEnds
  <1>26. CASE UserLogsIn
    BY <1>26 DEF UserLogsIn
  <1>27. CASE Crash
    BY <1>27 DEF Crash
  <1>28. CASE ServiceStep
    BY <1>28, ServiceEffect DEF ServiceStep, Beside, Controlled
  <1>29. CASE UNCHANGED vars
    BY <1>29 DEF vars, history, service, control, scm
  <1>30. QED
    BY <1>1, <1>2, <1>3, <1>4, <1>5, <1>6, <1>7, <1>8, <1>9, <1>10, <1>11, <1>12,
       <1>13, <1>14, <1>15, <1>16, <1>17, <1>18, <1>19, <1>20, <1>21, <1>22, <1>23,
       <1>24, <1>25, <1>26, <1>27, <1>28, <1>29 DEF Next

LEMMA CondemnedStep ==
  ASSUME TypeOK, Allowed, Condemned, [Next]_vars
  PROVE  Condemned'
  <1> USE DEF Condemned, service, control, scm, history
  <1>1. CASE ReceiveUpdate
    BY <1>1 DEF ReceiveUpdate
  <1>2. CASE BeginReinstall
    BY <1>2 DEF BeginReinstall
  <1>3. CASE DetectService
    BY <1>3 DEF DetectService
  <1>4. CASE StopForUpdate
    BY <1>4 DEF StopForUpdate
  <1>5. CASE KillForUpdate
    BY <1>5, KillEffect DEF KillResult, KillForUpdate, TypeOK, Places
  <1>6. CASE BackupBinary
    BY <1>6 DEF BackupBinary
  <1>7. CASE Download
    BY <1>7 DEF Download
  <1>8. CASE CreateBinary
    BY <1>8 DEF CreateBinary
  <1>9. CASE FillBinary
    BY <1>9 DEF FillBinary
  <1>10. CASE Rollback
    BY <1>10 DEF Rollback
  <1>11. CASE RemoveBundle
    BY <1>11 DEF RemoveBundle
  <1>12. CASE ExtractBundle
    BY <1>12 DEF ExtractBundle
  <1>13. CASE LaunchApp
    BY <1>13 DEF LaunchApp
  <1>14. CASE FinalizeUpdate
    BY <1>14 DEF FinalizeUpdate
  <1>15. CASE ServiceReturns
    BY <1>15 DEF ServiceReturns
  <1>16. CASE Remediate
    BY <1>16, KillEffect DEF KillResult, Remediate, TypeOK, Places
  <1>17. CASE RecordVersion
    BY <1>17 DEF RecordVersion
  <1>18. CASE UpdateAsset
    BY <1>18 DEF UpdateAsset
  <1>19. CASE EndOperation
    BY <1>19 DEF EndOperation
  <1>20. CASE WipeTool
    BY <1>20, KillEffect DEF KillResult, WipeTool, TypeOK, Places
  <1>21. CASE FetchTool
    BY <1>21, CallsType DEF FetchTool, Calls, TypeOK
  <1>22. CASE RegisterService
    BY <1>22 DEF RegisterService
  <1>23. CASE EnterTool
    BY <1>23 DEF EnterTool
  <1>24. CASE SuperviseTool
    BY <1>24 DEF SuperviseTool
  <1>25. CASE SurvivorEnds
    BY <1>25 DEF SurvivorEnds
  <1>26. CASE UserLogsIn
    BY <1>26 DEF UserLogsIn
  <1>27. CASE Crash
    BY <1>27 DEF Crash, Calls
  <1>28. CASE ServiceStep
    <2>1. Controlled /\ Beside
      BY <1>28, ServiceEffect DEF ServiceStep, TypeOK
    <2>2. QED
      BY <2>1 DEF Controlled, Beside, Allowed
  <1>29. CASE UNCHANGED vars
    BY <1>29 DEF vars
  <1>30. QED
    BY <1>1, <1>2, <1>3, <1>4, <1>5, <1>6, <1>7, <1>8, <1>9, <1>10, <1>11, <1>12,
       <1>13, <1>14, <1>15, <1>16, <1>17, <1>18, <1>19, <1>20, <1>21, <1>22, <1>23,
       <1>24, <1>25, <1>26, <1>27, <1>28, <1>29 DEF Next

LEMMA InUseStep ==
  ASSUME TypeOK, Consistent, Written, InUse, [Next]_vars
  PROVE  InUse'
  <1> USE DEF TypeOK, ControlTypeOK, Consistent, Written, InUse, AsideLocked, Cleared,
          Runs, Places, record, aside, history, service, control, scm, At, Then, NoOp, Idle,
          start_service, stop_service
  <1>1. CASE ReceiveUpdate
    BY <1>1 DEF ReceiveUpdate
  <1>2. CASE BeginReinstall
    BY <1>2 DEF BeginReinstall
  <1>3. CASE DetectService
    BY <1>3 DEF DetectService, Hangs
  <1>4. CASE StopForUpdate
    BY <1>4 DEF StopForUpdate
  <1>5. CASE KillForUpdate
    BY <1>5, KillEffect DEF KillResult, KillForUpdate
  <1>6. CASE BackupBinary
    BY <1>6 DEF BackupBinary
  <1>7. CASE Download
    BY <1>7 DEF Download
  <1>8. CASE CreateBinary
    BY <1>8 DEF CreateBinary
  <1>9. CASE FillBinary
    <2>1. exec = Torn /\ UNCHANGED <<run, old, goal>>
      BY <1>9 DEF FillBinary
    <2>2. run["exec"] = None
      BY <2>1, ControlAssumption DEF Torn, None
    <2>3. QED
      BY <2>1, <2>2
  <1>10. CASE Rollback
    BY <1>10 DEF Rollback
  <1>11. CASE RemoveBundle
    BY <1>11 DEF RemoveBundle
  <1>12. CASE ExtractBundle
    BY <1>12 DEF ExtractBundle
  <1>13. CASE LaunchApp
    BY <1>13 DEF LaunchApp
  <1>14. CASE FinalizeUpdate
    BY <1>14 DEF FinalizeUpdate, Hangs
  <1>15. CASE ServiceReturns
    BY <1>15 DEF ServiceReturns
  <1>16. CASE Remediate
    BY <1>16, KillEffect DEF KillResult, Remediate
  <1>17. CASE RecordVersion
    BY <1>17 DEF RecordVersion
  <1>18. CASE UpdateAsset
    BY <1>18 DEF UpdateAsset
  <1>19. CASE EndOperation
    BY <1>19 DEF EndOperation
  <1>20. CASE WipeTool
    BY <1>20, KillEffect DEF KillResult, WipeTool
  <1>21. CASE FetchTool
    BY <1>21 DEF FetchTool
  <1>22. CASE RegisterService
    BY <1>22 DEF RegisterService, Started
  <1>23. CASE EnterTool
    BY <1>23 DEF EnterTool
  <1>24. CASE SuperviseTool
    BY <1>24 DEF SuperviseTool
  <1>25. CASE SurvivorEnds
    BY <1>25 DEF SurvivorEnds
  <1>26. CASE UserLogsIn
    BY <1>26 DEF UserLogsIn
  <1>27. CASE Crash
    BY <1>27 DEF Crash
  <1>28. CASE ServiceStep
    BY <1>28, ServiceEffect DEF ServiceStep, Beside, Controlled
  <1>29. CASE UNCHANGED vars
    BY <1>29 DEF vars, history, service, control, scm
  <1>30. QED
    BY <1>1, <1>2, <1>3, <1>4, <1>5, <1>6, <1>7, <1>8, <1>9, <1>10, <1>11, <1>12,
       <1>13, <1>14, <1>15, <1>16, <1>17, <1>18, <1>19, <1>20, <1>21, <1>22, <1>23,
       <1>24, <1>25, <1>26, <1>27, <1>28, <1>29 DEF Next

LEMMA WrittenStep ==
  ASSUME TypeOK, Consistent, InUse, Written, [Next]_vars
  PROVE  Written'
  <1> USE DEF TypeOK, ControlTypeOK, Consistent, InUse, Written, Runs, Places, record,
          aside, service, control, scm, At, Then, NoOp, Idle, start_service, stop_service
  <1>1. CASE ReceiveUpdate
    BY <1>1 DEF ReceiveUpdate
  <1>2. CASE BeginReinstall
    BY <1>2 DEF BeginReinstall
  <1>3. CASE DetectService
    BY <1>3 DEF DetectService, Hangs
  <1>4. CASE StopForUpdate
    BY <1>4 DEF StopForUpdate
  <1>5. CASE KillForUpdate
    <2>1. KillResult /\ exec' = exec
      BY <1>5, KillEffect DEF KillForUpdate
    <2>2. op'.at \in {"fail", "asset", "remove", "backup"}
      BY <1>5 DEF KillForUpdate
    <2>3. op'.at = "remove" => run'["exec"] = None
      <3>1. SUFFICES ASSUME run'["exec"] # None PROVE op'.at # "remove"
        OBVIOUS
      <3>2. (\E p \in Places : run'[p] # None) /\ "exec" \in Places
        BY <3>1
      <3>3. CASE kind = "service" /\ op.tool
        BY <1>5, <3>2, <3>3 DEF KillForUpdate
      <3>4. CASE ~(kind = "service" /\ op.tool)
        BY <1>5, <3>2, <3>4 DEF KillForUpdate
      <3>5. QED
        BY <3>3, <3>4
    <2>4. QED
      BY <2>2, <2>3
  <1>6. CASE BackupBinary
    BY <1>6 DEF BackupBinary
  <1>7. CASE Download
    BY <1>7 DEF Download
  <1>8. CASE CreateBinary
    BY <1>8 DEF CreateBinary
  <1>9. CASE FillBinary
    BY <1>9 DEF FillBinary
  <1>10. CASE Rollback
    BY <1>10 DEF Rollback
  <1>11. CASE RemoveBundle
    BY <1>11 DEF RemoveBundle
  <1>12. CASE ExtractBundle
    BY <1>12 DEF ExtractBundle
  <1>13. CASE LaunchApp
    BY <1>13 DEF LaunchApp
  <1>14. CASE FinalizeUpdate
    BY <1>14 DEF FinalizeUpdate, Hangs
  <1>15. CASE ServiceReturns
    <2>1. UNCHANGED <<exec, run>>
      BY <1>15 DEF ServiceReturns
    <2>2. /\ op'.at \in {"kill", "record", "fail", "rekill", "wipe", "enter"}
          /\ op'.at \in {"record", "rekill"} => op.at \in {"starting", "restart", "remediate"}
          /\ op'.at = "enter" => op.at = "verify"
      BY <1>15, ReturnsEffect DEF Waiting
    <2>3. QED
      BY <2>1, <2>2
  <1>16. CASE Remediate
    BY <1>16, KillEffect DEF KillResult, Remediate
  <1>17. CASE RecordVersion
    BY <1>17 DEF RecordVersion
  <1>18. CASE UpdateAsset
    BY <1>18 DEF UpdateAsset
  <1>19. CASE EndOperation
    BY <1>19 DEF EndOperation
  <1>20. CASE WipeTool
    BY <1>20, KillEffect DEF KillResult, WipeTool
  <1>21. CASE FetchTool
    BY <1>21 DEF FetchTool
  <1>22. CASE RegisterService
    BY <1>22 DEF RegisterService, Started
  <1>23. CASE EnterTool
    BY <1>23 DEF EnterTool
  <1>24. CASE SuperviseTool
    BY <1>24 DEF SuperviseTool
  <1>25. CASE SurvivorEnds
    BY <1>25 DEF SurvivorEnds
  <1>26. CASE UserLogsIn
    BY <1>26 DEF UserLogsIn
  <1>27. CASE Crash
    BY <1>27 DEF Crash
  <1>28. CASE ServiceStep
    BY <1>28, ServiceEffect DEF ServiceStep, Beside, Controlled
  <1>29. CASE UNCHANGED vars
    BY <1>29 DEF vars, history, service, control, scm
  <1>30. QED
    BY <1>1, <1>2, <1>3, <1>4, <1>5, <1>6, <1>7, <1>8, <1>9, <1>10, <1>11, <1>12,
       <1>13, <1>14, <1>15, <1>16, <1>17, <1>18, <1>19, <1>20, <1>21, <1>22, <1>23,
       <1>24, <1>25, <1>26, <1>27, <1>28, <1>29 DEF Next

LEMMA WholeStep ==
  ASSUME TypeOK, Consistent, Written, Whole, [Next]_vars
  PROVE  Whole'
  <1> USE ToolUpdateAssumption DEF TypeOK, ControlTypeOK, Consistent, Written, Whole,
          Single, record, aside, history, service, control, scm, At, Then, NoOp, Idle, start_service,
          stop_service
  <1>1. CASE ReceiveUpdate
    BY <1>1 DEF ReceiveUpdate
  <1>2. CASE BeginReinstall
    BY <1>2 DEF BeginReinstall
  <1>3. CASE DetectService
    BY <1>3 DEF DetectService, Hangs
  <1>4. CASE StopForUpdate
    BY <1>4 DEF StopForUpdate
  <1>5. CASE KillForUpdate
    BY <1>5 DEF KillForUpdate
  <1>6. CASE BackupBinary
    <2>1. /\ op.at = "backup" /\ UNCHANGED <<exec, kind, goal, spoiled>>
          /\ \/ op'.at = "fail"
             \/ op'.at = "download" /\ (exec # None => op'.saved /\ backup' = exec)
      BY <1>6 DEF BackupBinary
    <2>2. \A v \in Versions : v # None
      BY ControlAssumption DEF None
    <2>3. QED
      BY <2>1, <2>2
  <1>7. CASE Download
    BY <1>7 DEF Download
  <1>8. CASE CreateBinary
    BY <1>8 DEF CreateBinary
  <1>9. CASE FillBinary
    BY <1>9 DEF FillBinary
  <1>10. CASE Rollback
    BY <1>10 DEF Rollback
  <1>11. CASE RemoveBundle
    BY <1>11 DEF RemoveBundle
  <1>12. CASE ExtractBundle
    BY <1>12 DEF ExtractBundle
  <1>13. CASE LaunchApp
    BY <1>13 DEF LaunchApp
  <1>14. CASE FinalizeUpdate
    BY <1>14 DEF FinalizeUpdate, Hangs
  <1>15. CASE ServiceReturns
    <2>1. UNCHANGED <<exec, kind, goal, spoiled>>
      BY <1>15 DEF ServiceReturns
    <2>2. /\ op'.at \in {"kill", "record", "fail", "rekill", "wipe", "enter"}
          /\ op.at \in Waiting
      BY <1>15, ReturnsEffect DEF Waiting
    <2>3. QED
      BY <2>1, <2>2 DEF Waiting
  <1>16. CASE Remediate
    BY <1>16 DEF Remediate
  <1>17. CASE RecordVersion
    BY <1>17 DEF RecordVersion
  <1>18. CASE UpdateAsset
    BY <1>18 DEF UpdateAsset
  <1>19. CASE EndOperation
    BY <1>19 DEF EndOperation
  <1>20. CASE WipeTool
    BY <1>20 DEF WipeTool
  <1>21. CASE FetchTool
    BY <1>21 DEF FetchTool
  <1>22. CASE RegisterService
    BY <1>22 DEF RegisterService
  <1>23. CASE EnterTool
    BY <1>23 DEF EnterTool
  <1>24. CASE SuperviseTool
    BY <1>24 DEF SuperviseTool
  <1>25. CASE SurvivorEnds
    BY <1>25 DEF SurvivorEnds
  <1>26. CASE UserLogsIn
    BY <1>26 DEF UserLogsIn
  <1>27. CASE Crash
    BY <1>27 DEF Crash
  <1>28. CASE ServiceStep
    BY <1>28, ServiceEffect DEF ServiceStep, Beside
  <1>29. CASE UNCHANGED vars
    BY <1>29 DEF vars, history, service, control, scm
  <1>30. QED
    BY <1>1, <1>2, <1>3, <1>4, <1>5, <1>6, <1>7, <1>8, <1>9, <1>10, <1>11, <1>12,
       <1>13, <1>14, <1>15, <1>16, <1>17, <1>18, <1>19, <1>20, <1>21, <1>22, <1>23,
       <1>24, <1>25, <1>26, <1>27, <1>28, <1>29 DEF Next

Invariant == TypeOK /\ Consistent /\ Allowed /\ Condemned /\ InUse /\ Written /\ Whole

\* The versions have a smallest one.
LEMMA FirstVersion == First \in Versions
  <1>1. PICK v \in Versions : \A w \in Versions : ~(<<w, v>> \in OpToRel(<, Nat))
    BY ControlAssumption, NatLessThanWellFounded, WFMin
  <1>2. ASSUME NEW w \in Versions PROVE v <= w
    <2>1. w \in Nat /\ v \in Nat /\ ~(<<w, v>> \in OpToRel(<, Nat))
      BY <1>1, ControlAssumption
    <2>2. <<w, v>> \in Nat \X Nat /\ <<w, v>>[1] = w /\ <<w, v>>[2] = v
      BY <2>1
    <2>3. ~(w < v)
      BY <2>1, <2>2, Zenon DEF OpToRel
    <2>4. w \in Nat /\ v \in Nat
      BY ControlAssumption
    <2>5. QED
      BY <2>3, <2>4
  <1>3. QED
    BY <1>2 DEF First

LEMMA InitHolds == Init => Invariant
  <1> SUFFICES ASSUME Init PROVE Invariant
    OBVIOUS
  <1>1. First \in Versions
    BY FirstVersion
  <1>2. run \in Runs /\ run["exec"] = First /\ run["old"] = None
    BY <1>1 DEF Init, Runs, Places
  <1>3. ControlTypeOK
    <2>1. ctl \in Controls
      BY ControlAssumption DEF Init, Idle, Controls
    <2>2. late = [c \in Calls |-> 0] /\ free = Permits /\ faults = 0
          /\ recover = FALSE /\ marked = FALSE
      BY DEF Init
    <2>3. /\ late \in [Calls -> 0..Permits] /\ free \in 0..Permits
          /\ late["stop"] + late["start"] + late["query"] + late["delete"] + free = Permits
      BY <2>2, ControlAssumption DEF Calls
    <2>4. faults \in 0..MaxFaults
      BY <2>2, ControlAssumption
    <2>5. svc \in {"missing", "stopped", "running", "pending"} /\ wedged = "no" /\ exec = First
      BY DEF Init
    <2>6. QED
      BY <1>1, <1>2, <2>1, <2>2, <2>3, <2>4, <2>5 DEF ControlTypeOK, Controls, Runs
  <1>4. TypeOK
    <2>1. left \in [Messages -> 0..MaxDeliver]
      BY ToolUpdateAssumption DEF Init
    <2>2. op \in Operations
      BY DEF Init, NoOp, Operations, Steps
    <2>3. <<kind, goal>> \in Cases
      BY DEF Init, Cases
    <2>4. QED
      BY <1>1, <1>3, <2>1, <2>2, <2>3 DEF Init, TypeOK, Operations
  <1>5. Consistent /\ Allowed /\ Condemned
    BY DEF Init, Cases, Consistent, Allowed, Condemned, Waiting, NoOp, Idle, Calls
  <1>6. InUse /\ Written
    BY <1>1, <1>2 DEF Init, InUse, Written, NoOp
  <1>7. Whole
    BY <1>1 DEF Init, Whole, NoOp
  <1>8. QED
    BY <1>4, <1>5, <1>6, <1>7 DEF Invariant

LEMMA InvariantStep == Invariant /\ [Next]_vars => Invariant'
  BY TypeStep, ConsistentStep, AllowedStep, CondemnedStep, InUseStep, WrittenStep, WholeStep
     DEF Invariant

LEMMA InvariantHolds == Spec => []Invariant
  BY InitHolds, InvariantStep, PTL DEF Spec

-----------------------------------------------------------------------------
(* Theorems *)

\* The types of the whole state, among them that the permits of the SCM and the calls that
\* hold one always add up to SCM_MAX_IN_FLIGHT (TimedPermitPool).
THEOREM ToolUpdateTypeCorrect == Spec => []TypeOK
  BY InvariantHolds, PTL DEF Invariant

\* A program with one file survives its updates: whatever fails, a complete version is on
\* disk, and in its place once the operation is over (run_update, rollback).
THEOREM ProgramSurvives == Spec => []BinarySurvives
  <1>1. Invariant => BinarySurvives
    BY DEF Invariant, Whole, BinarySurvives, At
  <1>2. QED
    BY InvariantHolds, <1>1, PTL

\* The record names a new version only when the program is that version and nothing runs
\* another (do_tool_update, clear_aside_binary).
THEOREM RecordAlwaysHonest == Spec => HonestRecord
  <1>1. ASSUME Invariant, [Next]_vars
        PROVE  [version' # version =>
                  exec = version' /\ run["old"] = None /\ run["exec"] \in {None, version'}]_vars
    <2> SUFFICES ASSUME Next, version' # version
                 PROVE  exec = version' /\ run["old"] = None /\ run["exec"] \in {None, version'}
      BY <1>1 DEF vars, record
    <2>1. RecordVersion \/ EnterTool
      BY DEF Next, record, ReceiveUpdate, BeginReinstall, DetectService, StopForUpdate,
             KillForUpdate, BackupBinary, Download, CreateBinary, FillBinary, Rollback,
             RemoveBundle, ExtractBundle, LaunchApp, FinalizeUpdate, ServiceReturns, Remediate,
             UpdateAsset, EndOperation, WipeTool, FetchTool, RegisterService, SuperviseTool,
             SurvivorEnds, UserLogsIn, Crash, ServiceStep, Beside
    <2>2. CASE RecordVersion
      BY <1>1, <2>2 DEF RecordVersion, Invariant, InUse, Written, At, AsideLocked, TypeOK,
                        ControlTypeOK
    <2>3. CASE EnterTool
      BY <1>1, <2>3 DEF EnterTool, Invariant, InUse, Written, At
    <2>4. QED
      BY <2>1, <2>2, <2>3
  <1>2. QED
    BY InvariantHolds, <1>1, PTL DEF Spec, HonestRecord

\* The service disappears from the SCM only after a reinstallation has called for its
\* deletion, whenever the mark takes effect (allow_delete, delete_service_windows).
THEOREM ServiceNeverLost == Spec => ServiceNotLost
  <1>1. ASSUME Invariant, [Next]_vars
        PROVE  [svc' = "missing" /\ svc # "missing" => condemned]_vars
    <2> SUFFICES ASSUME Next, svc' = "missing", svc # "missing" PROVE condemned
      BY <1>1 DEF vars, service, control, scm
    <2>1. CASE ServiceStep
      BY <1>1, <2>1, ServiceEffect DEF ServiceStep, Controlled, Invariant, TypeOK, Condemned
    <2>2. CASE KillForUpdate \/ Remediate \/ WipeTool
      BY <1>1, <2>2, KillEffect DEF KillForUpdate, Remediate, WipeTool, KillResult, Invariant,
                                    TypeOK, Places
    <2>3. CASE RegisterService \/ SurvivorEnds
      BY <2>3 DEF RegisterService, Started, SurvivorEnds
    <2>4. ServiceStep \/ KillForUpdate \/ Remediate \/ WipeTool \/ RegisterService \/ SurvivorEnds
      BY DEF Next, service, control, scm, ReceiveUpdate, BeginReinstall, DetectService,
             StopForUpdate, BackupBinary, Download, CreateBinary, FillBinary, Rollback,
             RemoveBundle, ExtractBundle, LaunchApp, FinalizeUpdate, ServiceReturns, RecordVersion,
             UpdateAsset, EndOperation, FetchTool, EnterTool, SuperviseTool, UserLogsIn, Crash
    <2>5. QED
      BY <2>1, <2>2, <2>3, <2>4
  <1>2. QED
    BY InvariantHolds, <1>1, PTL DEF Spec, ServiceNotLost
=============================================================================
