------------------------- MODULE ToolLifecycleProofs -------------------------
(***************************************************************************)
(* Theorems about the life of a tool, for every number of operations,      *)
(* supervisors, versions, crashes and failures.                            *)
(***************************************************************************)
EXTENDS ToolLifecycle, FiniteSetTheorems, TLAPS

-----------------------------------------------------------------------------
(* Operations: how a step changes its record.                              *)

\* The paths of the kinds, one by one.
LEMMA StagesOf ==
  /\ Stages("none") = {"idle"}
  /\ Stages("install") = {"lock", "mark", "inspect", "leftovers", "download",
                          "command", "run", "spawn", "clear", "end"}
  /\ Stages("reinstall") = {"lock", "mark", "inspect", "stop_old", "remove_dir",
                            "leftovers", "download", "command", "run", "spawn",
                            "clear", "end"}
  /\ Stages("update") = {"read", "mark", "stop_old", "apply", "save", "clear",
                         "finalize", "end"}
  /\ Stages("uninstall") = {"try_lock", "mark", "find", "stop_old", "remove_dir",
                            "delete", "unsupervise", "clear", "end"}
  /\ Stages("restart") = {"try_lock", "mark", "lookup", "stop_old", "run",
                          "spawn", "clear", "end"}
  BY DEF Stages

\* Which kinds a stage belongs to.
LEMMA KindOf ==
  ASSUME OpTypeOK, NEW o \in Ops
  PROVE  /\ op[o].kind \in Kinds \cup {"none"}
         /\ op[o].kind \in {"install", "reinstall", "update", "uninstall",
                            "restart", "none"}
         /\ op[o].pc \in Stages(op[o].kind)
         /\ op[o].pc \in OpPCs
         /\ (op[o].pc = "idle") <=> (op[o].kind = "none")
         /\ op[o].pc = "lock" => op[o].kind \in {"install", "reinstall"}
         /\ op[o].pc = "try_lock" => op[o].kind \in {"uninstall", "restart"}
         /\ op[o].pc \in {"inspect", "leftovers", "download", "command"}
              => op[o].kind \in {"install", "reinstall"}
         /\ op[o].pc \in {"run", "spawn"}
              => op[o].kind \in {"install", "reinstall", "restart"}
         /\ op[o].pc = "remove_dir" => op[o].kind \in {"reinstall", "uninstall"}
         /\ op[o].pc \in {"read", "apply", "save", "finalize"}
              => op[o].kind = "update"
         /\ op[o].pc \in {"find", "delete", "unsupervise"}
              => op[o].kind = "uninstall"
         /\ op[o].pc = "lookup" => op[o].kind = "restart"
  <1>1. /\ op[o].kind \in Kinds \cup {"none"}
        /\ op[o].pc \in Stages(op[o].kind)
        /\ op[o].pc \in OpPCs
    BY DEF OpTypeOK, OpRecords, OpShape
  <1>2. op[o].kind \in {"install", "reinstall", "update", "uninstall",
                        "restart", "none"}
    BY <1>1, KindsAssumption
  <1>3. QED
    BY <1>1, <1>2, StagesOf

LEMMA OpUpdateType ==
  ASSUME OpTypeOK, NEW o \in Ops, NEW r \in OpRecords, OpShape(r),
         op' = [op EXCEPT ![o] = r]
  PROVE  OpTypeOK'
  BY DEF OpTypeOK

LEMMA IdleType == IdleOp \in OpRecords /\ OpShape(IdleOp) /\ IdleOp.pc = "idle"
  BY StagesOf DEF IdleOp, OpRecords, OpShape, OpPCs, Binaries, Records, Missing

LEMMA ToIdleType ==
  ASSUME OpTypeOK, NEW o \in Ops, op' = [op EXCEPT ![o] = IdleOp]
  PROVE  OpTypeOK'
  BY OpUpdateType, IdleType

\* An operation moves to another stage of its kind.
LEMMA GotoType ==
  ASSUME OpTypeOK, NEW o \in Ops, NEW pc \in OpPCs, Goto(o, pc),
         op[o].pc \notin {"read", "end"} \/ pc = "end",
         pc \in Stages(op[o].kind)
  PROVE  OpTypeOK'
  <1> DEFINE r == [op[o] EXCEPT !.pc = pc]
  <1>1. op' = [op EXCEPT ![o] = r]
    BY DEF Goto
  <1>2. op[o] \in OpRecords /\ OpShape(op[o])
    BY DEF OpTypeOK
  <1>3. r \in OpRecords
    BY <1>2 DEF OpRecords
  <1>4. r.kind = op[o].kind /\ r.pc = pc /\ r.version = op[o].version
        /\ r.copy = op[o].copy
    BY <1>2 DEF OpRecords
  <1> HIDE DEF r
  <1>5. OpShape(r)
    BY <1>2, <1>4 DEF OpShape
  <1>6. QED
    BY <1>1, <1>3, <1>5, OpUpdateType

\* An operation has done its work.
LEMMA WorkedType ==
  ASSUME OpTypeOK, NEW o \in Ops, NEW pc \in OpPCs, Worked(o, pc),
         op[o].pc \notin {"read", "end"}, pc \in Stages(op[o].kind)
  PROVE  OpTypeOK'
  <1> DEFINE r == [op[o] EXCEPT !.pc = pc, !.worked = TRUE]
  <1>1. op' = [op EXCEPT ![o] = r]
    BY DEF Worked
  <1>2. op[o] \in OpRecords /\ OpShape(op[o])
    BY DEF OpTypeOK
  <1>3. r \in OpRecords
    BY <1>2 DEF OpRecords
  <1>4. r.kind = op[o].kind /\ r.pc = pc /\ r.version = op[o].version
        /\ r.copy = op[o].copy
    BY <1>2 DEF OpRecords
  <1> HIDE DEF r
  <1>5. OpShape(r)
    BY <1>2, <1>4 DEF OpShape
  <1>6. QED
    BY <1>1, <1>3, <1>5, OpUpdateType

\* An operation fails between mark_updating and clear_updating.
LEMMA FailedType ==
  ASSUME OpTypeOK, NEW o \in Ops, Failed(o), op[o].pc \in Marked
  PROVE  OpTypeOK'
  <1> DEFINE r == [op[o] EXCEPT !.pc = "clear", !.ok = FALSE]
  <1>1. op' = [op EXCEPT ![o] = r]
    BY DEF Failed
  <1>2. op[o] \in OpRecords /\ OpShape(op[o])
    BY DEF OpTypeOK
  <1>3. r \in OpRecords
    BY <1>2 DEF OpRecords, OpPCs, Marked
  <1>4. r.kind = op[o].kind /\ r.pc = "clear" /\ r.version = op[o].version
        /\ r.copy = op[o].copy
    BY <1>2 DEF OpRecords
  <1> HIDE DEF r
  <1>5. "clear" \in Stages(op[o].kind)
    BY KindOf, StagesOf DEF Marked
  <1>6. OpShape(r)
    BY <1>2, <1>4, <1>5 DEF OpShape, Marked
  <1>7. QED
    BY <1>1, <1>3, <1>6, OpUpdateType

\* Moving on leaves the rest of the record and the other operations alone.
LEMMA GotoEffect ==
  ASSUME OpTypeOK, NEW o \in Ops, NEW pc, Goto(o, pc)
  PROVE  /\ op'[o].pc = pc /\ op'[o].kind = op[o].kind
         /\ op'[o].version = op[o].version
         /\ \A p \in Ops : p # o => op'[p] = op[p]
  BY DEF Goto, OpTypeOK, OpRecords

LEMMA GotoFlags ==
  ASSUME OpTypeOK, NEW o \in Ops, NEW pc, Goto(o, pc)
  PROVE  op'[o].ok = op[o].ok /\ op'[o].worked = op[o].worked
  BY DEF Goto, OpTypeOK, OpRecords

LEMMA FailedEffect ==
  ASSUME OpTypeOK, NEW o \in Ops, Failed(o)
  PROVE  /\ op'[o].pc = "clear" /\ op'[o].kind = op[o].kind
         /\ op'[o].version = op[o].version
         /\ \A p \in Ops : p # o => op'[p] = op[p]
  BY DEF Failed, OpTypeOK, OpRecords

LEMMA FailedFlags ==
  ASSUME OpTypeOK, NEW o \in Ops, Failed(o)
  PROVE  ~op'[o].ok /\ op'[o].worked = op[o].worked
  BY DEF Failed, OpTypeOK, OpRecords

LEMMA WorkedEffect ==
  ASSUME OpTypeOK, NEW o \in Ops, NEW pc, Worked(o, pc)
  PROVE  /\ op'[o].pc = pc /\ op'[o].kind = op[o].kind
         /\ op'[o].version = op[o].version
         /\ \A p \in Ops : p # o => op'[p] = op[p]
  BY DEF Worked, OpTypeOK, OpRecords

LEMMA WorkedFlags ==
  ASSUME OpTypeOK, NEW o \in Ops, NEW pc, Worked(o, pc)
  PROVE  op'[o].ok = op[o].ok /\ op'[o].worked
  BY DEF Worked, OpTypeOK, OpRecords

LEMMA BackupEffect ==
  ASSUME OpTypeOK, NEW o \in Ops, NEW pc, NEW v,
         op' = [op EXCEPT ![o].pc = pc, ![o].backup = v]
  PROVE  /\ op'[o].pc = pc /\ op'[o].kind = op[o].kind
         /\ \A p \in Ops : p # o => op'[p] = op[p]
  BY DEF OpTypeOK, OpRecords

LEMMA ToIdleEffect ==
  ASSUME OpTypeOK, NEW o \in Ops, op' = [op EXCEPT ![o] = IdleOp]
  PROVE  op'[o] = IdleOp /\ \A p \in Ops : p # o => op'[p] = op[p]
  BY DEF OpTypeOK

-----------------------------------------------------------------------------
(* Type correctness.                                                       *)

LEMMA FaultType == ASSUME LimitsTypeOK, Fault PROVE LimitsTypeOK'
  BY DEF Fault, LimitsTypeOK

LEMMA SetStateType ==
  ASSUME record \in Records, NEW st \in {"Installed", "Installing"}, SetState(st)
  PROVE  record' \in Records /\ (record' = NoRecord <=> record = NoRecord)
  BY DEF SetState, Records, NoRecord

\* Killing processes keeps the supervisors' types.
LEMMA KillType ==
  ASSUME SupTypeOK, UNCHANGED sup,
         KillAll \/ KillFails \/ UNCHANGED <<procs, orphan>>
  PROVE  SupTypeOK'
  BY DEF SupTypeOK, KillAll, KillFails

LEMMA KillFailsFault == KillFails => Fault
  BY DEF KillFails

LEMMA SuperviseType ==
  ASSUME SupTypeOK, Supervise
  PROVE  SupTypeOK'
  BY DEF SupTypeOK, Supervise, KillAll, SupPCs

\* What an operation's step does to everything but its own record.
LEMMA OpStepType ==
  ASSUME TypeOK, NEW o \in Ops, OpStep(o) \/ RestartTimeout(o)
  PROVE  ManagerTypeOK' /\ LimitsTypeOK' /\ DiskTypeOK' /\ SupTypeOK'
  <1> USE DEF manager, disk, processes, limits
  <1>0. /\ ManagerTypeOK /\ LimitsTypeOK /\ DiskTypeOK /\ SupTypeOK /\ OpTypeOK
        /\ op[o] \in OpRecords /\ OpShape(op[o])
    BY DEF TypeOK, OpTypeOK
  <1>1. CASE Lock(o)
    BY <1>0, <1>1 DEF Lock, ManagerTypeOK, LimitsTypeOK, DiskTypeOK, SupTypeOK
  <1>2. CASE TryLock(o)
    BY <1>0, <1>2 DEF TryLock, ManagerTypeOK, LimitsTypeOK, DiskTypeOK, SupTypeOK
  <1>3. CASE MarkUpdating(o)
    BY <1>0, <1>3 DEF MarkUpdating, ManagerTypeOK, LimitsTypeOK, DiskTypeOK, SupTypeOK
  <1>4. CASE ClearUpdating(o)
    BY <1>0, <1>4 DEF ClearUpdating, ManagerTypeOK, LimitsTypeOK, DiskTypeOK, SupTypeOK
  <1>5. CASE End(o)
    <2>1. ManagerTypeOK'
      BY <1>0, <1>5 DEF End, ManagerTypeOK, NoPromise, Binaries, OpRecords, Missing
    <2>2. LimitsTypeOK'
      BY <1>0, <1>5, FaultType, KillFailsFault DEF End, LimitsTypeOK
    <2>3. DiskTypeOK'
      BY <1>0, <1>5 DEF End, DiskTypeOK
    <2>4. SupTypeOK'
      BY <1>0, <1>5, KillType, SuperviseType DEF End
    <2>5. QED
      BY <2>1, <2>2, <2>3, <2>4
  <1>6. CASE Inspect(o)
    <2>1. ManagerTypeOK'
      BY <1>0, <1>6 DEF Inspect, ManagerTypeOK
    <2>2. LimitsTypeOK'
      BY <1>0, <1>6, FaultType, KillFailsFault DEF Inspect, LimitsTypeOK
    <2>3. DiskTypeOK'
      BY <1>0, <1>6, SetStateType DEF Inspect, DiskTypeOK
    <2>4. SupTypeOK'
      BY <1>0, <1>6, KillType, SuperviseType DEF Inspect
    <2>5. QED
      BY <2>1, <2>2, <2>3, <2>4
  <1>7. CASE StopBeforeReinstall(o)
    <2>1. ManagerTypeOK'
      BY <1>0, <1>7 DEF StopBeforeReinstall, ManagerTypeOK
    <2>2. LimitsTypeOK'
      BY <1>0, <1>7, FaultType, KillFailsFault DEF StopBeforeReinstall, LimitsTypeOK
    <2>3. DiskTypeOK'
      BY <1>0, <1>7 DEF StopBeforeReinstall, DiskTypeOK
    <2>4. SupTypeOK'
      BY <1>0, <1>7, KillType, SuperviseType DEF StopBeforeReinstall
    <2>5. QED
      BY <2>1, <2>2, <2>3, <2>4
  <1>8. CASE RemoveDir(o)
    <2>1. ManagerTypeOK'
      BY <1>0, <1>8 DEF RemoveDir, ManagerTypeOK
    <2>2. LimitsTypeOK'
      BY <1>0, <1>8, FaultType, KillFailsFault DEF RemoveDir, LimitsTypeOK
    <2>3. DiskTypeOK'
      BY <1>0, <1>8 DEF RemoveDir, DiskTypeOK, Binaries, Records, OpRecords, OpShape
    <2>4. SupTypeOK'
      BY <1>0, <1>8, KillType, SuperviseType DEF RemoveDir
    <2>5. QED
      BY <2>1, <2>2, <2>3, <2>4
  <1>9. CASE StopLeftovers(o)
    <2>1. ManagerTypeOK'
      BY <1>0, <1>9 DEF StopLeftovers, ManagerTypeOK
    <2>2. LimitsTypeOK'
      BY <1>0, <1>9, FaultType, KillFailsFault DEF StopLeftovers, LimitsTypeOK
    <2>3. DiskTypeOK'
      BY <1>0, <1>9 DEF StopLeftovers, DiskTypeOK
    <2>4. SupTypeOK'
      BY <1>0, <1>9, KillType, SuperviseType DEF StopLeftovers
    <2>5. QED
      BY <2>1, <2>2, <2>3, <2>4
  <1>10. CASE Download(o)
    <2>1. ManagerTypeOK'
      BY <1>0, <1>10 DEF Download, ManagerTypeOK
    <2>2. LimitsTypeOK'
      BY <1>0, <1>10, FaultType, KillFailsFault DEF Download, LimitsTypeOK
    <2>3. DiskTypeOK'
      BY <1>0, <1>10, KindOf DEF Download, DiskTypeOK, Binaries, Records, OpRecords, OpShape
    <2>4. SupTypeOK'
      BY <1>0, <1>10, KillType, SuperviseType DEF Download
    <2>5. QED
      BY <2>1, <2>2, <2>3, <2>4
  <1>11. CASE InstallCommand(o)
    <2>1. ManagerTypeOK'
      BY <1>0, <1>11 DEF InstallCommand, ManagerTypeOK
    <2>2. LimitsTypeOK'
      BY <1>0, <1>11, FaultType, KillFailsFault DEF InstallCommand, LimitsTypeOK
    <2>3. DiskTypeOK'
      BY <1>0, <1>11, KindOf DEF InstallCommand, DiskTypeOK, Binaries, Records, OpRecords, OpShape
    <2>4. SupTypeOK'
      BY <1>0, <1>11, KillType, SuperviseType DEF InstallCommand
    <2>5. QED
      BY <2>1, <2>2, <2>3, <2>4
  <1>12. CASE RunNewTool(o)
    BY <1>0, <1>12 DEF RunNewTool, ManagerTypeOK, LimitsTypeOK, DiskTypeOK, SupTypeOK
  <1>13. CASE RunTool(o)
    <2>1. ManagerTypeOK'
      BY <1>0, <1>13 DEF RunTool, ManagerTypeOK
    <2>2. LimitsTypeOK'
      BY <1>0, <1>13, FaultType, KillFailsFault DEF RunTool, LimitsTypeOK
    <2>3. DiskTypeOK'
      BY <1>0, <1>13 DEF RunTool, DiskTypeOK
    <2>4. SupTypeOK'
      BY <1>0, <1>13, KillType, SuperviseType DEF RunTool
    <2>5. QED
      BY <2>1, <2>2, <2>3, <2>4
  <1>14. CASE UpdateRead(o)
    <2>1. ManagerTypeOK'
      BY <1>0, <1>14 DEF UpdateRead, ManagerTypeOK
    <2>2. LimitsTypeOK'
      BY <1>0, <1>14, FaultType, KillFailsFault DEF UpdateRead, LimitsTypeOK
    <2>3. DiskTypeOK'
      BY <1>0, <1>14, SetStateType DEF UpdateRead, DiskTypeOK
    <2>4. SupTypeOK'
      BY <1>0, <1>14, KillType, SuperviseType DEF UpdateRead
    <2>5. QED
      BY <2>1, <2>2, <2>3, <2>4
  <1>15. CASE UpdateStop(o)
    <2>1. ManagerTypeOK'
      BY <1>0, <1>15 DEF UpdateStop, ManagerTypeOK
    <2>2. LimitsTypeOK'
      BY <1>0, <1>15, FaultType, KillFailsFault DEF UpdateStop, LimitsTypeOK
    <2>3. DiskTypeOK'
      BY <1>0, <1>15 DEF UpdateStop, DiskTypeOK
    <2>4. SupTypeOK'
      BY <1>0, <1>15, KillType, SuperviseType DEF UpdateStop
    <2>5. QED
      BY <2>1, <2>2, <2>3, <2>4
  <1>16. CASE UpdateApply(o)
    <2>1. ManagerTypeOK'
      BY <1>0, <1>16 DEF UpdateApply, ManagerTypeOK
    <2>2. LimitsTypeOK'
      BY <1>0, <1>16, FaultType, KillFailsFault DEF UpdateApply, LimitsTypeOK
    <2>3. DiskTypeOK'
      BY <1>0, <1>16, KindOf DEF UpdateApply, DiskTypeOK, Binaries, Records, OpRecords, OpShape
    <2>4. SupTypeOK'
      BY <1>0, <1>16, KillType, SuperviseType DEF UpdateApply
    <2>5. QED
      BY <2>1, <2>2, <2>3, <2>4
  <1>17. CASE UpdateSave(o)
    <2>1. ManagerTypeOK'
      BY <1>0, <1>17 DEF UpdateSave, ManagerTypeOK
    <2>2. LimitsTypeOK'
      BY <1>0, <1>17, FaultType, KillFailsFault DEF UpdateSave, LimitsTypeOK
    <2>3. DiskTypeOK'
      BY <1>0, <1>17, KindOf DEF UpdateSave, DiskTypeOK, Binaries, Records, OpRecords, OpShape, NoRecord
    <2>4. SupTypeOK'
      BY <1>0, <1>17, KillType, SuperviseType DEF UpdateSave
    <2>5. QED
      BY <2>1, <2>2, <2>3, <2>4
  <1>18. CASE UpdateFinalize(o)
    <2>1. ManagerTypeOK'
      BY <1>0, <1>18 DEF UpdateFinalize, ManagerTypeOK
    <2>2. LimitsTypeOK'
      BY <1>0, <1>18, FaultType, KillFailsFault DEF UpdateFinalize, LimitsTypeOK
    <2>3. DiskTypeOK'
      BY <1>0, <1>18, SetStateType DEF UpdateFinalize, DiskTypeOK
    <2>4. SupTypeOK'
      BY <1>0, <1>18, KillType, SuperviseType DEF UpdateFinalize
    <2>5. QED
      BY <2>1, <2>2, <2>3, <2>4
  <1>19. CASE UninstallFind(o)
    <2>1. LimitsTypeOK'
      BY <1>0, <1>19, FaultType DEF UninstallFind, LimitsTypeOK
    <2>2. ManagerTypeOK' /\ DiskTypeOK' /\ SupTypeOK'
      BY <1>0, <1>19 DEF UninstallFind, ManagerTypeOK, DiskTypeOK, SupTypeOK
    <2>3. QED
      BY <2>1, <2>2
  <1>20. CASE UninstallStop(o)
    <2>1. ManagerTypeOK'
      BY <1>0, <1>20 DEF UninstallStop, ManagerTypeOK
    <2>2. LimitsTypeOK'
      BY <1>0, <1>20, FaultType, KillFailsFault DEF UninstallStop, LimitsTypeOK
    <2>3. DiskTypeOK'
      BY <1>0, <1>20 DEF UninstallStop, DiskTypeOK
    <2>4. SupTypeOK'
      BY <1>0, <1>20, KillType, SuperviseType DEF UninstallStop
    <2>5. QED
      BY <2>1, <2>2, <2>3, <2>4
  <1>21. CASE UninstallRemoveDir(o)
    <2>1. ManagerTypeOK'
      BY <1>0, <1>21 DEF UninstallRemoveDir, ManagerTypeOK
    <2>2. LimitsTypeOK'
      BY <1>0, <1>21, FaultType, KillFailsFault DEF UninstallRemoveDir, LimitsTypeOK
    <2>3. DiskTypeOK'
      BY <1>0, <1>21 DEF UninstallRemoveDir, DiskTypeOK, Binaries, Records, OpRecords, OpShape
    <2>4. SupTypeOK'
      BY <1>0, <1>21, KillType, SuperviseType DEF UninstallRemoveDir
    <2>5. QED
      BY <2>1, <2>2, <2>3, <2>4
  <1>22. CASE UninstallDelete(o)
    <2>1. ManagerTypeOK'
      BY <1>0, <1>22 DEF UninstallDelete, ManagerTypeOK
    <2>2. LimitsTypeOK'
      BY <1>0, <1>22, FaultType, KillFailsFault DEF UninstallDelete, LimitsTypeOK
    <2>3. DiskTypeOK'
      BY <1>0, <1>22 DEF UninstallDelete, DiskTypeOK, Binaries, Records, OpRecords, OpShape
    <2>4. SupTypeOK'
      BY <1>0, <1>22, KillType, SuperviseType DEF UninstallDelete
    <2>5. QED
      BY <2>1, <2>2, <2>3, <2>4
  <1>23. CASE Unsupervise(o)
    BY <1>0, <1>23 DEF Unsupervise, ManagerTypeOK, LimitsTypeOK, DiskTypeOK, SupTypeOK
  <1>24. CASE RestartLookup(o)
    <2>1. LimitsTypeOK'
      BY <1>0, <1>24, FaultType DEF RestartLookup, LimitsTypeOK
    <2>2. ManagerTypeOK' /\ DiskTypeOK' /\ SupTypeOK'
      BY <1>0, <1>24 DEF RestartLookup, ManagerTypeOK, DiskTypeOK, SupTypeOK
    <2>3. QED
      BY <2>1, <2>2
  <1>25. CASE RestartStop(o)
    <2>1. ManagerTypeOK'
      BY <1>0, <1>25 DEF RestartStop, ManagerTypeOK
    <2>2. LimitsTypeOK'
      BY <1>0, <1>25, FaultType, KillFailsFault DEF RestartStop, LimitsTypeOK
    <2>3. DiskTypeOK'
      BY <1>0, <1>25 DEF RestartStop, DiskTypeOK
    <2>4. SupTypeOK'
      BY <1>0, <1>25, KillType, SuperviseType DEF RestartStop
    <2>5. QED
      BY <2>1, <2>2, <2>3, <2>4
  <1>26. CASE RestartTimeout(o)
    <2>1. ManagerTypeOK'
      BY <1>0, <1>26 DEF RestartTimeout, ManagerTypeOK
    <2>2. LimitsTypeOK'
      BY <1>0, <1>26, FaultType, KillFailsFault DEF RestartTimeout, LimitsTypeOK
    <2>3. DiskTypeOK'
      BY <1>0, <1>26 DEF RestartTimeout, DiskTypeOK
    <2>4. SupTypeOK'
      BY <1>0, <1>26, KillType, SuperviseType DEF RestartTimeout
    <2>5. QED
      BY <2>1, <2>2, <2>3, <2>4
  <1>27. QED
    BY <1>1, <1>2, <1>3, <1>4, <1>5, <1>6, <1>7, <1>8, <1>9, <1>10, <1>11, <1>12, <1>13, <1>14, <1>15, <1>16, <1>17, <1>18, <1>19, <1>20, <1>21, <1>22, <1>23, <1>24, <1>25, <1>26 DEF OpStep

\* What an operation's step does to its own record.
LEMMA OpStepOpType ==
  ASSUME TypeOK, NEW o \in Ops, OpStep(o) \/ RestartTimeout(o)
  PROVE  OpTypeOK'
  <1>0. /\ OpTypeOK /\ DiskTypeOK
        /\ op[o] \in OpRecords /\ OpShape(op[o])
    BY DEF TypeOK, OpTypeOK
  <1> USE KindOf, StagesOf DEF OpPCs, Marked
  <1>1. CASE Lock(o)
    BY <1>0, <1>1, GotoType DEF Lock
  <1>2. CASE TryLock(o)
    BY <1>0, <1>2, GotoType, ToIdleType DEF TryLock
  <1>3. CASE MarkUpdating(o)
    BY <1>0, <1>3, GotoType DEF MarkUpdating
  <1>4. CASE ClearUpdating(o)
    BY <1>0, <1>4, GotoType DEF ClearUpdating
  <1>5. CASE End(o)
    BY <1>0, <1>5, ToIdleType DEF End
  <1>6. CASE Inspect(o)
    BY <1>0, <1>6, GotoType, FailedType DEF Inspect
  <1>7. CASE StopBeforeReinstall(o)
    BY <1>0, <1>7, GotoType DEF StopBeforeReinstall
  <1>8. CASE RemoveDir(o)
    BY <1>0, <1>8, GotoType, FailedType DEF RemoveDir
  <1>9. CASE StopLeftovers(o)
    BY <1>0, <1>9, GotoType DEF StopLeftovers
  <1>10. CASE Download(o)
    BY <1>0, <1>10, GotoType, FailedType DEF Download
  <1>11. CASE InstallCommand(o)
    BY <1>0, <1>11, FailedType, WorkedType DEF InstallCommand
  <1>12. CASE RunNewTool(o)
    BY <1>0, <1>12, GotoType DEF RunNewTool
  <1>13. CASE RunTool(o)
    BY <1>0, <1>13, GotoType, FailedType DEF RunTool
  <1>14. CASE UpdateRead(o)
    <2>1. CASE Goto(o, "end")
      BY <1>0, <1>14, <2>1, GotoType DEF UpdateRead
    <2>2. CASE op' = [op EXCEPT ![o].pc = "end", ![o].ok = FALSE]
      <3> DEFINE r == [op[o] EXCEPT !.pc = "end", !.ok = FALSE]
      <3>1. op' = [op EXCEPT ![o] = r]
        BY <2>2
      <3>2. r \in OpRecords /\ r.kind = op[o].kind /\ r.pc = "end"
            /\ r.version = op[o].version /\ op[o].kind = "update"
        BY <1>0, <1>14 DEF OpRecords, UpdateRead
      <3> HIDE DEF r
      <3>3. OpShape(r)
        BY <1>0, <3>2 DEF OpShape
      <3>4. QED
        BY <1>0, <3>1, <3>2, <3>3, OpUpdateType
    <2>3. CASE \E repair \in BOOLEAN :
                 /\ record # NoRecord
                 /\ op' = [op EXCEPT ![o].pc = "mark", ![o].repair = repair,
                      ![o].copy = IF repair THEN [record EXCEPT !.state = "Installing"]
                                  ELSE record]
      <3>1. PICK repair \in BOOLEAN : op' = [op EXCEPT ![o].pc = "mark", ![o].repair = repair,
                 ![o].copy = IF repair THEN [record EXCEPT !.state = "Installing"]
                             ELSE record]
        BY <2>3
      <3>2. record # NoRecord /\ op[o].kind = "update"
        BY <1>0, <1>14, <2>3 DEF UpdateRead
      <3> DEFINE copy == IF repair THEN [record EXCEPT !.state = "Installing"] ELSE record
      <3>3. copy \in Records /\ copy # NoRecord
        BY <1>0, <3>2 DEF DiskTypeOK, Records, NoRecord
      <3> HIDE DEF copy
      <3> DEFINE r == [op[o] EXCEPT !.pc = "mark", !.repair = repair, !.copy = copy]
      <3>4. op' = [op EXCEPT ![o] = r]
        BY <3>1 DEF copy
      <3>5. r \in OpRecords /\ r.kind = op[o].kind /\ r.pc = "mark"
            /\ r.version = op[o].version /\ r.copy = copy
        BY <1>0, <3>3 DEF OpRecords
      <3> HIDE DEF r
      <3>6. OpShape(r)
        BY <1>0, <3>2, <3>3, <3>5 DEF OpShape
      <3>7. QED
        BY <1>0, <3>4, <3>5, <3>6, OpUpdateType
    <2>4. QED
      BY <1>14, <2>1, <2>2, <2>3 DEF UpdateRead
  <1>15. CASE UpdateStop(o)
    <2>1. CASE Failed(o)
      BY <1>0, <1>15, <2>1, FailedType DEF UpdateStop
    <2>2. CASE ~Failed(o)
      <3> DEFINE r == [op[o] EXCEPT !.pc = "apply", !.backup = binary]
      <3>1. op' = [op EXCEPT ![o] = r]
        BY <1>15, <2>2 DEF UpdateStop
      <3>2. r \in OpRecords /\ r.kind = op[o].kind /\ r.pc = "apply"
            /\ r.version = op[o].version /\ r.copy = op[o].copy
        BY <1>0 DEF OpRecords, DiskTypeOK
      <3> HIDE DEF r
      <3>3. OpShape(r)
        BY <1>0, <1>15, <3>2 DEF UpdateStop, OpShape
      <3>4. QED
        BY <1>0, <3>1, <3>2, <3>3, OpUpdateType
    <2>3. QED
      BY <2>1, <2>2
  <1>16. CASE UpdateApply(o)
    BY <1>0, <1>16, GotoType, FailedType DEF UpdateApply
  <1>17. CASE UpdateSave(o)
    BY <1>0, <1>17, FailedType, WorkedType DEF UpdateSave
  <1>18. CASE UpdateFinalize(o)
    <2>1. CASE Goto(o, "end")
      BY <1>0, <1>18, <2>1, GotoType DEF UpdateFinalize
    <2>2. CASE ~Goto(o, "end")
      <3> DEFINE r == [op[o] EXCEPT !.pc = "end", !.worked = FALSE]
      <3>1. op' = [op EXCEPT ![o] = r]
        BY <1>18, <2>2 DEF UpdateFinalize
      <3>2. r \in OpRecords /\ r.kind = op[o].kind /\ r.pc = "end"
            /\ r.version = op[o].version /\ r.copy = op[o].copy
        BY <1>0 DEF OpRecords, DiskTypeOK
      <3> HIDE DEF r
      <3>3. OpShape(r)
        BY <1>0, <1>18, <3>2 DEF UpdateFinalize, OpShape
      <3>4. QED
        BY <1>0, <3>1, <3>2, <3>3, OpUpdateType
    <2>3. QED
      BY <2>1, <2>2
  <1>19. CASE UninstallFind(o)
    BY <1>0, <1>19, GotoType, FailedType DEF UninstallFind
  <1>20. CASE UninstallStop(o)
    BY <1>0, <1>20, GotoType, FailedType DEF UninstallStop
  <1>21. CASE UninstallRemoveDir(o)
    BY <1>0, <1>21, GotoType, FailedType DEF UninstallRemoveDir
  <1>22. CASE UninstallDelete(o)
    BY <1>0, <1>22, FailedType, WorkedType DEF UninstallDelete
  <1>23. CASE Unsupervise(o)
    BY <1>0, <1>23, GotoType DEF Unsupervise
  <1>24. CASE RestartLookup(o)
    BY <1>0, <1>24, GotoType, FailedType DEF RestartLookup
  <1>25. CASE RestartStop(o)
    BY <1>0, <1>25, GotoType, FailedType DEF RestartStop
  <1>26. CASE RestartTimeout(o)
    BY <1>0, <1>26, FailedType DEF RestartTimeout
  <1>27. QED
    BY <1>1, <1>2, <1>3, <1>4, <1>5, <1>6, <1>7, <1>8, <1>9, <1>10, <1>11, <1>12, <1>13, <1>14, <1>15, <1>16, <1>17, <1>18, <1>19, <1>20, <1>21, <1>22, <1>23, <1>24, <1>25, <1>26 DEF OpStep

\* What a supervisor's step does.
LEMMA SupStepType ==
  ASSUME TypeOK, NEW s \in Sups, SupStep(s) \/ SupArgsFail(s)
  PROVE  TypeOK'
  <1> USE DEF manager, disk, limits
  <1>1. ManagerTypeOK' /\ DiskTypeOK' /\ OpTypeOK'
    BY DEF TypeOK, ManagerTypeOK, DiskTypeOK, OpTypeOK, SupStep, SupTop, SupWait,
       SupCheck, SupArgsFail, SupLaunch, SupSpawn, SupReap, SupWake
  <1>2. LimitsTypeOK'
    BY FaultType DEF TypeOK, LimitsTypeOK, SupStep, SupTop, SupWait,
       SupCheck, SupArgsFail, SupLaunch, SupSpawn, SupReap, SupWake
  <1>3. SupTypeOK'
    BY DEF TypeOK, SupTypeOK, SupPCs, SupStep, SupTop, SupWait,
       SupCheck, SupArgsFail, SupLaunch, SupSpawn, SupReap, SupWake
  <1>4. QED
    BY <1>1, <1>2, <1>3 DEF TypeOK

LEMMA RestType ==
  /\ NoPromise \in [known : BOOLEAN, version : Binaries]
  /\ [r \in {"boot", "deactivation"} |-> "idle"]
       \in [{"boot", "deactivation"} -> RunnerPCs]
  <1>1. "idle" \in RunnerPCs
    BY DEF RunnerPCs
  <1>2. NoPromise \in [known : BOOLEAN, version : Binaries]
    BY DEF NoPromise, Binaries, Missing
  <1>3. QED
    BY <1>1, <1>2

LEMMA AgentExitType ==
  ASSUME TypeOK, AgentExit
  PROVE  ManagerTypeOK' /\ SupTypeOK' /\ OpTypeOK'
  <1>1. OpTypeOK'
    BY IdleType DEF AgentExit, OpTypeOK
  <1>2. SupTypeOK'
    BY DEF TypeOK, SupTypeOK, AgentExit, SupPCs
  <1>3. ManagerTypeOK'
    <2>1. promise' \in [known : BOOLEAN, version : Binaries]
      BY RestType DEF TypeOK, ManagerTypeOK, AgentExit
    <2>2. runner' \in [{"boot", "deactivation"} -> RunnerPCs]
      BY RestType DEF AgentExit
    <2>3. /\ up' \in BOOLEAN /\ running' \in BOOLEAN /\ shuttingDown' \in BOOLEAN
      BY Zenon DEF AgentExit
    <2>4. updating' = 0 /\ lock' = "none"
      BY DEF AgentExit
    <2>5. QED
      BY <2>1, <2>2, <2>3, <2>4 DEF ManagerTypeOK
  <1>4. QED
    BY <1>1, <1>2, <1>3

LEMMA BeginType ==
  ASSUME TypeOK, NEW o \in Ops, NEW kind \in Kinds, NEW v \in Versions,
         Begin(o, kind, v)
  PROVE  TypeOK'
  <1>1. ManagerTypeOK' /\ LimitsTypeOK' /\ DiskTypeOK' /\ SupTypeOK'
    BY DEF TypeOK, ManagerTypeOK, LimitsTypeOK, DiskTypeOK, SupTypeOK, Begin,
       manager, disk, processes
  <1> DEFINE pc == CASE kind \in {"install", "reinstall"} -> "lock"
                     [] kind \in {"uninstall", "restart"} -> "try_lock"
                     [] kind = "update" -> "read"
             r == [IdleOp EXCEPT !.kind = kind, !.version = v, !.pc = pc]
  <1>2. kind \in {"install", "reinstall", "update", "uninstall", "restart"}
    BY KindsAssumption
  <1>3. pc \in OpPCs /\ pc \in Stages(kind) /\ (kind = "update" => pc = "read")
    BY <1>2, StagesOf DEF OpPCs
  <1>4. op' = [op EXCEPT ![o] = r]
    BY DEF Begin
  <1> HIDE DEF pc
  <1>5. r \in OpRecords /\ r.kind = kind /\ r.version = v /\ r.pc = pc
    BY <1>3, IdleType DEF OpRecords, Binaries
  <1> HIDE DEF r
  <1>6. OpShape(r)
    BY <1>2, <1>3, <1>5 DEF OpShape
  <1>7. QED
    BY <1>1, <1>4, <1>5, <1>6, OpUpdateType DEF TypeOK

\* run(), stop_all(), restart_all(), start-up and the exit of processes.
LEMMA RunnerType ==
  ASSUME TypeOK,
         \/ \E r \in {"boot", "deactivation"} :
              RunnerStep(r) \/ RunReadFails(r) \/ RunSpawnFails(r)
         \/ StopAll \/ RestartAll \/ DeactivationStep \/ Boot \/ Crash \/ ProcessExit
  PROVE  TypeOK'
  <1> USE DEF manager, disk, processes, limits
  <1>1. CASE \E r \in {"boot", "deactivation"} : RunnerStep(r)
    <2>1. PICK r \in {"boot", "deactivation"} : RunnerStep(r)
      BY <1>1
    <2>2. ManagerTypeOK' /\ OpTypeOK'
      <3>1. record = NoRecord \/ record.state \in {"Installed", "Installing"}
        BY DEF TypeOK, DiskTypeOK, Records
      <3>2. CASE RunRead(r)
        BY <2>1, <3>1, <3>2 DEF TypeOK, ManagerTypeOK, OpTypeOK, RunnerPCs, RunRead
      <3>3. CASE RunRecheck(r) \/ RunSettle(r) \/ RunMark(r) \/ RunSpawn(r)
        BY <2>1, <3>3 DEF TypeOK, ManagerTypeOK, OpTypeOK, RunnerPCs, RunRecheck,
           RunSettle, RunMark, RunSpawn
      <3>4. QED
        BY <2>1, <3>2, <3>3 DEF RunnerStep
    <2>3. LimitsTypeOK'
      BY <2>1, FaultType DEF TypeOK, LimitsTypeOK, RunnerStep, RunRead,
         RunRecheck, RunSettle, RunMark, RunSpawn
    <2>4. DiskTypeOK'
      BY <2>1, SetStateType DEF TypeOK, DiskTypeOK, RunnerStep, RunRead,
         RunRecheck, RunSettle, RunMark, RunSpawn
    <2>5. SupTypeOK'
      BY <2>1, SuperviseType, KillType DEF TypeOK, RunnerStep, RunRead,
         RunRecheck, RunSettle, RunMark, RunSpawn
    <2>6. QED
      BY <2>2, <2>3, <2>4, <2>5 DEF TypeOK
  <1>2. CASE \E r \in {"boot", "deactivation"} : RunReadFails(r) \/ RunSpawnFails(r)
    <2>1. PICK r \in {"boot", "deactivation"} : RunReadFails(r) \/ RunSpawnFails(r)
      BY <1>2
    <2>2. LimitsTypeOK' /\ DiskTypeOK'
      BY <2>1, FaultType, KillFailsFault DEF TypeOK, DiskTypeOK, RunReadFails, RunSpawnFails
    <2>3. CASE AgentExit
      BY <2>2, <2>3, AgentExitType DEF TypeOK
    <2>4. CASE ~AgentExit
      <3>1. ManagerTypeOK' /\ OpTypeOK'
        BY <2>1, <2>4 DEF TypeOK, ManagerTypeOK, OpTypeOK, RunnerPCs, RunReadFails,
           RunSpawnFails
      <3>2. SupTypeOK'
        BY <2>1, <2>4, KillType DEF TypeOK, SupTypeOK, RunReadFails, RunSpawnFails
      <3>3. QED
        BY <2>2, <3>1, <3>2 DEF TypeOK
    <2>5. QED
      BY <2>3, <2>4
  <1>3. CASE StopAll \/ RestartAll \/ DeactivationStep
    <2>1. ManagerTypeOK' /\ OpTypeOK' /\ DiskTypeOK'
      BY <1>3 DEF TypeOK, ManagerTypeOK, OpTypeOK, DiskTypeOK, RunnerPCs, StopAll,
         RestartAll, DeactivationStep, StopAllClear, StopAllKill, RestartAllClear
    <2>2. LimitsTypeOK'
      BY <1>3, FaultType, KillFailsFault DEF TypeOK, LimitsTypeOK, StopAll,
         RestartAll, DeactivationStep, StopAllClear, StopAllKill, RestartAllClear
    <2>3. SupTypeOK'
      BY <1>3, KillType DEF TypeOK, StopAll,
         RestartAll, DeactivationStep, StopAllClear, StopAllKill, RestartAllClear
    <2>4. QED
      BY <2>1, <2>2, <2>3 DEF TypeOK
  <1>4. CASE Boot \/ ProcessExit
    BY <1>4 DEF TypeOK, ManagerTypeOK, OpTypeOK, DiskTypeOK, LimitsTypeOK, SupTypeOK,
       RunnerPCs, Boot, ProcessExit
  <1>5. CASE Crash
    <2>1. LimitsTypeOK' /\ DiskTypeOK'
      BY <1>5 DEF TypeOK, LimitsTypeOK, DiskTypeOK, Crash
    <2>2. QED
      BY <1>5, <2>1, AgentExitType DEF TypeOK, Crash
  <1>6. QED
    BY <1>1, <1>2, <1>3, <1>4, <1>5

LEMMA StutterType == ASSUME TypeOK, UNCHANGED vars PROVE TypeOK'
  BY DEF TypeOK, ManagerTypeOK, OpTypeOK, DiskTypeOK, LimitsTypeOK, SupTypeOK, vars,
     manager, disk, processes, limits

LEMMA InitType == ASSUME Init PROVE TypeOK
  <1>1. ManagerTypeOK /\ LimitsTypeOK
    <2>1. /\ promise \in [known : BOOLEAN, version : Binaries]
          /\ runner \in [{"boot", "deactivation"} -> RunnerPCs]
      BY RestType DEF Init
    <2>2. up \in BOOLEAN /\ running \in BOOLEAN /\ shuttingDown \in BOOLEAN
      BY Zenon DEF Init
    <2>3. /\ updating = 0 /\ lock = "none"
          /\ started = 0 /\ crashes = 0 /\ faults = 0 /\ stops = 0
      BY DEF Init
    <2>4. QED
      BY <2>1, <2>2, <2>3 DEF ManagerTypeOK, LimitsTypeOK
  <1>2. DiskTypeOK
    BY DEF Init, DiskTypeOK, Records, Binaries
  <1>3. SupTypeOK
    BY DEF Init, SupTypeOK, SupPCs
  <1>4. OpTypeOK
    BY IdleType DEF Init, OpTypeOK
  <1>5. QED
    BY <1>1, <1>2, <1>3, <1>4 DEF TypeOK

LEMMA NextType == ASSUME TypeOK, [Next]_vars PROVE TypeOK'
  <1>1. CASE \E o \in Ops : OpStep(o) \/ RestartTimeout(o)
    BY <1>1, OpStepType, OpStepOpType DEF TypeOK
  <1>2. CASE \E s \in Sups : SupStep(s) \/ SupArgsFail(s)
    BY <1>2, SupStepType
  <1>3. CASE \E o \in Ops, kind \in Kinds, v \in Versions : Begin(o, kind, v)
    BY <1>3, BeginType
  <1>4. QED
    BY <1>1, <1>2, <1>3, RunnerType, StutterType DEF Next

\* The type invariant holds in every reachable state: operations stay on the
\* path of their kind, and only a supervisor that waits for a child has one.
THEOREM ToolTypeCorrect == Spec => []TypeOK
  <1>1. Init => TypeOK
    BY InitType
  <1>2. TypeOK /\ [Next]_vars => TypeOK'
    BY NextType
  <1>3. QED
    BY <1>1, <1>2, PTL DEF Spec


-----------------------------------------------------------------------------
(* The updating counter.                                                   *)

InFlight == {o \in Ops : op[o].pc \in Marked}

LEMMA InFlightFinite == IsFiniteSet(InFlight) /\ Cardinality(InFlight) \in Nat
  BY ActorsAssumption, FS_Subset, FS_CardinalityType DEF InFlight

\* No operation enters or leaves the part between mark and clear.
LEMMA SameFlight ==
  ASSUME FlagsBalanced, updating' = updating,
         \A p \in Ops : (op'[p].pc \in Marked) <=> (op[p].pc \in Marked)
  PROVE  FlagsBalanced'
  <1>1. {o \in Ops : op'[o].pc \in Marked} = {o \in Ops : op[o].pc \in Marked}
    OBVIOUS
  <1>2. QED
    BY <1>1 DEF FlagsBalanced

\* mark_updating.
LEMMA EnterFlight ==
  ASSUME FlagsBalanced, NEW o \in Ops, op[o].pc \notin Marked, op'[o].pc \in Marked,
         \A p \in Ops : p # o => op'[p] = op[p], updating' = updating + 1
  PROVE  FlagsBalanced'
  <1>1. {p \in Ops : op'[p].pc \in Marked} = InFlight \cup {o}
    BY DEF InFlight
  <1>2. o \notin InFlight
    BY DEF InFlight
  <1>3. Cardinality(InFlight \cup {o}) = Cardinality(InFlight) + 1
    BY <1>2, InFlightFinite, FS_AddElement
  <1>4. QED
    BY <1>1, <1>3 DEF FlagsBalanced, InFlight

\* clear_updating.
LEMMA LeaveFlight ==
  ASSUME FlagsBalanced, NEW o \in Ops, op[o].pc \in Marked, op'[o].pc \notin Marked,
         \A p \in Ops : p # o => op'[p] = op[p], updating' = updating - 1
  PROVE  FlagsBalanced'
  <1>1. {p \in Ops : op'[p].pc \in Marked} = InFlight \ {o}
    BY DEF InFlight
  <1>2. o \in InFlight
    BY DEF InFlight
  <1>3. Cardinality(InFlight \ {o}) = Cardinality(InFlight) - 1
    BY <1>2, InFlightFinite, FS_RemoveElement
  <1>4. QED
    BY <1>1, <1>3 DEF FlagsBalanced, InFlight

\* No operation: the counter is zero.
LEMMA NoFlight ==
  ASSUME \A o \in Ops : op'[o].pc = "idle", updating' = 0
  PROVE  FlagsBalanced'
  <1>1. {o \in Ops : op'[o].pc \in Marked} = {}
    BY DEF Marked
  <1>2. QED
    BY <1>1, FS_EmptySet DEF FlagsBalanced

\* Each of an operation's steps other than mark_updating and clear_updating
\* keeps it on its side of the two.
LEMMA OpStepFlags ==
  ASSUME TypeOK, FlagsBalanced, NEW o \in Ops, OpStep(o) \/ RestartTimeout(o)
  PROVE  FlagsBalanced'
  <1>0. OpTypeOK /\ op[o].kind \in {"install", "reinstall", "update", "uninstall",
                            "restart", "none"}
    BY KindOf DEF TypeOK
  <1> DEFINE Stays == /\ \A p \in Ops : p # o => op'[p] = op[p]
                      /\ (op'[o].pc \in Marked) <=> (op[o].pc \in Marked)
  <1>s. ASSUME Stays, updating' = updating PROVE FlagsBalanced'
    BY <1>s, SameFlight
  <1>1. CASE Lock(o)
    <2>1. Stays
      BY <1>0, <1>1, GotoEffect, FailedEffect DEF Lock, Marked
    <2>2. QED
      BY <1>1, <2>1, <1>s DEF Lock, manager
  <1>2. CASE TryLock(o)
    <2>1. Stays
      BY <1>0, <1>2, GotoEffect, ToIdleEffect, IdleType DEF TryLock, Marked
    <2>2. QED
      BY <1>2, <2>1, <1>s DEF TryLock, manager
  <1>3. CASE End(o)
    <2>1. Stays
      BY <1>0, <1>3, GotoEffect, ToIdleEffect, IdleType DEF End, Marked
    <2>2. QED
      BY <1>3, <2>1, <1>s DEF End, manager
  <1>4. CASE Inspect(o)
    <2>1. Stays
      BY <1>0, <1>4, GotoEffect, FailedEffect DEF Inspect, Marked
    <2>2. QED
      BY <1>4, <2>1, <1>s DEF Inspect, manager
  <1>5. CASE StopBeforeReinstall(o)
    <2>1. Stays
      BY <1>0, <1>5, GotoEffect, FailedEffect DEF StopBeforeReinstall, Marked
    <2>2. QED
      BY <1>5, <2>1, <1>s DEF StopBeforeReinstall, manager
  <1>6. CASE RemoveDir(o)
    <2>1. Stays
      BY <1>0, <1>6, GotoEffect, FailedEffect DEF RemoveDir, Marked
    <2>2. QED
      BY <1>6, <2>1, <1>s DEF RemoveDir, manager
  <1>7. CASE StopLeftovers(o)
    <2>1. Stays
      BY <1>0, <1>7, GotoEffect, FailedEffect DEF StopLeftovers, Marked
    <2>2. QED
      BY <1>7, <2>1, <1>s DEF StopLeftovers, manager
  <1>8. CASE Download(o)
    <2>1. Stays
      BY <1>0, <1>8, GotoEffect, FailedEffect DEF Download, Marked
    <2>2. QED
      BY <1>8, <2>1, <1>s DEF Download, manager
  <1>9. CASE InstallCommand(o)
    <2>1. Stays
      BY <1>0, <1>9, FailedEffect, WorkedEffect DEF InstallCommand, Marked
    <2>2. QED
      BY <1>9, <2>1, <1>s DEF InstallCommand, manager
  <1>10. CASE RunNewTool(o)
    <2>1. Stays
      BY <1>0, <1>10, GotoEffect, FailedEffect DEF RunNewTool, Marked
    <2>2. QED
      BY <1>10, <2>1, <1>s DEF RunNewTool, manager
  <1>11. CASE RunTool(o)
    <2>1. Stays
      BY <1>0, <1>11, GotoEffect, FailedEffect DEF RunTool, Marked
    <2>2. QED
      BY <1>11, <2>1, <1>s DEF RunTool, manager
  <1>12. CASE UpdateRead(o)
    <2>1. Stays
      BY <1>0, <1>12, GotoEffect, FailedEffect DEF UpdateRead, Marked, OpTypeOK, OpRecords
    <2>2. QED
      BY <1>12, <2>1, <1>s DEF UpdateRead, manager
  <1>13. CASE UpdateStop(o)
    <2>1. CASE Failed(o)
      BY <1>0, <1>13, <1>s, <2>1, FailedEffect DEF UpdateStop, Marked, manager
    <2>2. CASE ~Failed(o)
      <3>1. op' = [op EXCEPT ![o].pc = "apply", ![o].backup = binary]
        BY <1>13, <2>2 DEF UpdateStop
      <3>2. Stays
        BY <1>0, <1>13, <3>1, BackupEffect DEF UpdateStop, Marked
      <3>3. QED
        BY <1>13, <3>2, <1>s DEF UpdateStop, manager
    <2>3. QED
      BY <2>1, <2>2
  <1>14. CASE UpdateApply(o)
    <2>1. Stays
      BY <1>0, <1>14, GotoEffect, FailedEffect DEF UpdateApply, Marked
    <2>2. QED
      BY <1>14, <2>1, <1>s DEF UpdateApply, manager
  <1>15. CASE UpdateSave(o)
    <2>1. Stays
      BY <1>0, <1>15, FailedEffect, WorkedEffect DEF UpdateSave, Marked
    <2>2. QED
      BY <1>15, <2>1, <1>s DEF UpdateSave, manager
  <1>16. CASE UpdateFinalize(o)
    <2>1. Stays
      BY <1>0, <1>16, GotoEffect, FailedEffect DEF UpdateFinalize, Marked, OpTypeOK, OpRecords
    <2>2. QED
      BY <1>16, <2>1, <1>s DEF UpdateFinalize, manager
  <1>17. CASE UninstallFind(o)
    <2>1. Stays
      BY <1>0, <1>17, GotoEffect, FailedEffect DEF UninstallFind, Marked
    <2>2. QED
      BY <1>17, <2>1, <1>s DEF UninstallFind, manager
  <1>18. CASE UninstallStop(o)
    <2>1. Stays
      BY <1>0, <1>18, GotoEffect, FailedEffect DEF UninstallStop, Marked
    <2>2. QED
      BY <1>18, <2>1, <1>s DEF UninstallStop, manager
  <1>19. CASE UninstallRemoveDir(o)
    <2>1. Stays
      BY <1>0, <1>19, GotoEffect, FailedEffect DEF UninstallRemoveDir, Marked
    <2>2. QED
      BY <1>19, <2>1, <1>s DEF UninstallRemoveDir, manager
  <1>20. CASE UninstallDelete(o)
    <2>1. Stays
      BY <1>0, <1>20, FailedEffect, WorkedEffect DEF UninstallDelete, Marked
    <2>2. QED
      BY <1>20, <2>1, <1>s DEF UninstallDelete, manager
  <1>21. CASE Unsupervise(o)
    <2>1. Stays
      BY <1>0, <1>21, GotoEffect, FailedEffect DEF Unsupervise, Marked
    <2>2. QED
      BY <1>21, <2>1, <1>s DEF Unsupervise, manager
  <1>22. CASE RestartLookup(o)
    <2>1. Stays
      BY <1>0, <1>22, GotoEffect, FailedEffect DEF RestartLookup, Marked
    <2>2. QED
      BY <1>22, <2>1, <1>s DEF RestartLookup, manager
  <1>23. CASE RestartStop(o)
    <2>1. Stays
      BY <1>0, <1>23, GotoEffect, FailedEffect DEF RestartStop, Marked
    <2>2. QED
      BY <1>23, <2>1, <1>s DEF RestartStop, manager
  <1>24. CASE RestartTimeout(o)
    <2>1. Stays
      BY <1>0, <1>24, GotoEffect, FailedEffect DEF RestartTimeout, Marked
    <2>2. QED
      BY <1>24, <2>1, <1>s DEF RestartTimeout, manager
  <1>25. CASE MarkUpdating(o)
    <2>1. op[o].kind # "none" /\ op[o].pc \notin Marked
      BY <1>0, <1>25, KindOf DEF MarkUpdating, Marked
    <2>2. op'[o].pc \in Marked /\ \A p \in Ops : p # o => op'[p] = op[p]
      BY <1>0, <1>25, <2>1, GotoEffect DEF MarkUpdating, Marked
    <2>3. QED
      BY <1>25, <2>1, <2>2, EnterFlight DEF MarkUpdating
  <1>26. CASE ClearUpdating(o)
    <2>1. /\ op[o].pc \in Marked /\ op'[o].pc \notin Marked
          /\ \A p \in Ops : p # o => op'[p] = op[p]
      BY <1>0, <1>26, GotoEffect DEF ClearUpdating, Marked
    <2>2. QED
      BY <1>26, <2>1, LeaveFlight DEF ClearUpdating
  <1>27. QED
    BY <1>1, <1>2, <1>3, <1>4, <1>5, <1>6, <1>7, <1>8, <1>9, <1>10, <1>11, <1>12, <1>13, <1>14, <1>15, <1>16, <1>17, <1>18, <1>19, <1>20, <1>21, <1>22, <1>23, <1>24, <1>25, <1>26 DEF OpStep

LEMMA AgentExitFlags == ASSUME AgentExit PROVE FlagsBalanced'
  BY NoFlight, IdleType DEF AgentExit

LEMMA NextFlags == ASSUME TypeOK, FlagsBalanced, [Next]_vars PROVE FlagsBalanced'
  <1> USE DEF manager
  <1>1. CASE \E o \in Ops : OpStep(o) \/ RestartTimeout(o)
    BY <1>1, OpStepFlags
  <1>2. CASE UNCHANGED op /\ UNCHANGED updating
    BY <1>2, SameFlight
  <1>3. CASE \E s \in Sups : SupStep(s) \/ SupArgsFail(s)
    BY <1>2, <1>3 DEF SupStep, SupTop, SupWait, SupCheck, SupArgsFail, SupLaunch,
       SupSpawn, SupReap, SupWake
  <1>4. CASE \E o \in Ops, kind \in Kinds, v \in Versions : Begin(o, kind, v)
    <2>1. PICK o \in Ops, kind \in Kinds, v \in Versions : Begin(o, kind, v)
      BY <1>4
    <2>2. kind \in {"install", "reinstall", "update", "uninstall", "restart"}
      BY KindsAssumption
    <2>3. op'[o].pc \in {"lock", "try_lock", "read"}
      BY <2>1, <2>2 DEF Begin, IdleOp, TypeOK, OpTypeOK
    <2>4. \A p \in Ops : p # o => op'[p] = op[p]
      BY <2>1 DEF Begin, TypeOK, OpTypeOK
    <2>5. op[o].pc = "idle" /\ updating' = updating
      BY <2>1 DEF Begin
    <2>6. QED
      BY <2>3, <2>4, <2>5, SameFlight DEF Marked
  <1>5. CASE \E r \in {"boot", "deactivation"} :
              RunnerStep(r) \/ RunReadFails(r) \/ RunSpawnFails(r)
    BY <1>2, <1>5, AgentExitFlags DEF RunnerStep, RunRead, RunRecheck, RunSettle, RunMark,
       RunSpawn, RunReadFails, RunSpawnFails
  <1>6. CASE StopAll \/ RestartAll \/ DeactivationStep \/ Boot \/ ProcessExit
    BY <1>2, <1>6 DEF StopAll, RestartAll, DeactivationStep, StopAllClear,
       StopAllKill, RestartAllClear, Boot, ProcessExit
  <1>7. CASE Crash
    BY <1>7, AgentExitFlags DEF Crash
  <1>8. CASE UNCHANGED vars
    BY <1>2, <1>8 DEF vars
  <1>9. QED
    BY <1>1, <1>3, <1>4, <1>5, <1>6, <1>7, <1>8 DEF Next

\* Every mark_updating is matched by one clear_updating, whatever fails and
\* however many operations overlap: supervisors never wait for an operation
\* that is over.
THEOREM FlagsAlwaysBalanced == Spec => []FlagsBalanced
  <1>1. Init => TypeOK /\ FlagsBalanced
    <2>1. ASSUME Init PROVE {o \in Ops : op[o].pc \in Marked} = {}
      BY <2>1, IdleType DEF Init, Marked
    <2>2. QED
      BY <2>1, InitType, FS_EmptySet DEF Init, FlagsBalanced
  <1>2. TypeOK /\ FlagsBalanced /\ [Next]_vars => TypeOK' /\ FlagsBalanced'
    BY NextType, NextFlags
  <1>3. QED
    BY <1>1, <1>2, PTL DEF Spec


-----------------------------------------------------------------------------
(* What an operation's step leaves alone.                                  *)

LEMMA KillOrphan ==
  ASSUME SupTypeOK, KillAll \/ KillFails \/ Supervise PROVE orphan' => orphan
  BY DEF SupTypeOK, KillAll, KillFails, Supervise

OpFrame(o) ==
  /\ \A p \in Ops : p # o => op'[p] = op[p]
  /\ op'[o] = IdleOp \/ op'[o].kind = op[o].kind
  /\ op'[o].pc = "spawn" => RunNewTool(o)
  /\ lock' = lock \/ Lock(o) \/ TryLock(o) \/ End(o)
  /\ running' = running \/ RunNewTool(o) \/ Unsupervise(o)
  /\ sup' = sup \/ RunTool(o)
  /\ orphan' => orphan
  /\ UNCHANGED <<up, shuttingDown, runner>>

LEMMA OpStepFrame ==
  ASSUME TypeOK, NEW o \in Ops, OpStep(o) \/ RestartTimeout(o)
  PROVE  OpFrame(o)
  <1> USE DEF manager, processes
  <1>0. /\ OpTypeOK /\ SupTypeOK
        /\ op[o].kind \in {"install", "reinstall", "update", "uninstall",
                           "restart", "none"}
        /\ op[o].pc = "mark" => op[o].kind # "none"
    BY KindOf DEF TypeOK
  <1>1. CASE Lock(o)
    <2>1. /\ \A p \in Ops : p # o => op'[p] = op[p]
          /\ op'[o] = IdleOp \/ op'[o].kind = op[o].kind
          /\ op'[o].pc = "spawn" => RunNewTool(o)
      BY <1>0, <1>1, GotoEffect, FailedEffect DEF Lock
    <2>2. QED
      BY <1>0, <1>1, <2>1 DEF Lock, OpFrame
  <1>2. CASE TryLock(o)
    <2>1. /\ \A p \in Ops : p # o => op'[p] = op[p]
          /\ op'[o] = IdleOp \/ op'[o].kind = op[o].kind
          /\ op'[o].pc = "spawn" => RunNewTool(o)
      BY <1>0, <1>2, GotoEffect, ToIdleEffect, IdleType DEF TryLock
    <2>2. QED
      BY <1>0, <1>2, <2>1 DEF TryLock, OpFrame
  <1>3. CASE MarkUpdating(o)
    <2>1. /\ \A p \in Ops : p # o => op'[p] = op[p]
          /\ op'[o] = IdleOp \/ op'[o].kind = op[o].kind
          /\ op'[o].pc = "spawn" => RunNewTool(o)
      BY <1>0, <1>3, GotoEffect, FailedEffect DEF MarkUpdating
    <2>2. QED
      BY <1>0, <1>3, <2>1 DEF MarkUpdating, OpFrame
  <1>4. CASE ClearUpdating(o)
    <2>1. /\ \A p \in Ops : p # o => op'[p] = op[p]
          /\ op'[o] = IdleOp \/ op'[o].kind = op[o].kind
          /\ op'[o].pc = "spawn" => RunNewTool(o)
      BY <1>0, <1>4, GotoEffect, FailedEffect DEF ClearUpdating
    <2>2. QED
      BY <1>0, <1>4, <2>1 DEF ClearUpdating, OpFrame
  <1>5. CASE End(o)
    <2>1. /\ \A p \in Ops : p # o => op'[p] = op[p]
          /\ op'[o] = IdleOp \/ op'[o].kind = op[o].kind
          /\ op'[o].pc = "spawn" => RunNewTool(o)
      BY <1>0, <1>5, GotoEffect, ToIdleEffect, IdleType DEF End
    <2>2. QED
      BY <1>0, <1>5, <2>1 DEF End, OpFrame
  <1>6. CASE Inspect(o)
    <2>1. /\ \A p \in Ops : p # o => op'[p] = op[p]
          /\ op'[o] = IdleOp \/ op'[o].kind = op[o].kind
          /\ op'[o].pc = "spawn" => RunNewTool(o)
      BY <1>0, <1>6, GotoEffect, FailedEffect DEF Inspect
    <2>2. QED
      BY <1>0, <1>6, <2>1 DEF Inspect, OpFrame
  <1>7. CASE StopBeforeReinstall(o)
    <2>1. /\ \A p \in Ops : p # o => op'[p] = op[p]
          /\ op'[o] = IdleOp \/ op'[o].kind = op[o].kind
          /\ op'[o].pc = "spawn" => RunNewTool(o)
      BY <1>0, <1>7, GotoEffect, FailedEffect DEF StopBeforeReinstall
    <2>2. QED
      BY <1>0, <1>7, <2>1, KillOrphan DEF StopBeforeReinstall, OpFrame
  <1>8. CASE RemoveDir(o)
    <2>1. Goto(o, "leftovers") \/ Failed(o)
      BY <1>8 DEF RemoveDir
    <2>2. /\ \A p \in Ops : p # o => op'[p] = op[p]
          /\ op'[o].kind = op[o].kind
          /\ op'[o].pc # "spawn"
      BY <1>0, <2>1, GotoEffect, FailedEffect
    <2>3. QED
      BY <1>0, <1>8, <2>2 DEF RemoveDir, OpFrame
  <1>9. CASE StopLeftovers(o)
    <2>1. /\ \A p \in Ops : p # o => op'[p] = op[p]
          /\ op'[o] = IdleOp \/ op'[o].kind = op[o].kind
          /\ op'[o].pc = "spawn" => RunNewTool(o)
      BY <1>0, <1>9, GotoEffect, FailedEffect DEF StopLeftovers
    <2>2. QED
      BY <1>0, <1>9, <2>1, KillOrphan DEF StopLeftovers, OpFrame
  <1>10. CASE Download(o)
    <2>1. Goto(o, "command") \/ Failed(o)
      BY <1>10 DEF Download
    <2>2. /\ \A p \in Ops : p # o => op'[p] = op[p]
          /\ op'[o].kind = op[o].kind
          /\ op'[o].pc # "spawn"
      BY <1>0, <2>1, GotoEffect, FailedEffect
    <2>3. QED
      BY <1>0, <1>10, <2>2 DEF Download, OpFrame
  <1>11. CASE InstallCommand(o)
    <2>1. Worked(o, "run") \/ Failed(o)
      BY <1>11 DEF InstallCommand
    <2>2. /\ \A p \in Ops : p # o => op'[p] = op[p]
          /\ op'[o].kind = op[o].kind
          /\ op'[o].pc # "spawn"
      BY <1>0, <2>1, WorkedEffect, FailedEffect
    <2>3. QED
      BY <1>0, <1>11, <2>2, KillOrphan DEF InstallCommand, OpFrame
  <1>12. CASE RunNewTool(o)
    <2>1. /\ \A p \in Ops : p # o => op'[p] = op[p]
          /\ op'[o] = IdleOp \/ op'[o].kind = op[o].kind
          /\ op'[o].pc = "spawn" => RunNewTool(o)
      BY <1>0, <1>12, GotoEffect, FailedEffect DEF RunNewTool
    <2>2. QED
      BY <1>0, <1>12, <2>1 DEF RunNewTool, OpFrame
  <1>13. CASE RunTool(o)
    <2>1. Goto(o, "clear") \/ Failed(o)
      BY <1>13 DEF RunTool
    <2>2. /\ \A p \in Ops : p # o => op'[p] = op[p]
          /\ op'[o].kind = op[o].kind
          /\ op'[o].pc # "spawn"
      BY <1>0, <2>1, GotoEffect, FailedEffect
    <2>3. QED
      BY <1>0, <1>13, <2>2, KillOrphan DEF RunTool, OpFrame
  <1>14. CASE UpdateRead(o)
    <2>1. /\ \A p \in Ops : p # o => op'[p] = op[p]
          /\ op'[o] = IdleOp \/ op'[o].kind = op[o].kind
          /\ op'[o].pc = "spawn" => RunNewTool(o)
      BY <1>0, <1>14, GotoEffect, FailedEffect DEF UpdateRead, OpTypeOK, OpRecords
    <2>2. QED
      BY <1>0, <1>14, <2>1 DEF UpdateRead, OpFrame
  <1>15. CASE UpdateStop(o)
    <2>1. op' = [op EXCEPT ![o].pc = "apply", ![o].backup = binary] \/ Failed(o)
      BY <1>15 DEF UpdateStop
    <2>2. /\ \A p \in Ops : p # o => op'[p] = op[p]
          /\ op'[o].kind = op[o].kind
          /\ op'[o].pc # "spawn"
      BY <1>0, <2>1, BackupEffect, FailedEffect
    <2>3. QED
      BY <1>0, <1>15, <2>2, KillOrphan DEF UpdateStop, OpFrame
  <1>16. CASE UpdateApply(o)
    <2>1. Goto(o, "save") \/ Failed(o)
      BY <1>16 DEF UpdateApply
    <2>2. /\ \A p \in Ops : p # o => op'[p] = op[p]
          /\ op'[o].kind = op[o].kind
          /\ op'[o].pc # "spawn"
      BY <1>0, <2>1, GotoEffect, FailedEffect
    <2>3. QED
      BY <1>0, <1>16, <2>2 DEF UpdateApply, OpFrame
  <1>17. CASE UpdateSave(o)
    <2>1. Worked(o, "clear") \/ Failed(o)
      BY <1>17 DEF UpdateSave
    <2>2. /\ \A p \in Ops : p # o => op'[p] = op[p]
          /\ op'[o].kind = op[o].kind
          /\ op'[o].pc # "spawn"
      BY <1>0, <2>1, WorkedEffect, FailedEffect
    <2>3. QED
      BY <1>0, <1>17, <2>2 DEF UpdateSave, OpFrame
  <1>18. CASE UpdateFinalize(o)
    <2>1. /\ \A p \in Ops : p # o => op'[p] = op[p]
          /\ op'[o] = IdleOp \/ op'[o].kind = op[o].kind
          /\ op'[o].pc = "spawn" => RunNewTool(o)
      BY <1>0, <1>18, GotoEffect, FailedEffect DEF UpdateFinalize, OpTypeOK, OpRecords
    <2>2. QED
      BY <1>0, <1>18, <2>1 DEF UpdateFinalize, OpFrame
  <1>19. CASE UninstallFind(o)
    <2>1. /\ \A p \in Ops : p # o => op'[p] = op[p]
          /\ op'[o] = IdleOp \/ op'[o].kind = op[o].kind
          /\ op'[o].pc = "spawn" => RunNewTool(o)
      BY <1>0, <1>19, GotoEffect, FailedEffect DEF UninstallFind
    <2>2. QED
      BY <1>0, <1>19, <2>1 DEF UninstallFind, OpFrame
  <1>20. CASE UninstallStop(o)
    <2>1. Goto(o, "remove_dir") \/ Failed(o)
      BY <1>20 DEF UninstallStop
    <2>2. /\ \A p \in Ops : p # o => op'[p] = op[p]
          /\ op'[o].kind = op[o].kind
          /\ op'[o].pc # "spawn"
      BY <1>0, <2>1, GotoEffect, FailedEffect
    <2>3. QED
      BY <1>0, <1>20, <2>2, KillOrphan DEF UninstallStop, OpFrame
  <1>21. CASE UninstallRemoveDir(o)
    <2>1. Goto(o, "delete") \/ Failed(o)
      BY <1>21 DEF UninstallRemoveDir
    <2>2. /\ \A p \in Ops : p # o => op'[p] = op[p]
          /\ op'[o].kind = op[o].kind
          /\ op'[o].pc # "spawn"
      BY <1>0, <2>1, GotoEffect, FailedEffect
    <2>3. QED
      BY <1>0, <1>21, <2>2 DEF UninstallRemoveDir, OpFrame
  <1>22. CASE UninstallDelete(o)
    <2>1. Worked(o, "unsupervise") \/ Failed(o)
      BY <1>22 DEF UninstallDelete
    <2>2. /\ \A p \in Ops : p # o => op'[p] = op[p]
          /\ op'[o].kind = op[o].kind
          /\ op'[o].pc # "spawn"
      BY <1>0, <2>1, WorkedEffect, FailedEffect
    <2>3. QED
      BY <1>0, <1>22, <2>2 DEF UninstallDelete, OpFrame
  <1>23. CASE Unsupervise(o)
    <2>1. /\ \A p \in Ops : p # o => op'[p] = op[p]
          /\ op'[o] = IdleOp \/ op'[o].kind = op[o].kind
          /\ op'[o].pc = "spawn" => RunNewTool(o)
      BY <1>0, <1>23, GotoEffect, FailedEffect DEF Unsupervise
    <2>2. QED
      BY <1>0, <1>23, <2>1 DEF Unsupervise, OpFrame
  <1>24. CASE RestartLookup(o)
    <2>1. /\ \A p \in Ops : p # o => op'[p] = op[p]
          /\ op'[o] = IdleOp \/ op'[o].kind = op[o].kind
          /\ op'[o].pc = "spawn" => RunNewTool(o)
      BY <1>0, <1>24, GotoEffect, FailedEffect DEF RestartLookup
    <2>2. QED
      BY <1>0, <1>24, <2>1 DEF RestartLookup, OpFrame
  <1>25. CASE RestartStop(o)
    <2>1. Goto(o, "run") \/ Failed(o)
      BY <1>25 DEF RestartStop
    <2>2. /\ \A p \in Ops : p # o => op'[p] = op[p]
          /\ op'[o].kind = op[o].kind
          /\ op'[o].pc # "spawn"
      BY <1>0, <2>1, GotoEffect, FailedEffect
    <2>3. QED
      BY <1>0, <1>25, <2>2, KillOrphan DEF RestartStop, OpFrame
  <1>26. CASE RestartTimeout(o)
    <2>1. /\ \A p \in Ops : p # o => op'[p] = op[p]
          /\ op'[o] = IdleOp \/ op'[o].kind = op[o].kind
          /\ op'[o].pc = "spawn" => RunNewTool(o)
      BY <1>0, <1>26, GotoEffect, FailedEffect DEF RestartTimeout
    <2>2. QED
      BY <1>0, <1>26, <2>1 DEF RestartTimeout, OpFrame
  <1>27. QED
    BY <1>1, <1>2, <1>3, <1>4, <1>5, <1>6, <1>7, <1>8, <1>9, <1>10, <1>11, <1>12, <1>13, <1>14, <1>15, <1>16, <1>17, <1>18, <1>19, <1>20, <1>21, <1>22, <1>23, <1>24, <1>25, <1>26 DEF OpStep


-----------------------------------------------------------------------------
(* The per-tool lock.                                                      *)

\* An operation other than an update that has got past its lock.
Holds(o) == /\ op[o].kind \notin {"none", "update"}
            /\ op[o].pc \notin {"lock", "try_lock"}

LockInv == \A o \in Ops : Holds(o) => lock = o

LEMMA OpStepLock ==
  ASSUME TypeOK, LockInv, NEW o \in Ops, OpStep(o) \/ RestartTimeout(o)
  PROVE  LockInv'
  <1>0. OpTypeOK /\ OpFrame(o)
    BY OpStepFrame DEF TypeOK
  <1>1. CASE Lock(o) \/ TryLock(o)
    <2>1. \A p \in Ops : p # o => op'[p] = op[p]
      BY <1>0 DEF OpFrame
    <2>2. \/ lock' = o /\ lock = "none"
          \/ lock' = lock /\ op' = [op EXCEPT ![o] = IdleOp]
      BY <1>1, Zenon DEF Lock, TryLock
    <2>3. op' = [op EXCEPT ![o] = IdleOp] => op'[o] = IdleOp
      BY <1>0 DEF OpTypeOK
    <2>4. QED
      BY <2>1, <2>2, <2>3, ActorsAssumption DEF LockInv, Holds, IdleOp
  <1>2. CASE End(o)
    <2>1. /\ \A p \in Ops : p # o => op'[p] = op[p]
          /\ op'[o] = IdleOp /\ (lock' = lock \/ lock = o)
      BY <1>0, <1>2, ToIdleEffect DEF End, OpFrame
    <2>2. QED
      BY <2>1 DEF LockInv, Holds, IdleOp
  <1>3. CASE ~Lock(o) /\ ~TryLock(o) /\ ~End(o)
    <2>1. lock' = lock /\ \A p \in Ops : p # o => op'[p] = op[p]
      BY <1>0, <1>3 DEF OpFrame
    <2>2. op[o].pc \notin {"lock", "try_lock"}
      BY <1>3 DEF OpStep, MarkUpdating, ClearUpdating, Inspect, StopBeforeReinstall,
         RemoveDir, StopLeftovers, Download, InstallCommand, RunNewTool, RunTool,
         UpdateRead, UpdateStop, UpdateApply, UpdateSave, UpdateFinalize, UninstallFind,
         UninstallStop, UninstallRemoveDir, UninstallDelete, Unsupervise,
         RestartLookup, RestartStop, RestartTimeout
    <2>3. op'[o] = IdleOp \/ op'[o].kind = op[o].kind
      BY <1>0 DEF OpFrame
    <2>4. QED
      BY <2>1, <2>2, <2>3 DEF LockInv, Holds, IdleOp
  <1>4. QED
    BY <1>1, <1>2, <1>3

\* A message that arrives takes no lock; the agent's exit frees it.
LEMMA NextLock == ASSUME TypeOK, LockInv, [Next]_vars PROVE LockInv'
  <1> USE DEF manager
  <1>1. CASE \E o \in Ops : OpStep(o) \/ RestartTimeout(o)
    BY <1>1, OpStepLock
  <1>2. CASE UNCHANGED op /\ UNCHANGED lock
    BY <1>2 DEF LockInv, Holds
  <1>3. CASE \E s \in Sups : SupStep(s) \/ SupArgsFail(s)
    BY <1>2, <1>3 DEF SupStep, SupTop, SupWait, SupCheck, SupArgsFail, SupLaunch,
       SupSpawn, SupReap, SupWake
  <1>4. CASE \E o \in Ops, kind \in Kinds, v \in Versions : Begin(o, kind, v)
    <2>1. PICK o \in Ops, kind \in Kinds, v \in Versions : Begin(o, kind, v)
      BY <1>4
    <2>2. kind \in {"install", "reinstall", "update", "uninstall", "restart"}
      BY KindsAssumption
    <2>3. op'[o].pc \in {"lock", "try_lock"} \/ op'[o].kind = "update"
      BY <2>1, <2>2 DEF Begin, IdleOp, TypeOK, OpTypeOK
    <2>4. lock' = lock /\ \A p \in Ops : p # o => op'[p] = op[p]
      BY <2>1 DEF Begin, TypeOK, OpTypeOK
    <2>5. QED
      BY <2>3, <2>4 DEF LockInv, Holds
  <1>5. ASSUME AgentExit PROVE LockInv'
    BY <1>5 DEF AgentExit, LockInv, Holds, IdleOp
  <1>6. CASE \E r \in {"boot", "deactivation"} :
              RunnerStep(r) \/ RunReadFails(r) \/ RunSpawnFails(r)
    BY <1>2, <1>5, <1>6 DEF RunnerStep, RunRead, RunRecheck, RunSettle, RunMark,
       RunSpawn, RunReadFails, RunSpawnFails
  <1>7. CASE StopAll \/ RestartAll \/ DeactivationStep \/ Boot \/ ProcessExit
    BY <1>2, <1>7 DEF StopAll, RestartAll, DeactivationStep, StopAllClear,
       StopAllKill, RestartAllClear, Boot, ProcessExit
  <1>8. CASE Crash
    BY <1>5, <1>8 DEF Crash
  <1>9. CASE UNCHANGED vars
    BY <1>2, <1>9 DEF vars
  <1>10. QED
    BY <1>1, <1>3, <1>4, <1>6, <1>7, <1>8, <1>9 DEF Next

LEMMA InitLock == ASSUME Init PROVE LockInv
  BY DEF Init, LockInv, Holds, IdleOp

\* Installs, reinstalls, uninstalls and restarts of a tool never overlap: only
\* an update, which takes no lock, runs beside another operation.
THEOREM LockedOperationsExclude ==
  ASSUME "update" \notin Kinds
  PROVE  Spec => []OneOperation
  <1>1. Init => TypeOK /\ LockInv
    BY InitType, InitLock
  <1>2. TypeOK /\ LockInv /\ [Next]_vars => TypeOK' /\ LockInv'
    BY NextType, NextLock
  <1>3. TypeOK /\ LockInv => OneOperation
    <2>1. SUFFICES ASSUME TypeOK, LockInv, NEW o \in Ops, NEW p \in Ops,
                          op[o].pc \in Marked, op[p].pc \in Marked
                   PROVE  o = p
      BY DEF OneOperation
    <2>2. Holds(o) /\ Holds(p)
      BY <2>1, KindOf DEF Holds, Marked, TypeOK
    <2>3. QED
      BY <2>1, <2>2 DEF LockInv
  <1>4. QED
    BY <1>1, <1>2, <1>3, PTL DEF Spec

-----------------------------------------------------------------------------
(* One supervisor, one process.                                            *)

\* Whoever is about to spawn a supervisor, and every supervisor, owes it to the
\* entry in running_tools, of which there is one.
SoleInv ==
  /\ ~shuttingDown /\ runner["deactivation"] = "idle"
  /\ ~running => /\ \A o \in Ops : op[o].pc # "spawn"
                 /\ runner["boot"] # "spawn"
                 /\ \A s \in Sups : sup[s] = "free"
  /\ \A o, p \in Ops : op[o].pc = "spawn" /\ op[p].pc = "spawn" => o = p
  /\ \A o \in Ops : op[o].pc = "spawn" => /\ runner["boot"] # "spawn"
                                          /\ \A s \in Sups : sup[s] = "free"
  /\ runner["boot"] = "spawn" => \A s \in Sups : sup[s] = "free"
  /\ \A s, t \in Sups : sup[s] # "free" /\ sup[t] # "free" => s = t
  /\ orphan => \A s \in Sups : sup[s] = "free"

\* A step that only ends claims keeps the invariant.
LEMMA FewerClaims ==
  ASSUME SoleInv,
         \A o \in Ops : op'[o].pc = "spawn" => op[o].pc = "spawn",
         \A s \in Sups : sup'[s] # "free" => sup[s] # "free",
         runner'["boot"] = "spawn" => runner["boot"] = "spawn",
         runner'["deactivation"] = "idle", ~shuttingDown',
         running' <=> running, orphan' => orphan
  PROVE  SoleInv'
  BY DEF SoleInv

\* run_tool: the claim passes to the new supervisor.
LEMMA SuperviseEffect ==
  ASSUME SupTypeOK, Supervise, \A s \in Sups : sup[s] = "free"
  PROVE  /\ ~orphan'
         /\ \A s, t \in Sups : sup'[s] # "free" /\ sup'[t] # "free" => s = t
  BY DEF SupTypeOK, Supervise, KillAll

LEMMA OpStepSole ==
  ASSUME TypeOK, SoleInv, "uninstall" \notin Kinds,
         NEW o \in Ops, OpStep(o) \/ RestartTimeout(o)
  PROVE  SoleInv'
  <1>0. OpTypeOK /\ SupTypeOK /\ OpFrame(o) /\ running \in BOOLEAN
    BY OpStepFrame DEF TypeOK, ManagerTypeOK
  <1>1. CASE RunNewTool(o)
    <2>1. /\ running' /\ UNCHANGED <<sup, orphan, runner, shuttingDown>>
          /\ op'[o].pc = IF running THEN "clear" ELSE "spawn"
          /\ \A p \in Ops : p # o => op'[p] = op[p]
      BY <1>0, <1>1, GotoEffect DEF RunNewTool, processes
    <2>2. QED
      BY <2>1 DEF SoleInv
  <1>2. CASE RunTool(o)
    <2>1. /\ UNCHANGED <<running, runner, shuttingDown>>
          /\ \A p \in Ops : p # o => op'[p] = op[p]
          /\ op[o].pc = "spawn"
      BY <1>0, <1>2 DEF RunTool, OpFrame, manager
    <2>2. op'[o].pc # "spawn"
      BY <1>0, <1>2, FailedEffect, GotoEffect DEF RunTool
    <2>3. CASE Supervise
      <3>1. /\ ~orphan'
            /\ \A s, t \in Sups : sup'[s] # "free" /\ sup'[t] # "free" => s = t
        BY <1>0, <2>1, <2>3, SuperviseEffect DEF SoleInv
      <3>2. running /\ \A p \in Ops : op'[p].pc # "spawn"
        BY <2>1, <2>2 DEF SoleInv
      <3>3. QED
        BY <2>1, <3>1, <3>2 DEF SoleInv
    <2>4. CASE UNCHANGED sup
      BY <1>0, <2>1, <2>2, <2>4, FewerClaims DEF OpFrame, SoleInv
    <2>5. QED
      BY <1>2, <2>3, <2>4 DEF RunTool
  <1>3. CASE ~RunNewTool(o) /\ ~RunTool(o)
    <2>1. ~Unsupervise(o)
      BY <1>0, KindOf DEF Unsupervise
    <2>2. QED
      BY <1>0, <1>3, <2>1, FewerClaims DEF OpFrame, SoleInv
  <1>4. QED
    BY <1>1, <1>2, <1>3

LEMMA RunnerSole ==
  ASSUME TypeOK, SoleInv, NEW r \in {"boot", "deactivation"}, RunnerStep(r)
  PROVE  SoleInv'
  <1> USE DEF manager, processes
  <1>0. r = "boot" /\ SupTypeOK /\ runner \in [{"boot", "deactivation"} -> RunnerPCs]
    BY DEF SoleInv, RunnerStep, RunRead, RunRecheck, RunSettle, RunMark, RunSpawn,
       TypeOK, ManagerTypeOK
  <1>1. CASE RunRead(r) \/ RunRecheck(r) \/ RunSettle(r)
    <2>1. /\ runner'["deactivation"] = "idle" /\ runner'["boot"] # "spawn"
          /\ UNCHANGED <<op, sup, orphan, running, shuttingDown>>
      BY <1>0, <1>1 DEF RunRead, RunRecheck, RunSettle, SoleInv, TypeOK, DiskTypeOK, Records
    <2>2. QED
      BY <2>1, FewerClaims DEF SoleInv
  <1>2. CASE RunMark(r)
    <2>1. /\ running' /\ UNCHANGED <<op, sup, orphan, shuttingDown>>
          /\ runner'["boot"] = IF running THEN "idle" ELSE "spawn"
          /\ runner'["deactivation"] = "idle"
      BY <1>0, <1>2 DEF RunMark, SoleInv
    <2>2. QED
      BY <2>1 DEF SoleInv
  <1>3. CASE RunSpawn(r)
    <2>1. /\ runner["boot"] = "spawn" /\ Supervise
          /\ UNCHANGED <<op, running, shuttingDown>>
          /\ runner'["boot"] = "idle" /\ runner'["deactivation"] = "idle"
      BY <1>0, <1>3 DEF RunSpawn, SoleInv
    <2>2. /\ ~orphan'
          /\ \A s, t \in Sups : sup'[s] # "free" /\ sup'[t] # "free" => s = t
      BY <1>0, <2>1, SuperviseEffect DEF SoleInv
    <2>3. QED
      BY <2>1, <2>2 DEF SoleInv
  <1>4. QED
    BY <1>1, <1>2, <1>3 DEF RunnerStep

LEMMA AgentExitSole == ASSUME AgentExit PROVE SoleInv'
  <1>1. /\ \A s \in Sups : sup'[s] = "free"
        /\ \A o \in Ops : op'[o].pc = "idle"
        /\ runner'["boot"] = "idle" /\ runner'["deactivation"] = "idle"
        /\ ~shuttingDown' /\ ~running'
    BY IdleType DEF AgentExit
  <1>2. QED
    BY <1>1 DEF SoleInv

LEMMA NextSole ==
  ASSUME TypeOK, SoleInv, "uninstall" \notin Kinds, MaxStops = 0, [Next]_vars
  PROVE  SoleInv'
  <1> USE DEF manager, processes
  <1>0. SupTypeOK /\ OpTypeOK /\ runner \in [{"boot", "deactivation"} -> RunnerPCs]
    BY DEF TypeOK, ManagerTypeOK
  <1>1. CASE \E o \in Ops : OpStep(o) \/ RestartTimeout(o)
    BY <1>1, OpStepSole
  <1>2. CASE \E s \in Sups : SupStep(s) \/ SupArgsFail(s)
    <2>1. PICK s \in Sups : SupStep(s) \/ SupArgsFail(s)
      BY <1>2
    <2>2. /\ UNCHANGED <<op, runner, running, shuttingDown, orphan>>
          /\ sup[s] # "free" /\ \A t \in Sups : t # s => sup'[t] = sup[t]
      BY <1>0, <2>1 DEF SupStep, SupTop, SupWait, SupCheck, SupArgsFail, SupLaunch,
         SupSpawn, SupReap, SupWake, SupTypeOK
    <2>3. QED
      BY <2>2, FewerClaims DEF SoleInv
  <1>3. CASE \E o \in Ops, kind \in Kinds, v \in Versions : Begin(o, kind, v)
    <2>1. PICK o \in Ops, kind \in Kinds, v \in Versions : Begin(o, kind, v)
      BY <1>3
    <2>2. kind \in {"install", "reinstall", "update", "uninstall", "restart"}
      BY KindsAssumption
    <2>3. op'[o].pc \in {"lock", "try_lock", "read"}
      BY <1>0, <2>1, <2>2 DEF Begin, IdleOp, OpTypeOK
    <2>4. /\ \A p \in Ops : p # o => op'[p] = op[p]
          /\ UNCHANGED <<sup, runner, running, shuttingDown, orphan>>
      BY <1>0, <2>1 DEF Begin, OpTypeOK
    <2>5. QED
      BY <2>3, <2>4, FewerClaims DEF SoleInv
  <1>4. CASE \E r \in {"boot", "deactivation"} : RunnerStep(r)
    BY <1>4, RunnerSole
  <1>5. CASE \E r \in {"boot", "deactivation"} : RunReadFails(r) \/ RunSpawnFails(r)
    BY <1>5, AgentExitSole DEF RunReadFails, RunSpawnFails, SoleInv
  <1>6. ~StopAll /\ ~RestartAll /\ ~DeactivationStep
    <2>1. ~(stops < MaxStops)
      BY DEF TypeOK, LimitsTypeOK
    <2>2. QED
      BY <2>1 DEF StopAll, RestartAll, DeactivationStep, StopAllClear, StopAllKill,
         RestartAllClear, SoleInv
  <1>7. CASE Boot
    <2>1. /\ runner'["boot"] = "read" /\ runner'["deactivation"] = "idle"
          /\ UNCHANGED <<op, sup, running, shuttingDown, orphan>>
      BY <1>0, <1>7 DEF Boot, SoleInv
    <2>2. QED
      BY <2>1, FewerClaims DEF SoleInv
  <1>8. CASE ProcessExit
    <2>1. orphan' => orphan
      BY <1>8 DEF ProcessExit
    <2>2. UNCHANGED <<op, sup, runner, running, shuttingDown>>
      BY <1>8 DEF ProcessExit
    <2>3. QED
      BY <2>1, <2>2, FewerClaims DEF SoleInv
  <1>9. CASE Crash
    BY <1>9, AgentExitSole DEF Crash
  <1>10. CASE UNCHANGED vars
    BY <1>10, FewerClaims DEF vars, SoleInv
  <1>11. QED
    BY <1>1, <1>2, <1>3, <1>4, <1>5, <1>6, <1>7, <1>8, <1>9, <1>10 DEF Next

LEMMA InitSole == ASSUME Init PROVE SoleInv
  <1>1. /\ \A s \in Sups : sup[s] = "free"
        /\ \A o \in Ops : op[o].pc = "idle"
        /\ runner["boot"] = "idle" /\ runner["deactivation"] = "idle"
        /\ ~shuttingDown /\ ~running
    BY IdleType DEF Init
  <1>2. QED
    BY <1>1 DEF SoleInv

LEMMA SoleProcess == ASSUME TypeOK, SoleInv PROVE OneProcess
  <1>1. CASE procs = {}
    BY <1>1, FS_EmptySet DEF OneProcess
  <1>2. CASE procs # {}
    <2>1. PICK s \in procs : TRUE
      BY <1>2
    <2>2. procs = {s} /\ ~orphan
      BY <2>1 DEF TypeOK, SupTypeOK, SoleInv
    <2>3. Cardinality(procs) = 1
      BY <2>2, FS_Singleton
    <2>4. QED
      BY <2>2, <2>3 DEF OneProcess
  <1>3. QED
    BY <1>1, <1>2

\* Where no uninstall and no stop_all occurs, installs, reinstalls, updates,
\* restarts, crashes and failures never leave two processes of a tool alive:
\* the two events that clear running_tools are the only danger.
THEOREM OneProcessAlive ==
  ASSUME "uninstall" \notin Kinds, MaxStops = 0
  PROVE  Spec => []OneProcess
  <1>1. Init => TypeOK /\ SoleInv
    BY InitType, InitSole
  <1>2. TypeOK /\ SoleInv /\ [Next]_vars => TypeOK' /\ SoleInv'
    BY NextType, NextSole
  <1>3. TypeOK /\ SoleInv => OneProcess
    BY SoleProcess
  <1>4. QED
    BY <1>1, <1>2, <1>3, PTL DEF Spec

-----------------------------------------------------------------------------
(* What an operation achieved.  The promise of the last operation may be   *)
(* broken while another one is at work; that one then makes a promise of   *)
(* its own or takes the old one back.                                      *)

\* An update occurs only where the operations of the tool come one after another.
UpdatesAlone == "update" \in Kinds => \A o, p \in Ops : o = p

\* An operation that has begun to change the disk and is neither done nor failed.
Undecided(o) ==
  \/ /\ op[o].kind \in {"install", "reinstall"}
     /\ op[o].pc \in {"stop_old", "remove_dir", "leftovers", "download", "command"}
  \/ op[o].kind = "uninstall" /\ op[o].pc \in {"stop_old", "remove_dir", "delete"}
  \/ op[o].kind = "update" /\ op[o].pc \in {"mark", "stop_old", "apply", "save"}

Clean(o) == op[o].ok /\ ~op[o].worked /\ ~Undecided(o)

Holding(version) ==
  IF version = 0 THEN record = NoRecord /\ binary = Missing
  ELSE record = [state |-> "Installed", version |-> version] /\ binary = version

Achieves(o) == IF op[o].kind = "uninstall" THEN 0 ELSE op[o].version

WorkedPCs == {"run", "spawn", "unsupervise", "clear", "finalize", "end"}

\* An update that repairs settles the record last, after its save.
Unsettled(o) == op[o].kind = "update" /\ op[o].repair /\ op[o].pc # "end"

\* What an operation knows of the disk at its stage.
Local(o) ==
  /\ op[o].worked => op[o].pc \in WorkedPCs
  /\ ~op[o].ok => op[o].pc \in {"clear", "end"}
  /\ op[o].pc = "command" => binary = op[o].version
  /\ op[o].pc = "delete" => binary = Missing
  /\ op[o].worked /\ op[o].ok /\ ~Unsettled(o) => Holding(Achieves(o))

\* What an update knows: one that does not repair writes a settled record back, and one
\* that repairs found that no promise was left to break.
UpdateLocal(o) ==
  op[o].kind = "update" =>
    /\ op[o].pc = "save" => binary = op[o].version
    /\ op[o].pc \in {"mark", "stop_old", "apply", "save"} /\ ~op[o].repair
         => op[o].copy.state = "Installed"
    /\ op[o].pc \in {"clear", "finalize"} /\ op[o].ok => op[o].worked
    /\ op[o].worked /\ Unsettled(o) => record.version = op[o].version /\ binary = op[o].version
    /\ op[o].pc = "finalize" => op[o].repair
    /\ op[o].repair => ~promise.known

PromiseInv ==
  /\ \A o \in Ops : Local(o) /\ UpdateLocal(o)
  /\ (\A o \in Ops : Clean(o)) /\ promise.known => Holding(promise.version)

\* The disk changes only under the lock or by an update, and the operation that changed
\* it is not taken for one that left it alone, unless there is no promise.
Decides(o) ==
  /\ \A p \in Ops : p # o => op'[p] = op[p]
  /\ promise' = promise
  /\ UNCHANGED disk \/ Holds(o) \/ op[o].kind = "update"
  /\ Local(o)' /\ UpdateLocal(o)'
  /\ ~Clean(o)' \/ ~promise.known \/ (UNCHANGED disk /\ Clean(o))

\* Beside an update there is no other operation.
LEMMA AloneIs ==
  ASSUME TypeOK, UpdatesAlone, NEW o \in Ops, NEW p \in Ops, p # o
  PROVE  op[o].kind # "update" /\ op[p].kind # "update"
  <1>1. "update" \notin Kinds
    BY DEF UpdatesAlone
  <1>2. QED
    BY <1>1, KindOf DEF TypeOK

LEMMA DecidesKeeps ==
  ASSUME TypeOK, LockInv, PromiseInv, UpdatesAlone, NEW o \in Ops, Decides(o)
  PROVE  PromiseInv'
  <1>1. ASSUME NEW p \in Ops, p # o PROVE Local(p)' /\ UpdateLocal(p)'
    <2>1. op'[p] = op[p] /\ Local(p)
      BY <1>1 DEF Decides, PromiseInv
    <2>0. op[o].kind # "update" /\ op[p].kind # "update"
      BY <1>1, AloneIs
    <2>2. CASE UNCHANGED disk
      BY <2>0, <2>1, <2>2 DEF Local, Holding, Achieves, Unsettled, disk, UpdateLocal
    <2>3. CASE Holds(o)
      <3>1. ~Holds(p)
        BY <1>1, <2>3 DEF LockInv
      <3>2. op[p].pc \in {"lock", "try_lock"} \/ op[p].kind = "none"
        BY <2>0, <3>1, KindOf DEF Holds, TypeOK
      <3>3. op[p].pc \in {"lock", "try_lock", "idle"}
        BY <3>2, KindOf DEF TypeOK
      <3>4. QED
        BY <2>0, <2>1, <3>3 DEF Local, WorkedPCs, UpdateLocal
    <2>4. QED
      BY <2>0, <2>2, <2>3 DEF Decides
  <1>2. Local(o)' /\ UpdateLocal(o)'
    BY DEF Decides
  <1>3. ASSUME \A p \in Ops : Clean(p)', promise'.known
        PROVE  Holding(promise.version)'
    <2>1. UNCHANGED disk /\ Clean(o) /\ promise' = promise
      BY <1>3 DEF Decides
    <2>2. \A p \in Ops : p # o => Clean(p)
      BY <1>3 DEF Decides, Clean, Undecided
    <2>3. Holding(promise.version)
      BY <1>3, <2>1, <2>2 DEF PromiseInv
    <2>4. QED
      BY <2>1, <2>3 DEF Holding, disk
  <1>4. QED
    BY <1>1, <1>2, <1>3 DEF PromiseInv

\* An operation that has not begun to change the disk, or has finished with it.
LEMMA GotoDecides ==
  ASSUME TypeOK, NEW o \in Ops, Local(o), NEW pc, Goto(o, pc), op[o].kind # "update",
         UNCHANGED disk, promise' = promise,
         pc \notin {"idle", "command", "delete"},
         op[o].worked => pc \in WorkedPCs, ~op[o].ok => pc \in {"clear", "end"},
         ~Undecided(o)
  PROVE  Decides(o)
  <1>1. /\ op'[o].pc = pc /\ op'[o].kind = op[o].kind /\ op'[o].version = op[o].version
        /\ op'[o].ok = op[o].ok /\ op'[o].worked = op[o].worked
        /\ \A p \in Ops : p # o => op'[p] = op[p]
    BY GotoEffect, GotoFlags DEF TypeOK
  <1>2. Local(o)' /\ UpdateLocal(o)'
    BY <1>1 DEF Local, Holding, Achieves, Unsettled, disk, UpdateLocal
  <1>3. Clean(o)' => Clean(o)
    BY <1>1 DEF Clean
  <1>4. QED
    BY <1>1, <1>2, <1>3 DEF Decides

\* An operation on its way, that knows what the next stage relies on.
LEMMA WorkingDecides ==
  ASSUME TypeOK, NEW o \in Ops, Local(o), NEW pc, Goto(o, pc), Holds(o), promise' = promise,
         op[o].pc \notin WorkedPCs,
         \/ /\ op[o].kind \in {"install", "reinstall"}
            /\ pc \in {"stop_old", "remove_dir", "leftovers", "download", "command"}
         \/ op[o].kind = "uninstall" /\ pc \in {"stop_old", "remove_dir", "delete"},
         pc = "command" => binary' = op[o].version,
         pc = "delete" => binary' = Missing
  PROVE  Decides(o)
  <1>1. /\ op'[o].pc = pc /\ op'[o].kind = op[o].kind /\ op'[o].version = op[o].version
        /\ op'[o].ok = op[o].ok /\ op'[o].worked = op[o].worked
        /\ \A p \in Ops : p # o => op'[p] = op[p]
    BY GotoEffect, GotoFlags DEF TypeOK
  <1>2. op[o].ok /\ ~op[o].worked
    <2>1. op[o].ok \in BOOLEAN /\ op[o].worked \in BOOLEAN
      BY DEF TypeOK, OpTypeOK, OpRecords
    <2>2. QED
      BY <2>1 DEF Local, WorkedPCs
  <1>3. Undecided(o)'
    BY <1>1 DEF Undecided
  <1>4. Local(o)' /\ UpdateLocal(o)'
    BY <1>1, <1>2 DEF Local, UpdateLocal
  <1>5. QED
    BY <1>1, <1>3, <1>4 DEF Decides, Clean

LEMMA FailedDecides ==
  ASSUME TypeOK, NEW o \in Ops, Failed(o), UNCHANGED disk \/ Holds(o), promise' = promise,
         op[o].kind # "update"
  PROVE  Decides(o)
  <1>1. /\ op'[o].pc = "clear" /\ ~op'[o].ok /\ \A p \in Ops : p # o => op'[p] = op[p]
        /\ op'[o].kind = op[o].kind
    BY FailedEffect, FailedFlags DEF TypeOK
  <1>2. Local(o)' /\ UpdateLocal(o)'
    BY <1>1 DEF Local, WorkedPCs, UpdateLocal
  <1>3. QED
    BY <1>1, <1>2 DEF Decides, Clean

LEMMA WorkedDecides ==
  ASSUME TypeOK, NEW o \in Ops, NEW pc \in {"run", "unsupervise"}, Worked(o, pc), Local(o),
         op[o].pc \notin {"clear", "end"}, Holds(o), promise' = promise,
         op[o].kind # "update", op[o].kind = "uninstall" => Holding(0)',
         op[o].kind # "uninstall" =>
           /\ op[o].version # 0 /\ binary' = op[o].version
           /\ record' = [state |-> "Installed", version |-> op[o].version]
  PROVE  Decides(o)
  <1>1. /\ op'[o].pc = pc /\ op'[o].kind = op[o].kind /\ op'[o].version = op[o].version
        /\ op'[o].ok = op[o].ok /\ op'[o].worked
        /\ \A p \in Ops : p # o => op'[p] = op[p]
    BY WorkedEffect, WorkedFlags DEF TypeOK
  <1>2. op[o].ok
    BY DEF Local, TypeOK, OpTypeOK, OpRecords
  <1>3. Holding(Achieves(o))'
    BY <1>1 DEF Holding, Achieves
  <1>4. Local(o)' /\ UpdateLocal(o)'
    BY <1>1, <1>2, <1>3 DEF Local, WorkedPCs, UpdateLocal, Holds
  <1>5. QED
    BY <1>1, <1>4 DEF Decides, Clean

\* Where an operation that takes the lock stands, it holds it.
LEMMA PastLock ==
  ASSUME TypeOK, NEW o \in Ops, op[o].kind # "update",
         op[o].pc \notin {"idle", "lock", "try_lock"}
  PROVE  Holds(o) /\ op[o].version \in Versions /\ op[o].version # 0
  <1>1. op[o].kind \in {"install", "reinstall", "uninstall", "restart"}
    BY KindOf DEF TypeOK
  <1>2. op[o].version \in Versions
    BY <1>1 DEF TypeOK, OpTypeOK, OpShape
  <1>3. QED
    BY <1>1, <1>2, VersionsAssumption DEF Holds

LEMMA InstallDecides ==
  ASSUME TypeOK, NEW o \in Ops, Local(o),
         \/ Inspect(o) \/ StopBeforeReinstall(o) \/ RemoveDir(o) \/ StopLeftovers(o)
         \/ Download(o) \/ InstallCommand(o) \/ RunNewTool(o) \/ RunTool(o)
  PROVE  Decides(o)
  <1>0. /\ op[o].pc \in {"inspect", "leftovers", "download", "command"} =>
              op[o].kind \in {"install", "reinstall"}
        /\ op[o].pc \in {"run", "spawn"} => ~Undecided(o)
        /\ op[o].ok \in BOOLEAN /\ op[o].worked \in BOOLEAN
    BY KindOf DEF TypeOK, OpTypeOK, OpRecords, Undecided
  <1>h. op[o].pc \notin {"idle", "lock", "try_lock"}
    BY DEF Inspect, StopBeforeReinstall, RemoveDir, StopLeftovers, Download,
           InstallCommand, RunNewTool, RunTool
  <1>k. op[o].kind # "update"
    BY KindOf DEF Inspect, StopBeforeReinstall, RemoveDir, StopLeftovers, Download,
           InstallCommand, RunNewTool, RunTool, TypeOK
  <1>p. Holds(o) /\ op[o].version # 0 /\ op[o].kind # "update"
    BY <1>h, <1>k, PastLock
  <1>l. /\ op[o].pc \notin {"clear", "end"} => op[o].ok
        /\ op[o].pc \notin WorkedPCs => ~op[o].worked
    BY <1>0 DEF Local, WorkedPCs
  <1>1. CASE Inspect(o)
    <2>0. op[o].pc = "inspect" /\ ~Undecided(o) /\ promise' = promise /\ binary' = binary
      BY <1>0, <1>1 DEF Inspect, Undecided
    <2>1. CASE Goto(o, "clear") /\ record' = record
      BY <1>l, <2>0, <2>1, <1>p, GotoDecides DEF disk, WorkedPCs
    <2>2. CASE Goto(o, "leftovers")
      BY <1>0, <1>p, <2>0, <2>2, WorkingDecides DEF WorkedPCs
    <2>3. CASE Goto(o, "stop_old")
      BY <1>0, <1>p, <2>0, <2>3, WorkingDecides DEF WorkedPCs
    <2>4. CASE Failed(o)
      BY <1>p, <2>0, <2>4, FailedDecides
    <2>5. QED
      BY <1>1, <2>1, <2>2, <2>3, <2>4 DEF Inspect
  <1>2. CASE StopBeforeReinstall(o)
    <2>1. /\ op[o].pc = "stop_old" /\ op[o].kind = "reinstall" /\ Goto(o, "remove_dir")
          /\ promise' = promise
      BY <1>2 DEF StopBeforeReinstall
    <2>2. QED
      BY <1>p, <2>1, WorkingDecides DEF WorkedPCs
  <1>3. CASE RemoveDir(o)
    <2>1. /\ op[o].pc = "remove_dir" /\ op[o].kind = "reinstall" /\ promise' = promise
          /\ Goto(o, "leftovers") \/ Failed(o)
      BY <1>3 DEF RemoveDir
    <2>2. QED
      BY <1>p, <2>1, WorkingDecides, FailedDecides DEF WorkedPCs
  <1>4. CASE StopLeftovers(o)
    <2>1. op[o].pc = "leftovers" /\ promise' = promise /\ Goto(o, "download")
      BY <1>4 DEF StopLeftovers
    <2>2. QED
      BY <1>0, <1>p, <2>1, WorkingDecides DEF WorkedPCs
  <1>5. CASE Download(o)
    <2>1. /\ op[o].pc = "download" /\ promise' = promise
          /\ (Goto(o, "command") /\ binary' = op[o].version) \/ Failed(o)
      BY <1>5 DEF Download
    <2>2. QED
      BY <1>0, <1>p, <2>1, WorkingDecides, FailedDecides DEF WorkedPCs
  <1>6. CASE InstallCommand(o)
    <2>1. /\ op[o].pc = "command" /\ promise' = promise /\ binary' = binary
          /\ \/ Failed(o)
             \/ /\ Worked(o, "run")
                /\ record' = [state |-> "Installed", version |-> op[o].version]
      BY <1>6 DEF InstallCommand
    <2>2. binary = op[o].version /\ op[o].kind # "uninstall"
      BY <1>0, <2>1 DEF Local
    <2>3. QED
      BY <1>p, <2>1, <2>2, WorkedDecides, FailedDecides
  <1>7. CASE RunNewTool(o)
    <2>1. /\ op[o].pc = "run" /\ promise' = promise /\ UNCHANGED disk
          /\ Goto(o, "clear") \/ Goto(o, "spawn")
      BY <1>7 DEF RunNewTool
    <2>2. QED
      BY <1>0, <1>l, <2>1, <1>p, GotoDecides DEF WorkedPCs
  <1>8. CASE RunTool(o)
    <2>1. /\ op[o].pc = "spawn" /\ promise' = promise /\ UNCHANGED disk
          /\ Goto(o, "clear") \/ Failed(o)
      BY <1>8 DEF RunTool
    <2>2. QED
      BY <1>0, <1>l, <2>1, <1>p, GotoDecides, FailedDecides DEF WorkedPCs
  <1>9. QED
    BY <1>1, <1>2, <1>3, <1>4, <1>5, <1>6, <1>7, <1>8

LEMMA UninstallDecides ==
  ASSUME TypeOK, NEW o \in Ops, Local(o),
         \/ UninstallFind(o) \/ UninstallStop(o) \/ UninstallRemoveDir(o)
         \/ UninstallDelete(o) \/ Unsupervise(o)
  PROVE  Decides(o)
  <1>0. /\ op[o].pc \in {"find", "delete", "unsupervise"} => op[o].kind = "uninstall"
        /\ op[o].pc \in {"find", "unsupervise"} => ~Undecided(o)
        /\ op[o].ok \in BOOLEAN /\ op[o].worked \in BOOLEAN
    BY KindOf DEF TypeOK, OpTypeOK, OpRecords, Undecided
  <1>h. op[o].pc \notin {"idle", "lock", "try_lock"}
    BY DEF UninstallFind, UninstallStop, UninstallRemoveDir, UninstallDelete, Unsupervise
  <1>k. op[o].kind # "update"
    BY KindOf DEF UninstallFind, UninstallStop, UninstallRemoveDir, UninstallDelete,
           Unsupervise, TypeOK
  <1>p. Holds(o) /\ op[o].kind # "update"
    BY <1>h, <1>k, PastLock
  <1>l. /\ op[o].pc \notin {"clear", "end"} => op[o].ok
        /\ op[o].pc \notin WorkedPCs => ~op[o].worked
    BY <1>0 DEF Local, WorkedPCs
  <1>1. CASE UninstallFind(o)
    <2>1. /\ op[o].pc = "find" /\ promise' = promise /\ UNCHANGED disk
          /\ Goto(o, "unsupervise") \/ Goto(o, "stop_old") \/ Failed(o)
      BY <1>1 DEF UninstallFind
    <2>2. CASE Goto(o, "unsupervise")
      BY <1>0, <1>l, <2>1, <2>2, <1>p, GotoDecides DEF WorkedPCs
    <2>3. CASE Goto(o, "stop_old")
      BY <1>0, <1>p, <2>1, <2>3, WorkingDecides DEF WorkedPCs
    <2>4. CASE Failed(o)
      BY <1>p, <2>1, <2>4, FailedDecides
    <2>5. QED
      BY <2>1, <2>2, <2>3, <2>4
  <1>2. CASE UninstallStop(o)
    <2>1. /\ op[o].pc = "stop_old" /\ op[o].kind = "uninstall" /\ promise' = promise
          /\ Goto(o, "remove_dir") \/ Failed(o)
      BY <1>2 DEF UninstallStop
    <2>2. QED
      BY <1>p, <2>1, WorkingDecides, FailedDecides DEF WorkedPCs
  <1>3. CASE UninstallRemoveDir(o)
    <2>1. /\ op[o].pc = "remove_dir" /\ op[o].kind = "uninstall" /\ promise' = promise
          /\ (Goto(o, "delete") /\ binary' = Missing) \/ Failed(o)
      BY <1>3 DEF UninstallRemoveDir
    <2>2. QED
      BY <1>p, <2>1, WorkingDecides, FailedDecides DEF WorkedPCs
  <1>4. CASE UninstallDelete(o)
    <2>1. /\ op[o].pc = "delete" /\ promise' = promise /\ binary' = binary
          /\ (Worked(o, "unsupervise") /\ record' = NoRecord) \/ Failed(o)
      BY <1>4 DEF UninstallDelete
    <2>2. binary = Missing /\ op[o].kind = "uninstall"
      BY <1>0, <2>1 DEF Local
    <2>3. Worked(o, "unsupervise") => Holding(0)' \/ Failed(o)
      BY <2>1, <2>2 DEF Holding
    <2>4. QED
      BY <1>p, <2>1, <2>2, <2>3, WorkedDecides, FailedDecides
  <1>5. CASE Unsupervise(o)
    <2>1. op[o].pc = "unsupervise" /\ promise' = promise /\ UNCHANGED disk /\ Goto(o, "clear")
      BY <1>5 DEF Unsupervise
    <2>2. QED
      BY <1>0, <1>l, <2>1, <1>p, GotoDecides DEF WorkedPCs
  <1>6. QED
    BY <1>1, <1>2, <1>3, <1>4, <1>5

\* The stages that all kinds, or a restart, go through.
LEMMA OthersDecide ==
  ASSUME TypeOK, NEW o \in Ops, Local(o), op[o].kind # "update",
         \/ Lock(o) \/ TryLock(o) \/ MarkUpdating(o) \/ ClearUpdating(o)
         \/ RestartLookup(o) \/ RestartStop(o) \/ RestartTimeout(o)
  PROVE  Decides(o)
  <1>0. /\ op[o].kind \in {"install", "reinstall", "uninstall", "restart", "none"}
        /\ op[o].ok \in BOOLEAN /\ op[o].worked \in BOOLEAN
        /\ op[o].pc = "lookup" => op[o].kind = "restart"
        /\ op[o].pc = "idle" <=> op[o].kind = "none"
    BY KindOf DEF TypeOK, OpTypeOK, OpRecords
  <1>l. /\ op[o].pc \notin {"clear", "end"} => op[o].ok
        /\ op[o].pc \notin WorkedPCs => ~op[o].worked
        /\ op[o].kind = "restart" \/ op[o].pc \in {"lock", "try_lock", "mark", "clear"}
             => ~Undecided(o)
    BY <1>0 DEF Local, WorkedPCs, Undecided
  <1>1. CASE Lock(o) \/ (TryLock(o) /\ Goto(o, "mark"))
    <2>1. /\ op[o].pc \in {"lock", "try_lock"} /\ promise' = promise /\ UNCHANGED disk
          /\ Goto(o, "mark")
      BY <1>1 DEF Lock, TryLock
    <2>2. QED
      BY <1>l, <2>1, GotoDecides DEF WorkedPCs
  <1>2. CASE TryLock(o) /\ op' = [op EXCEPT ![o] = IdleOp]
    <2>1. op[o].pc = "try_lock" /\ promise' = promise /\ UNCHANGED disk
      BY <1>2 DEF TryLock
    <2>2. op'[o] = IdleOp /\ \A p \in Ops : p # o => op'[p] = op[p]
      BY <1>2, ToIdleEffect DEF TypeOK
    <2>3. Local(o)' /\ UpdateLocal(o)'
      BY <2>2 DEF Local, UpdateLocal, IdleOp
    <2>4. Clean(o)
      BY <1>l, <2>1 DEF Clean, WorkedPCs
    <2>5. QED
      BY <2>1, <2>2, <2>3, <2>4 DEF Decides
  <1>3. CASE MarkUpdating(o)
    <2>1. op[o].pc = "mark" /\ promise' = promise /\ UNCHANGED disk
      BY <1>3 DEF MarkUpdating
    <2>2. \E pc \in {"inspect", "find", "lookup"} : Goto(o, pc)
      BY <1>0, <1>3, <2>1 DEF MarkUpdating
    <2>3. QED
      BY <1>l, <2>1, <2>2, GotoDecides DEF WorkedPCs
  <1>4. CASE ClearUpdating(o)
    <2>1. op[o].pc = "clear" /\ promise' = promise /\ UNCHANGED disk /\ Goto(o, "end")
      BY <1>0, <1>4 DEF ClearUpdating
    <2>2. QED
      BY <1>l, <2>1, GotoDecides DEF WorkedPCs
  <1>5. CASE RestartLookup(o)
    <2>1. /\ op[o].pc = "lookup" /\ promise' = promise /\ UNCHANGED disk
          /\ Goto(o, "clear") \/ Goto(o, "stop_old") \/ Failed(o)
      BY <1>5 DEF RestartLookup
    <2>2. QED
      BY <1>0, <1>l, <2>1, GotoDecides, FailedDecides DEF WorkedPCs
  <1>6. CASE RestartStop(o)
    <2>1. /\ op[o].pc = "stop_old" /\ op[o].kind = "restart" /\ promise' = promise
          /\ UNCHANGED disk
          /\ Goto(o, "run") \/ Failed(o)
      BY <1>6 DEF RestartStop
    <2>2. QED
      BY <1>l, <2>1, GotoDecides, FailedDecides DEF WorkedPCs
  <1>7. CASE RestartTimeout(o)
    BY <1>7, FailedDecides DEF RestartTimeout
  <1>8. QED
    BY <1>1, <1>2, <1>3, <1>4, <1>5, <1>6, <1>7 DEF TryLock

-----------------------------------------------------------------------------
(* An update, alone with the tool. *)

UpdateStep(o) ==
  UpdateRead(o) \/ UpdateStop(o) \/ UpdateApply(o) \/ UpdateSave(o) \/ UpdateFinalize(o)

\* All flags of an operation that only goes on.
LEMMA GotoAll ==
  ASSUME OpTypeOK, NEW o \in Ops, NEW pc, Goto(o, pc)
  PROVE  op'[o].repair = op[o].repair /\ op'[o].copy = op[o].copy
  BY DEF Goto, OpTypeOK, OpRecords

\* A record that needs no repair is settled; one that does breaks no promise.
LEMMA RepairIsFree ==
  ASSUME TypeOK, UpdatesAlone, PromiseInv, NEW o \in Ops, op[o].kind = "update", Clean(o),
         record # NoRecord, record.state = "Installing" \/ binary = Missing
  PROVE  ~promise.known
  <1>1. \A p \in Ops : Clean(p)
    BY AloneIs
  <1>2. promise.known => Holding(promise.version)
    BY <1>1 DEF PromiseInv
  <1>3. QED
    BY <1>2 DEF Holding, Missing

LEMMA UpdateDecides ==
  ASSUME TypeOK, UpdatesAlone, PromiseInv, NEW o \in Ops, op[o].kind = "update",
         OpStep(o) \/ RestartTimeout(o), ~End(o)
  PROVE  Decides(o)
  <1>0. /\ op[o].ok \in BOOLEAN /\ op[o].worked \in BOOLEAN /\ op[o].repair \in BOOLEAN
        /\ op[o].version \in Versions /\ op[o].version # 0 /\ op[o].copy \in Records
        /\ op[o].pc \in {"read", "mark", "stop_old", "apply", "save", "clear", "finalize", "end"}
        /\ op[o].pc \notin {"read", "end"} => op[o].copy # NoRecord
    <2>1. op[o] \in OpRecords /\ OpShape(op[o])
      BY DEF TypeOK, OpTypeOK
    <2>2. QED
      BY <2>1, StagesOf, VersionsAssumption DEF OpRecords, OpShape
  <1>l. Local(o) /\ UpdateLocal(o)
    BY DEF PromiseInv
  <1>f. /\ op[o].pc \notin {"clear", "end"} => op[o].ok
        /\ op[o].pc \notin WorkedPCs => ~op[o].worked
    BY <1>0, <1>l DEF Local
  <1>t. record \in Records /\ OpTypeOK
    BY DEF TypeOK, DiskTypeOK
  <1> USE <1>0, <1>l, <1>f, <1>t
  <1>1. CASE UpdateRead(o)
    <2>0. op[o].pc = "read" /\ op[o].ok /\ ~op[o].worked /\ Clean(o) /\ promise' = promise
          /\ binary' = binary
      BY <1>1 DEF UpdateRead, WorkedPCs, Clean, Undecided
    <2> DEFINE repair == record.state = "Installing" \/ binary = Missing
    <2>1. CASE Goto(o, "end") /\ UNCHANGED record
      <3>1. /\ op'[o].pc = "end" /\ op'[o].kind = "update" /\ op'[o].ok /\ ~op'[o].worked
            /\ op'[o].repair = op[o].repair
            /\ \A p \in Ops : p # o => op'[p] = op[p]
        BY <2>0, <2>1, GotoEffect, GotoFlags, GotoAll
      <3>2. QED
        BY <2>0, <2>1, <3>1 DEF Decides, Local, UpdateLocal, WorkedPCs, Unsettled, disk
    <2>2. CASE /\ record # NoRecord
               /\ op' = [op EXCEPT ![o].pc = "mark", ![o].repair = repair,
                    ![o].copy = IF repair THEN [record EXCEPT !.state = "Installing"]
                                ELSE record]
      <3>1. /\ op'[o].pc = "mark" /\ op'[o].kind = "update" /\ op'[o].ok /\ ~op'[o].worked
            /\ op'[o].repair = repair /\ (~repair => op'[o].copy = record)
            /\ \A p \in Ops : p # o => op'[p] = op[p]
        BY <2>0, <2>2 DEF OpTypeOK, OpRecords
      <3>2. ~repair => record.state = "Installed"
        BY <2>2 DEF Records
      <3>3. repair => ~promise.known
        BY <2>0, <2>2, RepairIsFree
      <3>4. ~Clean(o)'
        BY <3>1 DEF Clean, Undecided
      <3>5. Local(o)' /\ UpdateLocal(o)'
        BY <2>0, <3>1, <3>2, <3>3 DEF Local, UpdateLocal, WorkedPCs
      <3>6. QED
        BY <2>0, <3>1, <3>4, <3>5 DEF Decides
    <2>3. CASE /\ op' = [op EXCEPT ![o].pc = "end", ![o].ok = FALSE]
               /\ UNCHANGED record
      <3>1. /\ op'[o].pc = "end" /\ op'[o].kind = "update" /\ ~op'[o].ok /\ ~op'[o].worked
            /\ op'[o].repair = op[o].repair
            /\ \A p \in Ops : p # o => op'[p] = op[p]
        BY <2>0, <2>3 DEF OpTypeOK, OpRecords
      <3>2. QED
        BY <2>0, <2>3, <3>1 DEF Decides, Local, UpdateLocal, WorkedPCs, Unsettled, disk, Clean
    <2>4. QED
      BY <1>1, <2>1, <2>2, <2>3 DEF UpdateRead
  <1>2. CASE MarkUpdating(o)
    <2>1. /\ op[o].pc = "mark" /\ Goto(o, "stop_old") /\ promise' = promise
          /\ UNCHANGED disk
      BY <1>2 DEF MarkUpdating
    <2>2. /\ op'[o].pc = "stop_old" /\ op'[o].kind = "update" /\ op'[o].ok /\ ~op'[o].worked
          /\ op'[o].repair = op[o].repair /\ op'[o].copy = op[o].copy
          /\ \A p \in Ops : p # o => op'[p] = op[p]
      BY <2>1, GotoEffect, GotoFlags, GotoAll DEF WorkedPCs
    <2>3. QED
      BY <2>1, <2>2 DEF Decides, Local, UpdateLocal, WorkedPCs, Clean, Undecided
  <1>3. CASE Failed(o) /\ op[o].pc \in {"stop_old", "apply", "save"} /\ promise' = promise
    <2>1. /\ op'[o].pc = "clear" /\ op'[o].kind = "update" /\ ~op'[o].ok /\ ~op'[o].worked
          /\ op'[o].repair = op[o].repair
          /\ \A p \in Ops : p # o => op'[p] = op[p]
      BY <1>3 DEF Failed, OpTypeOK, OpRecords, WorkedPCs
    <2>2. QED
      BY <1>3, <2>1 DEF Decides, Local, UpdateLocal, WorkedPCs, Clean
  <1>4. CASE UpdateStop(o)
    <2>1. op[o].pc = "stop_old" /\ promise' = promise
      BY <1>4 DEF UpdateStop
    <2>2. CASE op' = [op EXCEPT ![o].pc = "apply", ![o].backup = binary]
      <3>1. /\ op'[o].pc = "apply" /\ op'[o].kind = "update" /\ op'[o].ok /\ ~op'[o].worked
            /\ op'[o].repair = op[o].repair /\ op'[o].copy = op[o].copy
            /\ \A p \in Ops : p # o => op'[p] = op[p]
        BY <2>1, <2>2 DEF OpTypeOK, OpRecords, WorkedPCs
      <3>2. QED
        BY <2>1, <3>1 DEF Decides, Local, UpdateLocal, WorkedPCs, Clean, Undecided
    <2>3. QED
      BY <1>3, <1>4, <2>1, <2>2 DEF UpdateStop
  <1>5. CASE UpdateApply(o)
    <2>1. op[o].pc = "apply" /\ promise' = promise
      BY <1>5 DEF UpdateApply
    <2>2. CASE Goto(o, "save") /\ binary' = op[o].version
      <3>1. /\ op'[o].pc = "save" /\ op'[o].kind = "update" /\ op'[o].ok /\ ~op'[o].worked
            /\ op'[o].repair = op[o].repair /\ op'[o].copy = op[o].copy
            /\ op'[o].version = op[o].version
            /\ \A p \in Ops : p # o => op'[p] = op[p]
        BY <2>1, <2>2, GotoEffect, GotoFlags, GotoAll DEF WorkedPCs
      <3>2. QED
        BY <2>1, <2>2, <3>1 DEF Decides, Local, UpdateLocal, WorkedPCs, Clean, Undecided
    <2>3. QED
      BY <1>3, <1>5, <2>1, <2>2 DEF UpdateApply
  <1>6. CASE UpdateSave(o)
    <2>1. op[o].pc = "save" /\ promise' = promise /\ binary' = binary
      BY <1>6 DEF UpdateSave
    <2>2. CASE Worked(o, "clear") /\ record' = [op[o].copy EXCEPT !.version = op[o].version]
      <3>1. /\ op'[o].pc = "clear" /\ op'[o].kind = "update" /\ op'[o].ok /\ op'[o].worked
            /\ op'[o].repair = op[o].repair /\ op'[o].version = op[o].version
            /\ \A p \in Ops : p # o => op'[p] = op[p]
        BY <2>1, <2>2 DEF Worked, OpTypeOK, OpRecords, WorkedPCs
      <3>2. op[o].copy \in [state : {"Installed", "Installing"}, version : Versions]
        BY <2>1 DEF Records
      <3>3. /\ record'.version = op[o].version /\ binary' = op[o].version
            /\ ~op[o].repair => record' = [state |-> "Installed", version |-> op[o].version]
        BY <2>1, <2>2, <3>2 DEF UpdateLocal
      <3>4. Local(o)'
        BY <3>1, <3>3 DEF Local, WorkedPCs, Unsettled, Holding, Achieves
      <3>5. UpdateLocal(o)'
        BY <2>1, <3>1, <3>3 DEF UpdateLocal
      <3>6. QED
        BY <2>1, <3>1, <3>4, <3>5 DEF Decides, Clean
    <2>3. QED
      BY <1>3, <1>6, <2>1, <2>2 DEF UpdateSave
  <1>7. CASE ClearUpdating(o)
    <2>1. op[o].pc = "clear" /\ promise' = promise /\ UNCHANGED disk
      BY <1>7 DEF ClearUpdating
    <2>2. CASE Goto(o, "finalize") /\ op[o].ok /\ op[o].repair
      <3>1. /\ op'[o].pc = "finalize" /\ op'[o].kind = "update" /\ op'[o].ok /\ op'[o].worked
            /\ op'[o].repair = op[o].repair /\ op'[o].version = op[o].version
            /\ \A p \in Ops : p # o => op'[p] = op[p]
        BY <2>1, <2>2, GotoEffect, GotoFlags, GotoAll DEF UpdateLocal
      <3>2. QED
        BY <2>1, <2>2, <3>1
        DEF Decides, Local, UpdateLocal, WorkedPCs, Unsettled, Clean, disk
    <2>3. CASE Goto(o, "end") /\ ~(op[o].ok /\ op[o].repair)
      <3>1. /\ op'[o].pc = "end" /\ op'[o].kind = "update" /\ op'[o].ok = op[o].ok
            /\ op'[o].worked = op[o].worked
            /\ op'[o].repair = op[o].repair /\ op'[o].version = op[o].version
            /\ \A p \in Ops : p # o => op'[p] = op[p]
        BY <2>1, <2>3, GotoEffect, GotoFlags, GotoAll
      <3>2. Local(o)'
        BY <2>1, <2>3, <3>1 DEF Local, WorkedPCs, Unsettled, Holding, Achieves, disk
      <3>3. UpdateLocal(o)'
        BY <2>1, <3>1 DEF UpdateLocal, Unsettled
      <3>4. Clean(o)' => Clean(o)
        BY <2>1, <3>1 DEF Clean, Undecided
      <3>5. QED
        BY <2>1, <3>1, <3>2, <3>3, <3>4 DEF Decides
    <2>4. QED
      BY <1>7, <2>1, <2>2, <2>3 DEF ClearUpdating
  <1>8. CASE UpdateFinalize(o)
    <2>1. op[o].pc = "finalize" /\ promise' = promise /\ binary' = binary
      BY <1>8 DEF UpdateFinalize
    <2>2. /\ op[o].worked /\ op[o].ok /\ op[o].repair /\ ~promise.known
          /\ record.version = op[o].version /\ binary = op[o].version
      BY <2>1 DEF UpdateLocal, Unsettled
    <2>3. CASE Goto(o, "end") /\ SetState("Installed")
      <3>1. /\ op'[o].pc = "end" /\ op'[o].kind = "update" /\ op'[o].ok /\ op'[o].worked
            /\ op'[o].repair /\ op'[o].version = op[o].version
            /\ \A p \in Ops : p # o => op'[p] = op[p]
        BY <2>2, <2>3, GotoEffect, GotoFlags, GotoAll
      <3>2. record' = [state |-> "Installed", version |-> op[o].version]
        BY <2>2, <2>3 DEF SetState, NoRecord, Records
      <3>3. QED
        BY <2>1, <2>2, <3>1, <3>2
        DEF Decides, Local, UpdateLocal, WorkedPCs, Unsettled, Holding, Achieves
    <2>4. CASE op' = [op EXCEPT ![o].pc = "end", ![o].worked = FALSE]
      <3>1. /\ op'[o].pc = "end" /\ op'[o].kind = "update" /\ op'[o].ok /\ ~op'[o].worked
            /\ \A p \in Ops : p # o => op'[p] = op[p]
        BY <2>2, <2>4 DEF OpTypeOK, OpRecords
      <3>2. QED
        BY <2>1, <2>2, <3>1 DEF Decides, Local, UpdateLocal, WorkedPCs
    <2>5. QED
      BY <1>8, <2>3, <2>4 DEF UpdateFinalize
  <1>9. /\ UpdateRead(o) \/ MarkUpdating(o) \/ UpdateStop(o) \/ UpdateApply(o)
           \/ UpdateSave(o) \/ ClearUpdating(o) \/ UpdateFinalize(o)
    BY DEF OpStep, Lock, TryLock, Inspect, StopBeforeReinstall, RemoveDir, StopLeftovers,
       Download, InstallCommand, RunNewTool, RunTool, UninstallFind, UninstallStop,
       UninstallRemoveDir, UninstallDelete, Unsupervise, RestartLookup, RestartStop,
       RestartTimeout
  <1>10. QED
    BY <1>1, <1>2, <1>4, <1>5, <1>6, <1>7, <1>8, <1>9

\* The acknowledgement promises what the operation has done, or takes the promise back.
LEMMA EndPromise ==
  ASSUME TypeOK, UpdatesAlone, PromiseInv, NEW o \in Ops, End(o)
  PROVE  PromiseInv'
  <1>1. /\ op'[o] = IdleOp /\ (\A p \in Ops : p # o => op'[p] = op[p]) /\ UNCHANGED disk
        /\ op[o].pc = "end"
    BY ToIdleEffect DEF End, TypeOK
  <1>2. ASSUME NEW p \in Ops PROVE Local(p)' /\ UpdateLocal(p)'
    <2>1. CASE p = o
      BY <1>1, <2>1 DEF Local, UpdateLocal, IdleOp
    <2>2. CASE p # o
      BY <1>1, <2>2, AloneIs
      DEF PromiseInv, Local, Holding, Achieves, Unsettled, UpdateLocal, disk
    <2>3. QED
      BY <2>1, <2>2
  <1>3. ASSUME \A p \in Ops : Clean(p)', promise'.known PROVE Holding(promise.version)'
    <2>0. op[o].ok \in BOOLEAN /\ op[o].worked \in BOOLEAN
      BY DEF TypeOK, OpTypeOK, OpRecords
    <2>1. op[o].ok
      BY <1>3, <2>0 DEF End, NoPromise
    <2>2. CASE op[o].worked
      <3>1. promise' = [known |-> TRUE, version |-> Achieves(o)]
        BY <2>1, <2>2 DEF End, Achieves
      <3>2. promise'.version = Achieves(o)
        BY <3>1
      <3>3. Holding(Achieves(o))
        BY <1>1, <2>1, <2>2 DEF PromiseInv, Local, Unsettled
      <3>4. QED
        BY <1>1, <3>2, <3>3 DEF Holding, disk
    <2>3. CASE ~op[o].worked
      <3>1. promise' = promise
        BY <2>1, <2>3 DEF End
      <3>2. \A p \in Ops : p # o => Clean(p)
        BY <1>1, <1>3 DEF Clean, Undecided
      <3>3. Clean(o)
        BY <1>1, <2>1, <2>3 DEF Clean, Undecided
      <3>4. Holding(promise.version)
        BY <1>3, <3>1, <3>2, <3>3 DEF PromiseInv
      <3>5. QED
        BY <1>1, <3>1, <3>4 DEF Holding, disk
    <2>4. QED
      BY <2>0, <2>2, <2>3
  <1>4. QED
    BY <1>2, <1>3 DEF PromiseInv

LEMMA PromiseStays ==
  ASSUME PromiseInv, UNCHANGED <<op, promise>>,
         \A v \in {promise.version} \cup {Achieves(o) : o \in Ops} : Holding(v) => Holding(v)',
         binary' = binary, record'.version = record.version
  PROVE  PromiseInv'
  BY DEF PromiseInv, Local, UpdateLocal, Clean, Undecided, Unsettled, Achieves

\* Nothing outside the operations breaks a promise: supervisors do not touch the disk,
\* and run() only settles a record whose binary is there.
LEMMA NextPromise ==
  ASSUME TypeOK, LockInv, PromiseInv, UpdatesAlone, [Next]_vars
  PROVE  PromiseInv'
  <1>s. CASE UNCHANGED <<op, promise, disk>>
    BY <1>s, PromiseStays DEF Holding, disk
  <1>e. ASSUME AgentExit, UNCHANGED disk PROVE PromiseInv'
    <2>1. \A o \in Ops : op'[o] = IdleOp
      BY <1>e DEF AgentExit
    <2>2. \A o \in Ops : Local(o)' /\ UpdateLocal(o)'
      BY <2>1 DEF Local, UpdateLocal, IdleOp
    <2>3. ASSUME promise'.known PROVE Holding(promise.version)'
      <3>1. promise' = promise /\ \A o \in Ops : op[o].pc = "idle"
        BY <1>e, <2>3 DEF AgentExit, NoPromise
      <3>2. ASSUME NEW o \in Ops PROVE Clean(o)
        <4>1. op[o].ok \in BOOLEAN /\ op[o].worked \in BOOLEAN /\ Local(o)
          BY DEF TypeOK, OpTypeOK, OpRecords, PromiseInv
        <4>2. QED
          BY <3>1, <4>1 DEF Local, WorkedPCs, Clean, Undecided
      <3>3. Holding(promise.version)
        BY <2>3, <3>1, <3>2 DEF PromiseInv
      <3>4. QED
        BY <1>e, <3>1, <3>3 DEF Holding, disk
    <2>4. QED
      BY <2>2, <2>3 DEF PromiseInv
  <1>1. ASSUME NEW o \in Ops, OpStep(o) \/ RestartTimeout(o) PROVE PromiseInv'
    <2>1. CASE End(o)
      BY <2>1, EndPromise
    <2>2. CASE ~End(o)
      <3>1. Local(o)
        BY DEF PromiseInv
      <3>2. CASE op[o].kind = "update"
        <4>1. Decides(o)
          BY <1>1, <2>2, <3>2, UpdateDecides
        <4>2. QED
          BY <4>1, DecidesKeeps
      <3>3. CASE op[o].kind # "update"
        <4>1. ~UpdateStep(o)
          BY <3>3, KindOf DEF TypeOK, UpdateStep, UpdateRead, UpdateStop, UpdateApply,
             UpdateSave, UpdateFinalize
        <4>2. Decides(o)
          BY <1>1, <2>2, <3>1, <3>3, <4>1, InstallDecides, UninstallDecides, OthersDecide
          DEF OpStep, UpdateStep
        <4>3. QED
          BY <4>2, DecidesKeeps
      <3>4. QED
        BY <3>2, <3>3
    <2>3. QED
      BY <2>1, <2>2
  <1>2. ASSUME NEW o \in Ops, NEW kind \in Kinds, NEW v \in Versions, Begin(o, kind, v)
        PROVE  PromiseInv'
    <2>1. /\ op'[o].pc \in {"lock", "try_lock", "read"}
          /\ op'[o].ok /\ ~op'[o].worked /\ ~op'[o].repair
      <3>1. kind \in {"install", "reinstall", "update", "uninstall", "restart"}
        BY KindsAssumption, <1>2
      <3>2. QED
        BY <1>2, <3>1 DEF Begin, IdleOp, TypeOK, OpTypeOK
    <2>2. /\ \A p \in Ops : p # o => op'[p] = op[p]
          /\ promise' = promise /\ UNCHANGED disk /\ op[o].pc = "idle"
      BY <1>2 DEF Begin, TypeOK, OpTypeOK
    <2>3. Local(o)' /\ UpdateLocal(o)'
      BY <2>1 DEF Local, UpdateLocal, Unsettled
    <2>4. Clean(o)
      <3>1. op[o].ok \in BOOLEAN /\ op[o].worked \in BOOLEAN /\ Local(o)
        BY DEF TypeOK, OpTypeOK, OpRecords, PromiseInv
      <3>2. QED
        BY <2>2, <3>1 DEF Local, WorkedPCs, Clean, Undecided
    <2>5. QED
      BY <2>2, <2>3, <2>4, DecidesKeeps DEF Decides
  <1>3. ASSUME NEW r \in {"boot", "deactivation"}, RunSettle(r) PROVE PromiseInv'
    <2>1. record' = record \/ SetState("Installed")
      BY <1>3 DEF RunSettle
    <2>2. ASSUME NEW v, Holding(v) PROVE Holding(v)'
      <3>1. record' = record
        BY <2>1, <2>2 DEF Holding, SetState, NoRecord
      <3>2. QED
        BY <1>3, <2>2, <3>1 DEF Holding, RunSettle
    <2>3. UNCHANGED <<op, promise>> /\ binary' = binary /\ record'.version = record.version
      <3>1. record \in Records
        BY DEF TypeOK, DiskTypeOK
      <3>2. SetState("Installed") => record'.version = record.version
        BY <3>1 DEF SetState, Records, NoRecord
      <3>3. QED
        BY <1>3, <2>1, <3>2 DEF RunSettle
    <2>4. QED
      BY <2>2, <2>3, PromiseStays
  <1>4. CASE \E r \in {"boot", "deactivation"} :
              RunnerStep(r) \/ RunReadFails(r) \/ RunSpawnFails(r)
    BY <1>s, <1>e, <1>3, <1>4 DEF RunnerStep, RunRead, RunRecheck, RunMark, RunSpawn,
       RunReadFails, RunSpawnFails
  <1>5. CASE \E s \in Sups : SupStep(s) \/ SupArgsFail(s)
    BY <1>s, <1>5 DEF SupStep, SupTop, SupWait, SupCheck, SupArgsFail, SupLaunch,
       SupSpawn, SupReap, SupWake
  <1>6. CASE StopAll \/ RestartAll \/ DeactivationStep \/ Boot \/ ProcessExit
    BY <1>s, <1>6 DEF StopAll, RestartAll, DeactivationStep, StopAllClear,
       StopAllKill, RestartAllClear, Boot, ProcessExit
  <1>7. CASE Crash
    BY <1>e, <1>7 DEF Crash
  <1>8. CASE UNCHANGED vars
    BY <1>s, <1>8 DEF vars
  <1>9. QED
    BY <1>1, <1>2, <1>4, <1>5, <1>6, <1>7, <1>8 DEF Next

\* What the last acknowledged operation achieved is still so whenever the agent is quiet:
\* operations overlap, fail and time out, the agent exits, tools are stopped and started
\* again, and run() settles records; none of it spoils what another operation has done.
\* An update, which takes no lock, keeps the promise where it overlaps no operation.
THEOREM PromisesKept ==
  ASSUME UpdatesAlone
  PROVE  Spec => []KeepsPromise
  <1>1. Init => TypeOK /\ LockInv /\ PromiseInv
    <2> SUFFICES ASSUME Init PROVE PromiseInv
      BY InitType, InitLock
    <2>1. (\A o \in Ops : op[o] = IdleOp) /\ promise = NoPromise
      BY DEF Init
    <2>2. QED
      BY <2>1 DEF PromiseInv, Local, UpdateLocal, IdleOp, NoPromise
  <1>2. TypeOK /\ LockInv /\ PromiseInv /\ [Next]_vars => (TypeOK /\ LockInv /\ PromiseInv)'
    BY NextType, NextLock, NextPromise
  <1>3. TypeOK /\ PromiseInv => KeepsPromise
    <2> SUFFICES ASSUME TypeOK, PromiseInv, \A o \in Ops : op[o].pc = "idle", promise.known
                 PROVE  Holding(promise.version)
      BY DEF KeepsPromise, Holding
    <2>1. ASSUME NEW o \in Ops PROVE Clean(o)
      <3>1. op[o].ok \in BOOLEAN /\ op[o].worked \in BOOLEAN /\ Local(o)
        BY DEF TypeOK, OpTypeOK, OpRecords, PromiseInv
      <3>2. QED
        BY <3>1 DEF Local, WorkedPCs, Clean, Undecided
    <2>2. QED
      BY <2>1 DEF PromiseInv
  <1>4. QED
    BY <1>1, <1>2, <1>3, PTL DEF Spec
=============================================================================
