------------------------- MODULE MeshSelfHealProofs -------------------------
(***************************************************************************)
(* Theorems about the connection loop of a tool (module ToolConnections)   *)
(* and about the mesh watcher beside it, under the operations on the tool  *)
(* and crashes of the agent, for every number of them, every length of the *)
(* log between two polls and all durations of the watcher.                 *)
(***************************************************************************)
EXTENDS MeshSelfHeal, TLAPS

-----------------------------------------------------------------------------
(* The steps of the whole, as the connection loop sees them *)

\* A step of the agent, the watcher or the suspension: it counts against the bounds,
\* and a heal may take or give back the lock of the tool.
Around ==
  /\ UNCHANGED <<registry, update, manager, told, missed, drifted>>
  /\ op' = op \/ (op = "none" /\ op' = "restart") \/ op' = "none"
  /\ op \in {"announce", "nudge"} => op' = op
  /\ ops' \in 0..MaxOps /\ faults' \in 0..MaxFaults

LEMMA BoundsType ==
  ASSUME ConnectionTypeOK, Fault \/ Operation \/ UNCHANGED bounds
  PROVE  ops' \in 0..MaxOps /\ faults' \in 0..MaxFaults
  BY ConnectionAssumption DEF ConnectionTypeOK, Fault, Operation, bounds

\* The watcher restarts the tool exactly while it holds the tool's lock.
HealHoldsLock == watch = "restarting" <=> op = "restart"

LEMMA StepsOf ==
  ASSUME ConnectionTypeOK, HealHoldsLock, [Next]_vars
  PROVE  \/ Around
         \/ Run \/ Announce \/ Nudge \/ ReadRegistry \/ Resolve \/ Publish
         \/ SaveConnection \/ Rest \/ EndLoop
         \/ BeginInstall \/ SaveTool \/ StartFails \/ InstallFails \/ EndOperation
         \/ BeginUninstall \/ RemoveTool \/ UninstallFails \/ BeginUpdate \/ EndUpdate
         \/ Rekey \/ Crash
  <1> USE DEF tool, connection
  <1>1. CASE AgentConnects
    BY <1>1, BoundsType DEF AgentConnects, Around
  <1>2. CASE AgentFails
    BY <1>2, BoundsType DEF AgentFails, Around
  <1>3. CASE AgentTalks
    BY <1>3, BoundsType DEF AgentTalks, Around
  <1>4. CASE AgentWedges
    BY <1>4, BoundsType DEF AgentWedges, Around
  <1>5. CASE MshOutdated \/ LogRotated
    BY <1>5, BoundsType DEF MshOutdated, LogRotated, Around
  <1>6. CASE Poll
    <2>1. UNCHANGED tool
      BY <1>6 DEF Poll
    <2>2. Fault \/ UNCHANGED bounds
      BY <1>6 DEF Poll
    <2>3. QED
      BY <2>1, <2>2, BoundsType DEF Around
  <1>7. CASE Refresh
    BY <1>7, BoundsType DEF Refresh, Around
  <1>8. CASE RestartAgent
    BY <1>8, BoundsType DEF RestartAgent, Around
  <1>9. CASE Restarted
    BY <1>9, BoundsType DEF Restarted, Around, HealHoldsLock
  <1>10. CASE WatcherStarts
    BY <1>10 DEF WatcherStarts
  <1>11. CASE Unnoticed(ManagerStep) \/ Unnoticed(Rekey)
    BY <1>11 DEF Unnoticed, ManagerStep
  <1>12. CASE InstallStep
    BY <1>12 DEF InstallStep, Stopping, Starting, Unnoticed
  <1>13. CASE UninstallStep
    BY <1>13 DEF UninstallStep, Stopping
  <1>14. CASE UpdateStep
    BY <1>14 DEF UpdateStep, Stopping, Starting
  <1>15. CASE Suspension \/ TakeCommand
    <2>1. CASE Suspension
      <3>1. ops' \in 0..MaxOps /\ faults' \in 0..MaxFaults
        BY <2>1, ConnectionAssumption DEF Suspension, ConnectionTypeOK, bounds
      <3>2. QED
        BY <2>1, <3>1 DEF Suspension, Around
    <2>2. CASE TakeCommand
      <3>1. Fault \/ UNCHANGED bounds
        BY <2>2 DEF TakeCommand
      <3>2. QED
        BY <2>2, <3>1, BoundsType DEF TakeCommand, Around
    <2>3. QED
      BY <1>15, <2>1, <2>2
  <1>16. CASE UNCHANGED vars
    BY <1>16, BoundsType DEF vars, Around
  <1>17. QED
    BY <1>1, <1>2, <1>3, <1>4, <1>5, <1>6, <1>7, <1>8, <1>9, <1>10, <1>11, <1>12, <1>13,
       <1>14, <1>15, <1>16 DEF Next

LEMMA HealHoldsLockStep ==
  ASSUME HealHoldsLock, [Next]_vars
  PROVE  HealHoldsLock'
  <1> USE DEF tool, connection, watcher, timers, HealHoldsLock
  <1>1. CASE AgentConnects \/ AgentFails \/ AgentTalks \/ AgentWedges \/ MshOutdated \/ LogRotated
    BY <1>1 DEF AgentConnects, AgentFails, AgentTalks, AgentWedges, MshOutdated, LogRotated
  <1>2. CASE Poll
    <2>1. op' = op /\ watch = "poll" /\ watch' \in {"poll", "refresh"}
      BY <1>2 DEF Poll, Decide
    <2>2. QED
      BY <2>1
  <1>3. CASE Refresh \/ RestartAgent \/ Restarted
    BY <1>3 DEF Refresh, RestartAgent, Restarted, Healed
  <1>4. CASE WatcherStarts
    BY <1>4 DEF WatcherStarts, Crash
  <1>5. CASE Unnoticed(ManagerStep)
    BY <1>5 DEF Unnoticed, ManagerStep, Run, Announce, Nudge, ReadRegistry, Resolve,
                Publish, SaveConnection, Rest, EndLoop
  <1>6. CASE Unnoticed(Rekey)
    BY <1>6 DEF Unnoticed, Rekey
  <1>7. CASE InstallStep
    BY <1>7 DEF InstallStep, Stopping, Starting, Unnoticed, BeginInstall, SaveTool,
                StartFails, InstallFails, EndOperation
  <1>8. CASE UninstallStep \/ UpdateStep
    BY <1>8 DEF UninstallStep, UpdateStep, Stopping, Starting, BeginUninstall, RemoveTool,
                UninstallFails, BeginUpdate, EndUpdate
  <1>9. CASE Suspension \/ TakeCommand \/ UNCHANGED vars
    BY <1>9 DEF Suspension, TakeCommand, vars
  <1>10. QED
    BY <1>1, <1>2, <1>3, <1>4, <1>5, <1>6, <1>7, <1>8, <1>9 DEF Next

-----------------------------------------------------------------------------
(* The inductive invariant *)

\* A loop that left and is still removing its handle and its mark keeps the mark to
\* the last, so that no successor starts before it is done.  A tool counts as missed
\* only while it has no loop.
Single ==
  /\ LoopReachable
  /\ missed => loop = "off"
  /\ ending # "no" => loop = "off" /\ marked

\* Unless the tool drifted, a loop that nobody woke works with the id of the tool as it is: from Resolve on in got, from Publish on at the
\* backend.  An install that has still to announce itself will leave a permit.
Fresh ==
  (op \notin {"announce", "nudge"} /\ ~drifted /\ ~permit) =>
     /\ loop = "publish" => got = "current"
     /\ loop \in {"save", "rest"} => published = "current"

LEMMA ConnectionTypeStep ==
  ASSUME ConnectionTypeOK, HealHoldsLock, [Next]_vars
  PROVE  ConnectionTypeOK'
  <1> USE BoundsType DEF ConnectionTypeOK, manager, told, bounds, try_mark_running, NewId, Operation, Fault
  <1>1. CASE Around
    BY <1>1 DEF Around
  <1>2. CASE Run
    <2>1. missed' \in {missed, FALSE, loop = "off"}
      BY <1>2 DEF Run
    <2>2. missed' \in BOOLEAN
      BY <2>1
    <2>3. /\ booted' \in BOOLEAN /\ marked' \in BOOLEAN /\ wake' \in BOOLEAN
          /\ permit' \in BOOLEAN /\ loop' \in {"read", loop} /\ UNCHANGED <<got, ending>>
      BY <1>2, Zenon DEF Run
    <2>4. Fault \/ UNCHANGED bounds
      BY <1>2, Zenon DEF Run
    <2>5. UNCHANGED <<registry, op, update, told, drifted>>
      BY <1>2 DEF Run
    <2>6. ops' \in 0..MaxOps /\ faults' \in 0..MaxFaults
      BY <2>4, BoundsType
    <2>7. QED
      BY <2>2, <2>3, <2>5, <2>6
  <1>3. CASE Announce
    BY <1>3 DEF Announce
  <1>4. CASE Nudge
    BY <1>4 DEF Nudge
  <1>5. CASE ReadRegistry
    BY <1>5 DEF ReadRegistry
  <1>6. CASE Resolve
    BY <1>6 DEF Resolve
  <1>7. CASE Publish
    BY <1>7 DEF Publish
  <1>8. CASE SaveConnection
    BY <1>8 DEF SaveConnection
  <1>9. CASE Rest
    BY <1>9 DEF Rest
  <1>10. CASE EndLoop
    BY <1>10 DEF EndLoop
  <1>11. CASE BeginInstall
    BY <1>11 DEF BeginInstall
  <1>12. CASE SaveTool
    BY <1>12 DEF SaveTool
  <1>13. CASE InstallFails
    BY <1>13 DEF InstallFails
  <1>14. CASE EndOperation
    BY <1>14 DEF EndOperation
  <1>15. CASE BeginUninstall
    BY <1>15 DEF BeginUninstall
  <1>16. CASE RemoveTool
    BY <1>16 DEF RemoveTool
  <1>17. CASE BeginUpdate
    BY <1>17 DEF BeginUpdate
  <1>18. CASE EndUpdate
    BY <1>18 DEF EndUpdate
  <1>19. CASE Rekey
    BY <1>19 DEF Rekey
  <1>20. CASE Crash
    BY <1>20 DEF Crash
  <1>21. CASE StartFails
    <2>1. missed' \in BOOLEAN /\ drifted' \in BOOLEAN
      BY <1>21, Zenon DEF StartFails
    <2>2. /\ got' \in {"old", got} /\ published' \in {"none", "old", published}
          /\ UNCHANGED <<booted, marked, wake, permit, loop, ending, torn, update>>
      BY <1>21 DEF StartFails
    <2>3. ops' \in 0..MaxOps /\ faults' \in 0..MaxFaults
      BY <1>21, BoundsType DEF StartFails
    <2>4. op' = "none" /\ registry' = "installed"
      BY <1>21 DEF StartFails
    <2>5. QED
      BY <2>1, <2>2, <2>3, <2>4
  <1>22. CASE UninstallFails
    BY <1>22 DEF UninstallFails
  <1>23. QED
    BY <1>1, <1>2, <1>3, <1>4, <1>5, <1>6, <1>7, <1>8, <1>9, <1>10, <1>11, <1>12,
       <1>13, <1>14, <1>15, <1>16, <1>17, <1>18, <1>19, <1>20, <1>21, <1>22, StepsOf

LEMMA SingleStep ==
  ASSUME ConnectionTypeOK, HealHoldsLock, Single, [Next]_vars
  PROVE  Single'
  <1> USE DEF Single, LoopReachable, manager, told, try_mark_running, NewId
  <1>1. CASE Around
    BY <1>1 DEF Around
  <1>2. CASE Run
    <2>1. (missed' = missed /\ loop' = loop) \/ missed' = FALSE \/ missed' = (loop' = "off")
      BY <1>2, Zenon DEF Run, try_mark_running
    <2>2. missed' => loop' = "off"
      BY <2>1
    <2>3. \/ ~marked /\ try_mark_running
          \/ UNCHANGED <<marked, wake, loop, ending>>
      BY <1>2 DEF Run
    <2>4. QED
      BY <2>2, <2>3
  <1>3. CASE Announce
    BY <1>3 DEF Announce
  <1>4. CASE Nudge
    BY <1>4 DEF Nudge
  <1>5. CASE ReadRegistry
    BY <1>5 DEF ReadRegistry
  <1>6. CASE Resolve
    BY <1>6 DEF Resolve
  <1>7. CASE Publish
    BY <1>7 DEF Publish
  <1>8. CASE SaveConnection
    BY <1>8 DEF SaveConnection
  <1>9. CASE Rest
    BY <1>9 DEF Rest
  <1>10. CASE EndLoop
    BY <1>10 DEF EndLoop
  <1>11. CASE BeginInstall
    BY <1>11 DEF BeginInstall
  <1>12. CASE SaveTool
    BY <1>12 DEF SaveTool
  <1>13. CASE InstallFails
    BY <1>13 DEF InstallFails
  <1>14. CASE EndOperation
    BY <1>14 DEF EndOperation
  <1>15. CASE BeginUninstall
    BY <1>15 DEF BeginUninstall
  <1>16. CASE RemoveTool
    BY <1>16 DEF RemoveTool
  <1>17. CASE BeginUpdate
    BY <1>17 DEF BeginUpdate
  <1>18. CASE EndUpdate
    BY <1>18 DEF EndUpdate
  <1>19. CASE Rekey
    BY <1>19 DEF Rekey
  <1>20. CASE Crash
    BY <1>20 DEF Crash
  <1>21. CASE StartFails
    <2>1. missed' = (loop = "off") /\ UNCHANGED <<marked, wake, loop, ending>>
      BY <1>21, Zenon DEF StartFails
    <2>2. missed' => loop' = "off"
      BY <2>1
    <2>3. QED
      BY <2>1, <2>2
  <1>22. CASE UninstallFails
    BY <1>22 DEF UninstallFails
  <1>23. QED
    BY <1>1, <1>2, <1>3, <1>4, <1>5, <1>6, <1>7, <1>8, <1>9, <1>10, <1>11, <1>12,
       <1>13, <1>14, <1>15, <1>16, <1>17, <1>18, <1>19, <1>20, <1>21, <1>22, StepsOf

LEMMA FreshStep ==
  ASSUME ConnectionTypeOK, HealHoldsLock, Single, Fresh, [Next]_vars
  PROVE  Fresh'
  <1> USE DEF ConnectionTypeOK, Single, LoopReachable, Fresh, manager, told, try_mark_running, NewId
  <1>1. CASE Around
    BY <1>1 DEF Around
  <1>2. CASE Run
    BY <1>2 DEF Run
  <1>3. CASE Announce
    BY <1>3 DEF Announce
  <1>4. CASE Nudge
    BY <1>4 DEF Nudge
  <1>5. CASE ReadRegistry
    BY <1>5 DEF ReadRegistry
  <1>6. CASE Resolve
    BY <1>6 DEF Resolve
  <1>7. CASE Publish
    BY <1>7 DEF Publish
  <1>8. CASE SaveConnection
    BY <1>8 DEF SaveConnection
  <1>9. CASE Rest
    BY <1>9 DEF Rest
  <1>10. CASE EndLoop
    BY <1>10 DEF EndLoop
  <1>11. CASE BeginInstall
    BY <1>11 DEF BeginInstall
  <1>12. CASE SaveTool
    BY <1>12 DEF SaveTool
  <1>13. CASE InstallFails
    BY <1>13 DEF InstallFails
  <1>14. CASE EndOperation
    BY <1>14 DEF EndOperation
  <1>15. CASE BeginUninstall
    BY <1>15 DEF BeginUninstall
  <1>16. CASE RemoveTool
    BY <1>16 DEF RemoveTool
  <1>17. CASE BeginUpdate
    BY <1>17 DEF BeginUpdate
  <1>18. CASE EndUpdate
    BY <1>18 DEF EndUpdate
  <1>19. CASE Rekey
    BY <1>19 DEF Rekey
  <1>20. CASE Crash
    BY <1>20 DEF Crash
  <1>21. CASE StartFails
    BY <1>21 DEF StartFails
  <1>22. CASE UninstallFails
    BY <1>22 DEF UninstallFails
  <1>23. QED
    BY <1>1, <1>2, <1>3, <1>4, <1>5, <1>6, <1>7, <1>8, <1>9, <1>10, <1>11, <1>12,
       <1>13, <1>14, <1>15, <1>16, <1>17, <1>18, <1>19, <1>20, <1>21, <1>22, StepsOf

-----------------------------------------------------------------------------
(* What the watcher holds against the agent *)

Line == {"healthy", "failed", "other"}

\* TypeOK without its conjunct on the tool's lock, which is HealHoldsLock.
WatcherTypeOK ==
  /\ suspended \in BOOLEAN /\ stopped \in BOOLEAN /\ commands \in Nat
  /\ agent \in {"down", "starting", "up", "failing", "wedged"}
  /\ msh \in {"good", "stale", "noid"} /\ mute \in 0..SilentAfter
  /\ log \in BoundedSeq(Line, MaxLines)
  /\ tail \in {"none", "healthy", "failed"}
  /\ watch \in {"poll", "refresh", "restart", "restarting"}
  /\ stuck \in Never..StuckAfter /\ quiet \in 0..SilentAfter /\ cool \in Never..Cooldown

\* An agent that is up, and whose connect the log still shows, logged nothing worse since:
\* what is still to be read overcomes every failure in it; when the connect has been read
\* no failure is held against it; and when nothing is left to be read, the silence that
\* counts against it is no longer than its own.
UpSeen ==
  (agent = "up" /\ tail = "healthy") =>
     /\ ~StillFails(log)
     /\ Connects(log) \/ stuck = Never
     /\ log = <<>> => quiet <= mute

LEMMA LogIs ==
  \A s : s \in BoundedSeq(Line, MaxLines) <=> s \in Seq(Line) /\ Len(s) <= MaxLines
  <1> MaxLines \in Nat
    BY MeshAssumption
  <1> TAKE s
  <1>1. ASSUME s \in BoundedSeq(Line, MaxLines)
        PROVE  s \in Seq(Line) /\ Len(s) <= MaxLines
    <2>1. PICK m \in 0..MaxLines : s \in [1..m -> Line]
      BY <1>1 DEF BoundedSeq, SeqOf
    <2>2. s \in Seq(Line) /\ Len(s) = m
      BY <2>1
    <2>3. QED
      BY <2>1, <2>2
  <1>2. ASSUME s \in Seq(Line), Len(s) <= MaxLines
        PROVE  s \in BoundedSeq(Line, MaxLines)
    <2>1. Len(s) \in 0..MaxLines /\ s \in [1..Len(s) -> Line]
      BY <1>2
    <2>2. QED
      BY <2>1 DEF BoundedSeq, SeqOf
  <1>3. QED
    BY <1>1, <1>2

LEMMA EmptyLog == <<>> \in BoundedSeq(Line, MaxLines)
  <1>1. 0 \in 0..MaxLines
    BY MeshAssumption
  <1>2. <<>> \in [1..0 -> Line]
    OBVIOUS
  <1>3. QED
    BY <1>1, <1>2 DEF BoundedSeq, SeqOf

LEMMA LogsType ==
  ASSUME WatcherTypeOK, NEW line \in Line, Logs(line)
  PROVE  /\ log' \in BoundedSeq(Line, MaxLines) /\ tail' \in {"none", "healthy", "failed"}
         /\ log' = Append(log, line) /\ log \in Seq(Line) /\ mute' = 0
  <1>1. log \in Seq(Line) /\ Len(log) < MaxLines /\ log' = Append(log, line)
    BY LogIs DEF WatcherTypeOK, Logs
  <1>2. log' \in Seq(Line) /\ Len(log') <= MaxLines
    BY <1>1, MeshAssumption
  <1>3. tail' \in {"none", "healthy", "failed"}
    BY DEF Logs, WatcherTypeOK, Line
  <1>4. mute' = 0
    BY DEF Logs
  <1>5. QED
    BY <1>1, <1>2, <1>3, <1>4, LogIs

\* Two ages counted together keep their order.
LEMMA AgeOrder ==
  ASSUME NEW limit \in Nat \ {0}, NEW s \in 0..limit, NEW t \in 0..limit, s <= t
  PROVE  Age(s, limit) <= Age(t, limit)
  BY DEF Age, Never

LEMMA AgeType ==
  ASSUME NEW limit \in Nat \ {0}, NEW t \in Never..limit
  PROVE  /\ Age(t, limit) \in Never..limit
         /\ t \in 0..limit => Age(t, limit) \in 0..limit
         /\ t = Never => Age(t, limit) = Never
  BY DEF Age, Never

\* A batch of lines that ends well clears the failure when it shows a connect, and
\* leaves the timer when it does not.
LEMMA SeesWell ==
  ASSUME NEW t, NEW lines, ~StillFails(lines)
  PROVE  Sees(t, lines).stuck = IF Connects(lines) THEN Never ELSE t.stuck
  BY DEF Sees

LEMMA SeesType ==
  ASSUME NEW t \in [stuck : Never..StuckAfter, cool : Never..Cooldown], NEW lines
  PROVE  Sees(t, lines) \in [stuck : Never..StuckAfter, cool : Never..Cooldown]
  <1> DEFINE since == IF Connects(lines) THEN [stuck |-> Never, cool |-> Never] ELSE t
  <1>1. since \in [stuck : Never..StuckAfter, cool : Never..Cooldown]
    BY MeshAssumption DEF Never
  <1>2. [since EXCEPT !.stuck = 0] \in [stuck : Never..StuckAfter, cool : Never..Cooldown]
    BY <1>1, MeshAssumption DEF Never
  <1>3. QED
    BY <1>1, <1>2 DEF Sees

\* A poll that reads: what the watcher decides on.
Reads(slept, unreadable, lines, t, silence) ==
  /\ lines = (IF unreadable THEN <<>> ELSE log)
  /\ log' = (IF unreadable THEN log ELSE <<>>)
  /\ t = Sees([stuck |-> IF slept THEN Never ELSE Age(stuck, StuckAfter),
               cool |-> IF slept /\ cool # Never THEN Cooldown ELSE Age(cool, Cooldown)],
              lines)
  /\ silence = (IF slept \/ lines # <<>> THEN 0 ELSE Age(quiet, SilentAfter))
  /\ Decide(t, silence)

LEMMA PollReads ==
  ASSUME Poll, ~suspended
  PROVE  \E slept, unreadable \in BOOLEAN : \E lines, t, silence :
            Reads(slept, unreadable, lines, t, silence)
  BY DEF Poll, Reads

LEMMA ReadsType ==
  ASSUME WatcherTypeOK, NEW slept \in BOOLEAN, NEW unreadable \in BOOLEAN,
         NEW lines, NEW t, NEW silence, Reads(slept, unreadable, lines, t, silence)
  PROVE  /\ t \in [stuck : Never..StuckAfter, cool : Never..Cooldown]
         /\ silence \in 0..SilentAfter
         /\ log' \in BoundedSeq(Line, MaxLines)
  <1> USE MeshAssumption DEF WatcherTypeOK
  <1>1. /\ (IF slept THEN Never ELSE Age(stuck, StuckAfter)) \in Never..StuckAfter
        /\ (IF slept /\ cool # Never THEN Cooldown ELSE Age(cool, Cooldown)) \in Never..Cooldown
    BY AgeType DEF Never
  <1>2. t \in [stuck : Never..StuckAfter, cool : Never..Cooldown]
    <2> DEFINE before == [stuck |-> IF slept THEN Never ELSE Age(stuck, StuckAfter),
                          cool |-> IF slept /\ cool # Never THEN Cooldown
                                   ELSE Age(cool, Cooldown)]
    <2>1. before \in [stuck : Never..StuckAfter, cool : Never..Cooldown]
      BY <1>1
    <2>2. t = Sees(before, lines)
      BY DEF Reads
    <2>3. QED
      BY <2>1, <2>2, SeesType
  <1>3. silence \in 0..SilentAfter
    BY AgeType DEF Reads, Never
  <1>4. log' \in BoundedSeq(Line, MaxLines)
    BY EmptyLog DEF Reads
  <1>5. QED
    BY <1>2, <1>3, <1>4

\* Without lines there is neither a failure nor a connect.
LEMMA NoLines == ~StillFails(<<>>) /\ ~Connects(<<>>)
  BY DEF StillFails, Connects

\* A poll beside an agent that is up: what it could read clears the failure, and what
\* it could not read leaves it as it was, in an unchanged log.
LEMMA ReadsUp ==
  ASSUME UpSeen, agent = "up", tail = "healthy", NEW slept \in BOOLEAN, NEW unreadable \in BOOLEAN,
         NEW lines, NEW t, NEW silence, Reads(slept, unreadable, lines, t, silence)
  PROVE  /\ ~StillFails(log')
         /\ ~unreadable => t.stuck = Never
         /\ unreadable => log' = log /\ (stuck = Never => t.stuck = Never)
  <1> DEFINE before == [stuck |-> IF slept THEN Never ELSE Age(stuck, StuckAfter),
                        cool |-> IF slept /\ cool # Never THEN Cooldown
                                 ELSE Age(cool, Cooldown)]
  <1>1. t = Sees(before, lines)
    BY DEF Reads
  <1>2. stuck = Never => before.stuck = Never
    BY DEF Age
  <1>3. ~StillFails(lines)
    BY NoLines DEF Reads, UpSeen
  <1>4. t.stuck = IF Connects(lines) THEN Never ELSE before.stuck
    BY <1>1, <1>3, SeesWell
  <1>5. CASE unreadable
    <2>1. lines = <<>> /\ log' = log
      BY <1>5 DEF Reads
    <2>2. QED
      BY <1>2, <1>4, <1>5, <2>1, NoLines DEF UpSeen
  <1>6. CASE ~unreadable
    <2>1. lines = log /\ log' = <<>>
      BY <1>6 DEF Reads
    <2>2. QED
      BY <1>2, <1>4, <1>6, <2>1, NoLines DEF UpSeen
  <1>7. QED
    BY <1>5, <1>6

LEMMA WatcherTypeStep ==
  ASSUME WatcherTypeOK, [Next]_vars
  PROVE  WatcherTypeOK'
  <1> USE MeshAssumption DEF WatcherTypeOK, suspension, tool, mesh, watcher, timers
  <1>1. CASE AgentConnects \/ AgentFails \/ AgentTalks \/ MshOutdated
    <2>1. \E line \in Line : Logs(line)
      BY <1>1, Zenon DEF AgentConnects, AgentFails, AgentTalks, MshOutdated, Line
    <2>2. /\ log' \in BoundedSeq(Line, MaxLines) /\ tail' \in {"none", "healthy", "failed"}
          /\ mute' = 0
      BY <2>1, LogsType
    <2>3. UNCHANGED <<suspension, watcher>>
      BY <1>1 DEF AgentConnects, AgentFails, AgentTalks, MshOutdated
    <2>4. /\ agent' \in {"down", "starting", "up", "failing", "wedged"}
          /\ msh' \in {"good", "stale", "noid"}
      BY <1>1 DEF AgentConnects, AgentFails, AgentTalks, MshOutdated
    <2>5. QED
      BY <2>2, <2>3, <2>4
  <1>2. CASE Poll
    <2>a. mute' \in {Age(mute, SilentAfter), 0}
      BY <1>2 DEF Poll
    <2>b. mute' \in 0..SilentAfter
      BY <2>a, AgeType DEF Never
    <2>1. UNCHANGED <<suspension, agent, msh, tail>> /\ mute' \in 0..SilentAfter
      BY <1>2, <2>b DEF Poll
    <2>2. CASE suspended
      <3>1. /\ log' = log /\ watch' = watch /\ stuck' = Age(stuck, StuckAfter)
            /\ quiet' = Age(quiet, SilentAfter) /\ cool' = Age(cool, Cooldown)
        BY <1>2, <2>2 DEF Poll
      <3>2. QED
        BY <2>1, <3>1, AgeType DEF Never
    <2>3. CASE ~suspended
      <3>1. PICK slept \in BOOLEAN, unreadable \in BOOLEAN :
               \E lines, t, silence : Reads(slept, unreadable, lines, t, silence)
        BY <1>2, <2>3, PollReads
      <3>2. PICK lines, t, silence : Reads(slept, unreadable, lines, t, silence)
        BY <3>1
      <3>3. /\ t.stuck \in Never..StuckAfter /\ t.cool \in Never..Cooldown
            /\ silence \in 0..SilentAfter /\ log' \in BoundedSeq(Line, MaxLines)
        BY <3>2, ReadsType
      <3>4. /\ watch' \in {"poll", "refresh"} /\ stuck' \in {Never, t.stuck}
            /\ quiet' \in {0, silence} /\ cool' \in {0, t.cool}
        BY <3>2 DEF Reads, Decide
      <3>5. QED
        BY <2>1, <3>3, <3>4 DEF Never
    <2>4. QED
      BY <2>2, <2>3
  <1>3. CASE AgentWedges \/ Refresh
    BY <1>3 DEF AgentWedges, Refresh
  <1>4. CASE RestartAgent \/ Restarted
    BY <1>4 DEF RestartAgent, Restarted, Healed, Stop, Start, Never
  <1>5. CASE WatcherStarts
    <2>1. log' \in BoundedSeq(Line, MaxLines)
      BY <1>5, EmptyLog DEF WatcherStarts
    <2>2. stuck' \in {Never, 0} /\ quiet' \in 0..SilentAfter /\ cool' = Never
      BY <1>5 DEF WatcherStarts
    <2>3. /\ suspended' = FALSE /\ stopped' = FALSE /\ commands' = 0 /\ watch' = "poll"
          /\ UNCHANGED <<agent, mute, msh, tail>>
      BY <1>5 DEF WatcherStarts
    <2>4. Never \in Never..StuckAfter /\ 0 \in Never..StuckAfter /\ Never \in Never..Cooldown
      BY DEF Never
    <2>5. QED
      BY <2>1, <2>2, <2>3, <2>4
  <1>6. CASE Unnoticed(ManagerStep) \/ Unnoticed(Rekey)
    BY <1>6 DEF Unnoticed
  <1>7. CASE InstallStep \/ UninstallStep \/ UpdateStep
    <2>1. CASE InstallStep
      BY <2>1 DEF InstallStep, Stopping, Starting, Stop, Start, Unnoticed
    <2>2. CASE UninstallStep
      BY <2>2 DEF UninstallStep, Stopping, Stop
    <2>3. CASE UpdateStep
      BY <2>3 DEF UpdateStep, Stopping, Starting, Stop, Start
    <2>4. QED
      BY <1>7, <2>1, <2>2, <2>3
  <1>8. CASE Suspension \/ TakeCommand
    <2>1. CASE Suspension
      <3>1. suspended' \in BOOLEAN /\ commands' \in Nat
        <4>1. suspended' \in BOOLEAN
          BY <2>1, Zenon DEF Suspension
        <4>2. commands' = commands + 1
          BY <2>1 DEF Suspension
        <4>3. commands' \in Nat
          BY <4>2
        <4>4. QED
          BY <4>1, <4>3
      <3>2. UNCHANGED <<stopped, mesh, watcher>>
        BY <2>1 DEF Suspension
      <3>3. QED
        BY <3>1, <3>2
    <2>2. CASE TakeCommand
      <3>1. commands' \in Nat /\ stopped' \in BOOLEAN
        BY <2>2 DEF TakeCommand
      <3>2. agent' \in {"down", "starting", agent} /\ mute' \in {0, mute}
        BY <2>2 DEF TakeCommand, Stop, Start
      <3>3. UNCHANGED <<suspended, msh, log, tail, watcher>>
        BY <2>2 DEF TakeCommand
      <3>4. QED
        BY <3>1, <3>2, <3>3
    <2>3. QED
      BY <1>8, <2>1, <2>2
  <1>9. CASE UNCHANGED vars
    BY <1>9 DEF vars
  <1>10. CASE LogRotated
    <2>1. UNCHANGED <<suspension, agent, msh, mute, watcher>>
      BY <1>10 DEF LogRotated
    <2>2. CASE log' = <<>> /\ tail' = "none"
      BY <2>1, <2>2, EmptyLog
    <2>3. CASE tail # "none" /\ log' = <<tail>> /\ UNCHANGED tail
      <3>1. log' \in Seq(Line) /\ Len(log') = 1
        BY <2>3 DEF Line
      <3>2. log' \in BoundedSeq(Line, MaxLines)
        <4>1. 1 <= MaxLines /\ Len(log') <= MaxLines
          BY <3>1
        <4>2. QED
          BY <3>1, <4>1, LogIs
      <3>3. QED
        BY <2>1, <2>3, <3>2
    <2>4. QED
      BY <1>10, <2>2, <2>3 DEF LogRotated
  <1>11. QED
    BY <1>1, <1>2, <1>3, <1>4, <1>5, <1>6, <1>7, <1>8, <1>9, <1>10 DEF Next

LEMMA UpSeenStep ==
  ASSUME WatcherTypeOK, UpSeen, [Next]_vars
  PROVE  UpSeen'
  <1> USE DEF tool, mesh, watcher, timers
  <1> SUFFICES ASSUME agent' = "up", tail' = "healthy"
               PROVE  /\ ~StillFails(log')
                      /\ Connects(log') \/ stuck' = Never
                      /\ log' = <<>> => quiet' <= mute'
    BY DEF UpSeen, StillFails, Connects
  <1>1. CASE AgentConnects
    <2>1. log' = Append(log, "healthy") /\ log \in Seq(Line)
      BY <1>1, LogsType DEF AgentConnects, Line, Logs
    <2>2. /\ DOMAIN log' = 1..Len(log) + 1 /\ Len(log) \in Nat
          /\ log'[Len(log) + 1] = "healthy"
      BY <2>1 DEF Line
    <2>3. Connects(log')
      BY <2>2 DEF Connects
    <2>4. ~StillFails(log')
      BY <2>2 DEF StillFails
    <2>5. QED
      BY <2>1, <2>3, <2>4
  <1>2. CASE AgentTalks
    <2>1. /\ agent = "up" /\ tail = "healthy" /\ UNCHANGED stuck
          /\ log' = Append(log, "other") /\ log \in Seq(Line)
      BY <1>2, LogsType DEF AgentTalks, Line, Logs
    <2>2. /\ DOMAIN log = 1..Len(log) /\ DOMAIN log' = 1..Len(log) + 1 /\ Len(log) \in Nat
          /\ log'[Len(log) + 1] = "other" /\ \A i \in DOMAIN log : log'[i] = log[i]
      BY <2>1 DEF Line
    <2>3. Connects(log) => Connects(log')
      BY <2>2 DEF Connects
    <2>4. StillFails(log') => StillFails(log)
      BY <2>2 DEF StillFails
    <2>5. QED
      BY <2>1, <2>3, <2>4 DEF UpSeen
  <1>3. CASE AgentFails \/ AgentWedges \/ MshOutdated
    BY <1>3 DEF AgentFails, AgentWedges, MshOutdated
  <1>4. CASE Poll
    <2>1. agent = "up" /\ tail = "healthy" /\ mute' = Age(mute, SilentAfter)
      BY <1>4 DEF Poll
    <2> quiet \in 0..SilentAfter /\ mute \in 0..SilentAfter
      BY DEF WatcherTypeOK
    <2> mute' \in 0..SilentAfter
      BY <2>1, AgeType, MeshAssumption DEF Never
    <2>a. log = <<>> => Age(quiet, SilentAfter) <= mute'
      BY <2>1, AgeOrder, MeshAssumption DEF UpSeen
    <2>2. CASE suspended
      <3>1. /\ log' = log /\ stuck' = Age(stuck, StuckAfter)
            /\ quiet' = Age(quiet, SilentAfter)
        BY <1>4, <2>2 DEF Poll
      <3>2. stuck = Never => stuck' = Never
        BY <3>1 DEF Age
      <3>3. QED
        BY <2>1, <2>a, <3>1, <3>2 DEF UpSeen
    <2>3. CASE ~suspended
      <3>1. PICK slept \in BOOLEAN, unreadable \in BOOLEAN :
               \E lines, t, silence : Reads(slept, unreadable, lines, t, silence)
        BY <1>4, <2>3, PollReads
      <3>2. PICK lines, t, silence : Reads(slept, unreadable, lines, t, silence)
        BY <3>1
      <3>3. stuck' = Never \/ stuck' = t.stuck
        BY <3>2 DEF Reads, Decide
      <3>4. ~StillFails(log') /\ (~unreadable => t.stuck = Never)
                              /\ (unreadable => log' = log /\ (stuck = Never => t.stuck = Never))
        BY <2>1, <3>2, ReadsUp
      <3>5. log' = <<>> => quiet' <= mute'
        <4>1. quiet' = 0 \/ quiet' = silence
          BY <3>2 DEF Reads, Decide
        <4>2. CASE slept \/ lines # <<>>
          <5>1. silence = 0
            BY <3>2, <4>2 DEF Reads
          <5>2. QED
            BY <4>1, <5>1
        <4>3. CASE ~slept /\ lines = <<>>
          <5>1. silence = Age(quiet, SilentAfter) /\ (log' = <<>> => log = <<>>)
            BY <3>2, <4>3 DEF Reads
          <5>2. QED
            BY <2>a, <4>1, <5>1
        <4>4. QED
          BY <4>2, <4>3
      <3>6. QED
        BY <2>1, <3>3, <3>4, <3>5 DEF UpSeen
    <2>4. QED
      BY <2>2, <2>3
  <1>5. CASE Refresh
    BY <1>5 DEF Refresh, UpSeen
  <1>6. CASE RestartAgent \/ Restarted
    BY <1>6 DEF RestartAgent, Restarted, Healed, Stop, Start, UpSeen, WatcherTypeOK
  <1>7. CASE WatcherStarts
    BY <1>7, NoLines DEF WatcherStarts, UpSeen
  <1>8. CASE Unnoticed(ManagerStep) \/ Unnoticed(Rekey)
    BY <1>8 DEF Unnoticed, UpSeen
  <1>9. CASE InstallStep \/ UninstallStep \/ UpdateStep
    BY <1>9 DEF InstallStep, UninstallStep, UpdateStep, Stopping, Starting, Stop, Start,
                Unnoticed, UpSeen
  <1>10. CASE Suspension \/ TakeCommand
    BY <1>10 DEF Suspension, TakeCommand, Stop, Start, UpSeen
  <1>11. CASE UNCHANGED vars
    BY <1>11 DEF vars, UpSeen
  <1>12. CASE LogRotated
    <2>1. log' = <<"healthy">>
      BY <1>12 DEF LogRotated
    <2>2. DOMAIN log' = 1..1 /\ log'[1] = "healthy" /\ log' # <<>>
      BY <2>1
    <2>3. QED
      BY <2>2 DEF Connects, StillFails
  <1>13. QED
    BY <1>1, <1>2, <1>3, <1>4, <1>5, <1>6, <1>7, <1>8, <1>9, <1>10, <1>11, <1>12 DEF Next

-----------------------------------------------------------------------------
(* Theorems *)

Invariant ==
  ConnectionTypeOK /\ HealHoldsLock /\ WatcherTypeOK /\ Single /\ Fresh /\ UpSeen

LEMMA InitHolds == Init => Invariant
  <1> SUFFICES ASSUME Init PROVE Invariant
    OBVIOUS
  <1>1. ConnectionInit
    BY DEF Init
  <1>2. ConnectionTypeOK
    <2>1. {torn, update, booted, marked, wake, permit, missed, drifted} \subseteq BOOLEAN
      BY <1>1, Zenon DEF ConnectionInit
    <2>2. ops \in 0..MaxOps /\ faults \in 0..MaxFaults
      BY <1>1, ConnectionAssumption DEF ConnectionInit
    <2>3. QED
      BY <1>1, <2>1, <2>2 DEF ConnectionInit, ConnectionTypeOK
  <1>3. HealHoldsLock
    BY DEF Init, ConnectionInit, HealHoldsLock
  <1>4. Single /\ Fresh
    BY <1>1 DEF ConnectionInit, Single, LoopReachable, Fresh
  <1>5. WatcherTypeOK
    <2>1. log \in BoundedSeq(Line, MaxLines)
      BY EmptyLog DEF Init
    <2>2. /\ stuck \in Never..StuckAfter /\ quiet \in 0..SilentAfter /\ cool \in Never..Cooldown
          /\ mute \in 0..SilentAfter
      BY MeshAssumption DEF Init, Never
    <2>3. QED
      BY <2>1, <2>2 DEF Init, WatcherTypeOK
  <1>6. UpSeen
    BY DEF Init, UpSeen
  <1>7. QED
    BY <1>2, <1>3, <1>4, <1>5, <1>6 DEF Invariant

LEMMA InvariantHolds == Spec => []Invariant
  <1>1. Invariant /\ [Next]_vars => Invariant'
    BY ConnectionTypeStep, HealHoldsLockStep, WatcherTypeStep, SingleStep, FreshStep,
       UpSeenStep DEF Invariant
  <1>2. QED
    BY <1>1, InitHolds, PTL DEF Spec

\* The state of the connection loop, of the watcher and of the agent keeps its type
\* under every step of the loop, of the operations on the tool, of the watcher and of
\* a crash.
THEOREM MeshTypeCorrect == Spec => []TypeOK
  <1>1. Invariant => TypeOK
    BY DEF Invariant, HealHoldsLock, WatcherTypeOK, TypeOK, Line
  <1>2. QED
    BY <1>1, InvariantHolds, PTL

\* A loop that runs is marked and can be woken, however uninstalls, reinstalls and the
\* end of its predecessor interleave (process_tool removes the handle before the mark,
\* try_mark_running sets both under one guard).
THEOREM LoopAlwaysReachable == Spec => []LoopReachable
  <1>1. Invariant => LoopReachable
    BY DEF Invariant, Single
  <1>2. QED
    BY <1>1, InvariantHolds, PTL

\* No loop rests for an hour on the id of a tool that a later install replaced: the
\* permit of notify_one survives whatever the loop was doing when it was nudged.
THEOREM NeverRestsOnStaleId == Spec => []NoStaleRest
  <1>1. Invariant => NoStaleRest
    BY DEF Invariant, Fresh, NoStaleRest
  <1>2. QED
    BY <1>1, InvariantHolds, PTL

\* A heal is decided in a poll only.
LEMMA HealIsDecidedInPoll ==
  ASSUME [Next]_vars, watch = "poll", watch' = "refresh"
  PROVE  Poll
  <1> USE DEF tool, watcher
  <1>1. CASE AgentConnects \/ AgentFails \/ AgentTalks \/ AgentWedges \/ MshOutdated \/ LogRotated
    BY <1>1 DEF AgentConnects, AgentFails, AgentTalks, AgentWedges, MshOutdated, LogRotated
  <1>2. CASE Refresh \/ RestartAgent \/ Restarted \/ WatcherStarts
    BY <1>2 DEF Refresh, RestartAgent, Restarted, WatcherStarts
  <1>3. CASE Unnoticed(ManagerStep) \/ Unnoticed(Rekey)
    BY <1>3 DEF Unnoticed
  <1>4. CASE InstallStep \/ UninstallStep \/ UpdateStep
    BY <1>4 DEF InstallStep, UninstallStep, UpdateStep, Stopping, Starting, Unnoticed
  <1>5. CASE Suspension \/ TakeCommand \/ UNCHANGED vars
    BY <1>5 DEF Suspension, TakeCommand, vars
  <1>6. QED
    BY <1>1, <1>2, <1>3, <1>4, <1>5 DEF Next

\* Beside an agent that is up, with a .msh that names the server and a log that shows the
\* connect and has nothing left to read, no timer is due: its connect cleared the failure,
\* and it logs before it has been mute for as long as counts as silence.
LEMMA NothingDue ==
  ASSUME WatcherTypeOK, UpSeen, Poll, watch' = "refresh",
         agent = "up", msh # "noid", log' = <<>>, tail = "healthy"
  PROVE  FALSE
  <1> USE MeshAssumption
  <1>1. ~suspended
    BY DEF Poll
  <1>2. PICK slept \in BOOLEAN, unreadable \in BOOLEAN :
           \E lines, t, silence : Reads(slept, unreadable, lines, t, silence)
    BY <1>1, PollReads
  <1>3. PICK lines, t, silence : Reads(slept, unreadable, lines, t, silence)
    BY <1>2
  <1>4. t.stuck = Never
    <2>1. log = <<>> => stuck = Never
      BY NoLines DEF UpSeen
    <2>2. QED
      BY <1>3, <2>1, ReadsUp
  <1>5. silence # SilentAfter
    <2>1. CASE slept \/ lines # <<>>
      BY <1>3, <2>1 DEF Reads
    <2>2. CASE ~slept /\ lines = <<>>
      <3>1. log = <<>> /\ silence = Age(quiet, SilentAfter)
        BY <1>3, <2>2 DEF Reads
      <3>2. quiet < SilentAfter - 1 /\ quiet \in 0..SilentAfter
        BY <3>1 DEF Poll, Speaks, UpSeen, WatcherTypeOK
      <3>3. QED
        BY <3>1, <3>2 DEF Age, Never
    <2>3. QED
      BY <2>1, <2>2
  <1>6. ~current_msh_missing_serverid
    BY DEF current_msh_missing_serverid
  <1>7. watch' = "poll"
    <2>1. Never # StuckAfter
      BY DEF Never
    <2>2. QED
      BY <1>3, <1>4, <1>5, <1>6, <2>1 DEF Reads, Decide
  <1>8. QED
    BY <1>7

\* A heal is decided only against an agent that is not connected, whose .msh names no
\* server, or whose log could not be read or lost the connect: a failure that a later
\* connect overcame, a timer from before a restart of the watcher, the silence of a
\* suspension, lines read again after a rotation, a sleep of the host never bring a
\* healthy agent down (watch: the markers, last_marker_in_tail and seed_last_activity at
\* the start, read_new_lines, the reset when the sleep overran).
THEOREM HealthyIsLeftAlone == Spec => HealthyLeftAlone
  <1>1. Invariant /\ [Next]_vars =>
          [(watch = "poll" /\ watch' = "refresh") =>
              (agent # "up" \/ msh = "noid" \/ log' # <<>> \/ tail # "healthy")]_vars
    BY HealIsDecidedInPoll, NothingDue DEF Invariant
  <1>2. QED
    BY <1>1, InvariantHolds, PTL DEF Spec, HealthyLeftAlone
=============================================================================
