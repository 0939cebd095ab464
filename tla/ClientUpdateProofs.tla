------------------------- MODULE ClientUpdateProofs -------------------------
(***************************************************************************)
(* Theorems about the agent's update of itself, for any set of versions,   *)
(* whichever of them cannot start or cannot connect, and any number of     *)
(* updates, failing steps, crashes and losses of power.                    *)
(***************************************************************************)
EXTENDS ClientUpdate, TLAPS

Scripts == [pc : {"off"} \cup ScriptSteps, target : Versions \cup {None},
            only : BOOLEAN, end : Ends]
AgentTypeOK ==
  pc \in {"down"} \cup AgentSteps /\ version \in Versions \cup {None} /\ held \in States

-----------------------------------------------------------------------------
(* The inductive invariant *)

\* What the agent and the script hold on to: a phase is only stamped on a state that
\* was read, an update under way has a target, and a running agent has a version; what
\* reached its boot marker can start.
Shape ==
  /\ script.pc \in {"stamp_verified", "stamp_rolled"} => copy # NoState
  /\ pc \in {"download", "launch", "ack"} => held # NoState
  /\ pc # "down" => version # None
  /\ started \subseteq Versions \ Broken

\* Where the binaries that started are.  The executable may be anything only while no
\* agent runs past its boot marker; a script past its check moves aside a binary that
\* started, and nothing else runs until it has started the service again.
Binaries ==
  /\ pc \notin {"down", "start"} => version \in started
  /\ pc # "down" => exe \in started \cup {None, version}
  /\ prev \in started \cup {None} /\ lkg \in started \cup {None}
  /\ script.pc = "check" => exe \in started \cup {None}
  /\ script.pc \in {"stop", "move"} => exe \in started
  /\ script.pc \in {"move", "copy", "unmark", "start"} => pc = "down" /\ ~loaded
  /\ script.pc = "copy" => prev # None
  /\ lkg # None \/ prev # None \/ exe \in Versions \ Broken

\* A version may be promoted: no anchor was there to refuse it, or it is not below the anchor.
Allowed(v) == v \in unguarded \/ (anchor # None /\ v >= anchor)

Stamping == script.pc \in {"stamp_verified", "stamp_rolled"}

\* The state file names the version, or may come to name it again: by the phase that the
\* script is about to stamp, or the higher count that the agent is about to save.
Named(v) ==
  \/ file.target = v
  \/ Stamping /\ copy.target = v
  \/ pc = "count_save" /\ held.target = v

\* A target that fell below the anchor was overtaken: no binary of it will run.
Overtaken ==
  \A v \in Versions :
    Named(v) /\ ~Allowed(v) =>
      /\ exe # v /\ version # v /\ lkg \notin {v, None}
      /\ script.pc \in {"check", "stop", "move", "copy"} => script.target # v

\* What the agent holds may be promoted, and the file still names it, unless the script
\* has overwritten the file with what it read before.  The agent has started anew since
\* then, from the binary that is in place.
Held ==
  /\ pc \in {"download", "launch", "ack"} => Allowed(held.target)
  /\ pc = "count_save" /\ script.pc # "off" => held.target = file.target
  /\ pc \in {"promote", "promote_anchor"} => held.target = version /\ Allowed(version)
  /\ pc \in {"promote", "promote_anchor"} /\ file.target # version =>
       script.pc = "off" /\ exe = version /\ (pc = "promote_anchor" => lkg = version)
  /\ Stamping /\ file.target \notin {None, copy.target} =>
       pc \in {"down", "online", "download", "launch", "ack"} \/ exe = version
  /\ Stamping /\ pc = "promote_anchor" /\ copy.target # version => exe = version /\ lkg = version

-----------------------------------------------------------------------------
(* Types *)

LEMMA FaultType ==
  ASSUME TypeOK, NEW happens \in BOOLEAN, Fault(happens)
  PROVE  faults' \in 0..MaxFaults
  BY UpdateAssumption DEF TypeOK, Fault

LEMMA ThenType ==
  ASSUME TypeOK, NEW p \in {"off"} \cup ScriptSteps, Then(p)
  PROVE  script' \in Scripts
  BY DEF TypeOK, Then, Scripts

LEMMA OverType ==
  ASSUME TypeOK, NEW e \in Ends, Over(e)
  PROVE  script' \in Scripts
  BY DEF TypeOK, Over, Scripts

LEMMA TypeStep ==
  ASSUME TypeOK, Shape, [Next]_vars
  PROVE  TypeOK'
  <1> USE DEF TypeOK, disk, agent, history
  <1>1. CASE Boot
    BY <1>1, UpdateAssumption DEF Boot, Fault, ExeFault, At, Go, On, Then, Over, Killed, States,
           Stage, NoState, Phases, Unverified, AgentSteps, ScriptSteps, Shape
  <1>2. CASE WriteBootMarker
    <2>1. faults' \in 0..MaxFaults
      BY <1>2, FaultType DEF WriteBootMarker
    <2>2. version \in Versions
      BY <1>2 DEF WriteBootMarker, At, Shape
    <2>3. started' \subseteq Versions /\ marker' \in Versions \cup {None} /\ pc' \in AgentSteps
      BY <1>2, <2>2 DEF WriteBootMarker, Go, AgentSteps
    <2>4. QED
      BY <1>2, <2>1, <2>2, <2>3 DEF WriteBootMarker, Scripts, AgentTypeOK, At, Go, Killed
  <1>3. CASE SeedIfMissing
    BY <1>3, UpdateAssumption DEF SeedIfMissing, Fault, ExeFault, At, Go, On, Then, Over, Killed, States,
           Stage, NoState, Phases, Unverified, AgentSteps, ScriptSteps, Shape
  <1>4. CASE SeedAnchor
    <2>1. faults' \in 0..MaxFaults
      BY <1>4, FaultType DEF SeedAnchor
    <2>2. version \in Versions
      BY <1>4 DEF SeedAnchor, At, Shape
    <2>3. Pending \subseteq Versions
      BY DEF Pending, States, NoState
    <2>4. anchor' \in Versions \cup {None} /\ unguarded' \subseteq Versions
      BY <1>4, <2>2, <2>3 DEF SeedAnchor
    <2>5. QED
      BY <1>4, <2>1, <2>4 DEF SeedAnchor, Scripts, At, Go, AgentSteps
  <1>5. CASE RecordBootAttempt
    BY <1>5, UpdateAssumption DEF RecordBootAttempt, Fault, ExeFault, At, Go, On, Then, Over, Killed, States,
           Stage, NoState, Phases, Unverified, AgentSteps, ScriptSteps, Shape
  <1>6. CASE SaveBootAttempt
    BY <1>6, UpdateAssumption DEF SaveBootAttempt, Fault, ExeFault, At, Go, On, Then, Over, Killed, States,
           Stage, NoState, Phases, Unverified, AgentSteps, ScriptSteps, Shape
  <1>7. CASE LaunchReserveRollback
    <2>1. faults' \in 0..MaxFaults
      BY <1>7, FaultType DEF LaunchReserveRollback
    <2>2. script' \in Scripts
      BY <1>7 DEF LaunchReserveRollback, Launched, Scripts, ScriptSteps
    <2>3. QED
      BY <1>7, <2>1, <2>2 DEF LaunchReserveRollback, Scripts, At, Go, AgentSteps
  <1>8. CASE Connect
    BY <1>8, UpdateAssumption DEF Connect, Fault, ExeFault, At, Go, On, Then, Over, Killed, States,
           Stage, NoState, Phases, Unverified, AgentSteps, ScriptSteps, Shape
  <1>9. CASE HandlePendingUpdate
    BY <1>9, UpdateAssumption DEF HandlePendingUpdate, Fault, ExeFault, At, Go, On, Then, Over, Killed, States,
           Stage, NoState, Phases, Unverified, AgentSteps, ScriptSteps, Shape
  <1>10. CASE PromoteReserve
    BY <1>10, UpdateAssumption DEF PromoteReserve, Fault, ExeFault, At, Go, On, Then, Over, Killed, States,
           Stage, NoState, Phases, Unverified, AgentSteps, ScriptSteps, Shape
  <1>11. CASE PromoteAnchor
    BY <1>11, UpdateAssumption DEF PromoteAnchor, Fault, ExeFault, At, Go, On, Then, Over, Killed, States,
           Stage, NoState, Phases, Unverified, AgentSteps, ScriptSteps, Shape
  <1>12. CASE ResolveUpdate
    BY <1>12, UpdateAssumption DEF ResolveUpdate, Fault, ExeFault, At, Go, On, Then, Over, Killed, States,
           Stage, NoState, Phases, Unverified, AgentSteps, ScriptSteps, Shape
  <1>13. CASE ReceiveUpdate
    <2>1. PICK v \in queue :
            \/ queue' = queue \ {v} /\ UNCHANGED <<agent, file, unguarded, faults>>
            \/ /\ BeginUpdate(v)
               /\ unguarded' \subseteq unguarded \cup {v}
            \/ /\ Fault(TRUE)
               /\ file' = Stage(v, "preparing") /\ held' = Stage(v, "preparing")
               /\ pc' = "download" /\ UNCHANGED <<version, queue>>
               /\ unguarded' = unguarded \cup {v}
      BY <1>13 DEF ReceiveUpdate
    <2>2. v \in Versions /\ Stage(v, "preparing") \in States
      BY <2>1, UpdateAssumption DEF Stage, States, Phases
    <2>3. faults' \in 0..MaxFaults
      BY <2>1, FaultType DEF BeginUpdate
    <2>4. queue' \subseteq Versions /\ unguarded' \subseteq Versions /\ file' \in States
          /\ held' \in States /\ pc' \in AgentSteps /\ version' = version
      BY <1>13, <2>1, <2>2 DEF ReceiveUpdate, BeginUpdate, At, AgentSteps
    <2>5. QED
      BY <1>13, <2>2, <2>3, <2>4 DEF ReceiveUpdate, Scripts, AgentTypeOK, At, Go, Killed
  <1>14. CASE Download
    BY <1>14, UpdateAssumption DEF Download, Fault, ExeFault, At, Go, On, Then, Over, Killed, States,
           Stage, NoState, Phases, Unverified, AgentSteps, ScriptSteps, Shape
  <1>15. CASE LaunchUpdater
    <2>1. faults' \in 0..MaxFaults
      BY <1>15, FaultType DEF LaunchUpdater
    <2>2. held.target \in Versions
      BY <1>15 DEF LaunchUpdater, At, Shape, States
    <2>3. script' \in Scripts
      BY <1>15, <2>2 DEF LaunchUpdater, Launched, Scripts, ScriptSteps
    <2>4. file' \in States
      BY <1>15 DEF LaunchUpdater, States
    <2>5. QED
      BY <1>15, <2>1, <2>2, <2>3, <2>4 DEF LaunchUpdater, Scripts, At, Go, AgentSteps
  <1>16. CASE AcknowledgeUpdate
    <2>1. queue' \subseteq Versions /\ faults' \in 0..MaxFaults
      BY <1>16, FaultType DEF AcknowledgeUpdate
    <2>2. QED
      BY <1>16, <2>1 DEF AcknowledgeUpdate, Scripts, At, Go, AgentSteps
  <1>17. CASE ScriptChecks
    BY <1>17, UpdateAssumption DEF ScriptChecks, Fault, ExeFault, At, Go, On, Then, Over, Killed, States,
           Stage, NoState, Phases, Unverified, AgentSteps, ScriptSteps, Shape
  <1>18. CASE ScriptStops
    <2>1. faults' \in 0..MaxFaults
      BY <1>18, FaultType DEF ScriptStops
    <2>2. script' \in Scripts
      BY <1>18, ThenType DEF ScriptStops, ScriptSteps
    <2>3. loaded' \in BOOLEAN
      BY <1>18 DEF ScriptStops
    <2>4. AgentTypeOK'
      BY <1>18 DEF ScriptStops, Killed, States, AgentTypeOK
    <2>5. QED
      BY <1>18, <2>1, <2>2, <2>3, <2>4 DEF ScriptStops, Scripts, AgentTypeOK, At, Go, Killed
  <1>19. CASE ScriptMoves
    BY <1>19, UpdateAssumption DEF ScriptMoves, Fault, ExeFault, At, Go, On, Then, Over, Killed, States,
           Stage, NoState, Phases, Unverified, AgentSteps, ScriptSteps, Shape
  <1>20. CASE ScriptCopies
    BY <1>20, UpdateAssumption DEF ScriptCopies, Fault, ExeFault, At, Go, On, Then, Over, Killed, States,
           Stage, NoState, Phases, Unverified, AgentSteps, ScriptSteps, Shape
  <1>21. CASE ScriptUnmarks
    BY <1>21, UpdateAssumption DEF ScriptUnmarks, Fault, ExeFault, At, Go, On, Then, Over, Killed, States,
           Stage, NoState, Phases, Unverified, AgentSteps, ScriptSteps, Shape
  <1>22. CASE ScriptStarts
    BY <1>22, UpdateAssumption DEF ScriptStarts, Fault, ExeFault, At, Go, On, Then, Over, Killed, States,
           Stage, NoState, Phases, Unverified, AgentSteps, ScriptSteps, Shape
  <1>23. CASE AwaitMarker
    BY <1>23, UpdateAssumption DEF AwaitMarker, Fault, ExeFault, At, Go, On, Then, Over, Killed, States,
           Stage, NoState, Phases, Unverified, AgentSteps, ScriptSteps, Shape
  <1>24. CASE StampRead
    <2>1. script' \in Scripts
      BY <1>24, ThenType, OverType DEF StampRead, ScriptSteps, Ends
    <2>2. QED
      BY <1>24, <2>1 DEF StampRead, Scripts, AgentTypeOK, At, Go, Killed
  <1>25. CASE StampWrite
    <2>1. faults' \in 0..MaxFaults
      BY <1>25, FaultType DEF StampWrite
    <2>2. script' \in Scripts
      BY <1>25, OverType DEF StampWrite, Ends
    <2>3. \A ph \in Phases : [copy EXCEPT !.phase = ph] \in States
      BY <1>25 DEF StampWrite, Shape, States
    <2>4. file' \in States /\ copy' \in States
      BY <1>25, <2>3 DEF StampWrite, Phases, States
    <2>5. QED
      BY <1>25, <2>1, <2>2, <2>3, <2>4 DEF StampWrite, Scripts, AgentTypeOK, At, Go, Killed
  <1>26. CASE FailPreswap
    <2>1. faults' \in 0..MaxFaults
      BY <1>26, FaultType DEF FailPreswap
    <2>2. script' \in Scripts
      BY <1>26, OverType DEF FailPreswap, Ends
    <2>3. loaded' \in BOOLEAN
      BY <1>26 DEF FailPreswap
    <2>4. QED
      BY <1>26, <2>1, <2>2, <2>3 DEF FailPreswap, Scripts, AgentTypeOK, At, Go, Killed
  <1>27. CASE FailRollback
    <2>1. faults' \in 0..MaxFaults
      BY <1>27, FaultType DEF FailRollback
    <2>2. script' \in Scripts
      BY <1>27, ThenType, OverType DEF FailRollback, ScriptSteps, Ends
    <2>3. loaded' \in BOOLEAN
      BY <1>27 DEF FailRollback
    <2>4. AgentTypeOK'
      BY <1>27 DEF FailRollback, Killed, States, AgentTypeOK
    <2>5. QED
      BY <1>27, <2>1, <2>2, <2>3, <2>4 DEF FailRollback, Scripts, AgentTypeOK, At, Go, Killed
  <1>28. CASE RestoreReserve
    <2>1. faults' \in 0..MaxFaults
      BY <1>28, FaultType DEF RestoreReserve
    <2>2. script' \in Scripts
      BY <1>28, ThenType, OverType DEF RestoreReserve, ScriptSteps, Ends
    <2>3. loaded' \in BOOLEAN
      BY <1>28 DEF RestoreReserve
    <2>4. exe' \in Versions \cup {None}
      BY <1>28 DEF RestoreReserve, RestoreSource
    <2>5. QED
      BY <1>28, <2>1, <2>2, <2>3, <2>4 DEF RestoreReserve, Scripts, AgentTypeOK, At, Go, Killed
  <1>29. CASE RestartService
    <2>1. faults' \in 0..MaxFaults
      BY <1>29, FaultType DEF RestartService
    <2>2. script' \in Scripts
      BY <1>29, ThenType, OverType DEF RestartService, ScriptSteps, Ends
    <2>3. loaded' \in BOOLEAN
      BY <1>29 DEF RestartService
    <2>4. QED
      BY <1>29, <2>1, <2>2, <2>3 DEF RestartService, Scripts, AgentTypeOK, At, Go, Killed
  <1>30. CASE PublishUpdate
    <2>1. asks' \in 0..MaxAsks
      BY <1>30, UpdateAssumption DEF PublishUpdate
    <2>2. queue' \subseteq Versions
      BY <1>30 DEF PublishUpdate
    <2>3. QED
      BY <1>30, <2>1, <2>2 DEF PublishUpdate, Scripts, AgentTypeOK, At, Go, Killed
  <1>31. CASE Crash
    BY <1>31, UpdateAssumption DEF Crash, Fault, ExeFault, At, Go, On, Then, Over, Killed, States,
           Stage, NoState, Phases, Unverified, AgentSteps, ScriptSteps, Shape
  <1>32. CASE PowerLoss
    <2>1. faults' \in 0..MaxFaults
      BY <1>32, FaultType DEF PowerLoss
    <2>2. script' \in Scripts
      BY <1>32 DEF PowerLoss, Scripts, ScriptSteps, Ends
    <2>3. AgentTypeOK'
      BY <1>32 DEF PowerLoss, Killed, States, AgentTypeOK
    <2>4. copy' \in States /\ loaded' \in BOOLEAN /\ exe' \in Versions \cup {None}
      BY <1>32 DEF PowerLoss, States
    <2>5. QED
      BY <1>32, <2>1, <2>2, <2>3, <2>4 DEF PowerLoss, Scripts, AgentTypeOK, At, Go, Killed
  <1>33. CASE UNCHANGED vars
    BY <1>33 DEF vars
  <1>34. QED
    BY <1>1, <1>2, <1>3, <1>4, <1>5, <1>6, <1>7, <1>8, <1>9, <1>10, <1>11, <1>12,
       <1>13, <1>14, <1>15, <1>16, <1>17, <1>18, <1>19, <1>20, <1>21, <1>22, <1>23,
       <1>24, <1>25, <1>26, <1>27, <1>28, <1>29, <1>30, <1>31, <1>32, <1>33 DEF Next,
       AgentStep, ScriptStep

-----------------------------------------------------------------------------
(* The invariant is preserved *)

LEMMA ShapeStep ==
  ASSUME TypeOK, Shape, [Next]_vars
  PROVE  Shape'
  <1> USE UpdateAssumption DEF TypeOK, Shape, disk, agent, history, Fault, ExeFault, At, Go, On,
              Then, Over, Killed, Stage, NoState, Launched
  <1>1. CASE Boot
    BY <1>1 DEF Boot
  <1>2. CASE WriteBootMarker
    BY <1>2 DEF WriteBootMarker
  <1>3. CASE SeedIfMissing
    BY <1>3 DEF SeedIfMissing
  <1>4. CASE SeedAnchor
    BY <1>4 DEF SeedAnchor
  <1>5. CASE RecordBootAttempt
    BY <1>5 DEF RecordBootAttempt
  <1>6. CASE SaveBootAttempt
    BY <1>6 DEF SaveBootAttempt
  <1>7. CASE LaunchReserveRollback
    BY <1>7 DEF LaunchReserveRollback
  <1>8. CASE Connect
    BY <1>8 DEF Connect
  <1>9. CASE HandlePendingUpdate
    BY <1>9 DEF HandlePendingUpdate
  <1>10. CASE PromoteReserve
    BY <1>10 DEF PromoteReserve
  <1>11. CASE PromoteAnchor
    BY <1>11 DEF PromoteAnchor
  <1>12. CASE ResolveUpdate
    BY <1>12 DEF ResolveUpdate
  <1>13. CASE ReceiveUpdate
    BY <1>13 DEF ReceiveUpdate, BeginUpdate
  <1>14. CASE Download
    BY <1>14 DEF Download
  <1>15. CASE LaunchUpdater
    BY <1>15 DEF LaunchUpdater
  <1>16. CASE AcknowledgeUpdate
    BY <1>16 DEF AcknowledgeUpdate
  <1>17. CASE ScriptChecks
    BY <1>17 DEF ScriptChecks
  <1>18. CASE ScriptStops
    BY <1>18 DEF ScriptStops
  <1>19. CASE ScriptMoves
    BY <1>19 DEF ScriptMoves
  <1>20. CASE ScriptCopies
    BY <1>20 DEF ScriptCopies
  <1>21. CASE ScriptUnmarks
    BY <1>21 DEF ScriptUnmarks
  <1>22. CASE ScriptStarts
    BY <1>22 DEF ScriptStarts
  <1>23. CASE AwaitMarker
    BY <1>23 DEF AwaitMarker
  <1>24. CASE StampRead
    BY <1>24 DEF StampRead
  <1>25. CASE StampWrite
    BY <1>25 DEF StampWrite
  <1>26. CASE FailPreswap
    BY <1>26 DEF FailPreswap
  <1>27. CASE FailRollback
    BY <1>27 DEF FailRollback
  <1>28. CASE RestoreReserve
    BY <1>28 DEF RestoreReserve
  <1>29. CASE RestartService
    BY <1>29 DEF RestartService
  <1>30. CASE PublishUpdate
    BY <1>30 DEF PublishUpdate
  <1>31. CASE Crash
    BY <1>31 DEF Crash
  <1>32. CASE PowerLoss
    BY <1>32 DEF PowerLoss
  <1>33. CASE UNCHANGED vars
    BY <1>33 DEF vars
  <1>34. QED
    BY <1>1, <1>2, <1>3, <1>4, <1>5, <1>6, <1>7, <1>8, <1>9, <1>10, <1>11, <1>12,
       <1>13, <1>14, <1>15, <1>16, <1>17, <1>18, <1>19, <1>20, <1>21, <1>22, <1>23,
       <1>24, <1>25, <1>26, <1>27, <1>28, <1>29, <1>30, <1>31, <1>32, <1>33 DEF Next,
       AgentStep, ScriptStep

LEMMA BinariesStep ==
  ASSUME TypeOK, Shape, Binaries, [Next]_vars
  PROVE  Binaries'
  <1> USE UpdateAssumption DEF TypeOK, Shape, Binaries, disk, agent, history, Fault, ExeFault, At, Go,
              On, Then, Over, Killed, Launched, RestoreSource
  <1>1. CASE Boot
    BY <1>1 DEF Boot
  <1>2. CASE WriteBootMarker
    BY <1>2 DEF WriteBootMarker
  <1>3. CASE SeedIfMissing
    BY <1>3 DEF SeedIfMissing
  <1>4. CASE SeedAnchor
    BY <1>4 DEF SeedAnchor
  <1>5. CASE RecordBootAttempt
    BY <1>5 DEF RecordBootAttempt
  <1>6. CASE SaveBootAttempt
    BY <1>6 DEF SaveBootAttempt
  <1>7. CASE LaunchReserveRollback
    BY <1>7 DEF LaunchReserveRollback
  <1>8. CASE Connect
    BY <1>8 DEF Connect
  <1>9. CASE HandlePendingUpdate
    BY <1>9 DEF HandlePendingUpdate
  <1>10. CASE PromoteReserve
    BY <1>10 DEF PromoteReserve
  <1>11. CASE PromoteAnchor
    BY <1>11 DEF PromoteAnchor
  <1>12. CASE ResolveUpdate
    BY <1>12 DEF ResolveUpdate
  <1>13. CASE ReceiveUpdate
    BY <1>13 DEF ReceiveUpdate, BeginUpdate
  <1>14. CASE Download
    BY <1>14 DEF Download
  <1>15. CASE LaunchUpdater
    BY <1>15 DEF LaunchUpdater
  <1>16. CASE AcknowledgeUpdate
    BY <1>16 DEF AcknowledgeUpdate
  <1>17. CASE ScriptChecks
    BY <1>17 DEF ScriptChecks
  <1>18. CASE ScriptStops
    BY <1>18 DEF ScriptStops
  <1>19. CASE ScriptMoves
    <2>1. /\ script.pc = "move" /\ script'.pc \in {"copy", "preswap"}
          /\ script'.pc = "copy" => prev' = exe /\ exe' = None
          /\ script'.pc = "preswap" => UNCHANGED <<exe, prev>>
          /\ UNCHANGED <<lkg, loaded, agent, started>>
      BY <1>19 DEF ScriptMoves
    <2>2. exe \in started /\ exe # None /\ pc = "down" /\ ~loaded
      BY <2>1 DEF None
    <2>3. QED
      BY <2>1, <2>2
  <1>20. CASE ScriptCopies
    BY <1>20 DEF ScriptCopies
  <1>21. CASE ScriptUnmarks
    BY <1>21 DEF ScriptUnmarks
  <1>22. CASE ScriptStarts
    BY <1>22 DEF ScriptStarts
  <1>23. CASE AwaitMarker
    BY <1>23 DEF AwaitMarker
  <1>24. CASE StampRead
    BY <1>24 DEF StampRead
  <1>25. CASE StampWrite
    BY <1>25 DEF StampWrite
  <1>26. CASE FailPreswap
    BY <1>26 DEF FailPreswap
  <1>27. CASE FailRollback
    BY <1>27 DEF FailRollback
  <1>28. CASE RestoreReserve
    BY <1>28 DEF RestoreReserve
  <1>29. CASE RestartService
    BY <1>29 DEF RestartService
  <1>30. CASE PublishUpdate
    BY <1>30 DEF PublishUpdate
  <1>31. CASE Crash
    BY <1>31 DEF Crash
  <1>32. CASE PowerLoss
    BY <1>32 DEF PowerLoss
  <1>33. CASE UNCHANGED vars
    BY <1>33 DEF vars
  <1>34. QED
    BY <1>1, <1>2, <1>3, <1>4, <1>5, <1>6, <1>7, <1>8, <1>9, <1>10, <1>11, <1>12,
       <1>13, <1>14, <1>15, <1>16, <1>17, <1>18, <1>19, <1>20, <1>21, <1>22, <1>23,
       <1>24, <1>25, <1>26, <1>27, <1>28, <1>29, <1>30, <1>31, <1>32, <1>33 DEF Next,
       AgentStep, ScriptStep

\* A version that is not refused may be promoted.
LEMMA ReceiveEffect ==
  ASSUME TypeOK, ReceiveUpdate
  PROVE  /\ pc = "online" /\ unguarded \subseteq unguarded'
         /\ UNCHANGED <<disk, version, script, copy>>
         /\ \/ UNCHANGED <<file, agent>>
            \/ /\ pc' \in {"download", "online"}
               /\ file'.target = held'.target /\ Allowed(held.target)'
  <1>1. PICK w \in queue :
          \/ UNCHANGED <<agent, file, unguarded>>
          \/ /\ w >= anchor /\ BeginUpdate(w)
             /\ unguarded' = IF anchor = None THEN unguarded \cup {w} ELSE unguarded
          \/ /\ file' = Stage(w, "preparing") /\ held' = Stage(w, "preparing")
             /\ pc' = "download" /\ UNCHANGED <<version, queue>>
             /\ unguarded' = unguarded \cup {w}
    BY DEF ReceiveUpdate
  <1>2. UNCHANGED disk /\ UNCHANGED script /\ UNCHANGED copy /\ pc = "online"
    BY DEF ReceiveUpdate, At
  <1>3. anchor' = anchor
    BY <1>2 DEF disk
  <1>4. CASE UNCHANGED <<agent, file, unguarded>>
    BY <1>2, <1>4 DEF agent
  <1>5. CASE /\ w >= anchor /\ BeginUpdate(w)
             /\ unguarded' = IF anchor = None THEN unguarded \cup {w} ELSE unguarded
    <2>1. /\ file'.target = w /\ held'.target = w /\ version' = version
          /\ pc' \in {"download", "online"}
      BY <1>5 DEF Stage, BeginUpdate
    <2>2. unguarded \subseteq unguarded' /\ (anchor = None => w \in unguarded')
      BY <1>5
    <2>3. Allowed(w)'
      BY <1>3, <1>5, <2>2 DEF Allowed
    <2>4. QED
      BY <1>2, <2>1, <2>2, <2>3 DEF Allowed
  <1>6. CASE /\ file' = Stage(w, "preparing") /\ held' = Stage(w, "preparing")
             /\ pc' = "download" /\ UNCHANGED <<version, queue>>
             /\ unguarded' = unguarded \cup {w}
    BY <1>2, <1>6 DEF Stage, Allowed
  <1>7. QED
    BY <1>1, <1>4, <1>5, <1>6

\* Counting a boot changes the state file to an empty one only, and reads what it will save.
LEMMA CountEffect ==
  ASSUME RecordBootAttempt
  PROVE  /\ pc = "count" /\ pc' \in {"give_up", "count_save", "connect"}
         /\ file' = file \/ file'.target = None
         /\ pc' = "count_save" => held'.target = file.target /\ file' = file
         /\ UNCHANGED <<version, disk, script, copy, history>>
  <1>1. /\ pc = "count" /\ UNCHANGED <<version, disk, script, copy, history>>
        /\ pc' \in {"give_up", "count_save", "connect"}
    BY DEF RecordBootAttempt, At
  <1>2. \/ /\ pc' = "count_save" => held'.target = file.target /\ file' = file
           /\ file' \in {NoState, file}
        \/ pc' = "connect" /\ UNCHANGED file
    <2>1. CASE pc' = "count_save"
      <3>1. /\ file' = IF file.phase \in Unverified /\ file.target # version /\ file.boots >= MaxBoots
                       THEN NoState ELSE file
            /\ file.phase \in Unverified /\ file.target # version /\ ~(file.boots >= MaxBoots)
            /\ held' = [file EXCEPT !.boots = @ + 1]
        BY <2>1 DEF RecordBootAttempt
      <3>2. file' = file /\ held'.target = file.target
        BY <3>1
      <3>3. QED
        BY <3>2
    <2>2. CASE pc' # "count_save"
      BY <2>2 DEF RecordBootAttempt
    <2>3. QED
      BY <2>1, <2>2
  <1>3. NoState.target = None
    BY DEF NoState
  <1>4. QED
    BY <1>1, <1>2, <1>3

LEMMA HeldStep ==
  ASSUME TypeOK, Shape, Overtaken, Held, [Next]_vars
  PROVE  Held'
  <1> USE UpdateAssumption DEF TypeOK, Shape, disk, agent, history, Fault, ExeFault, At, Go, On,
              Then, Over, Killed, Stage, NoState, Launched, RestoreSource, Allowed, Stamping, Held, Overtaken,
              Named, Unverified
  <1>1. CASE Boot
    BY <1>1 DEF Boot
  <1>2. CASE WriteBootMarker
    BY <1>2 DEF WriteBootMarker
  <1>3. CASE SeedIfMissing
    BY <1>3 DEF SeedIfMissing
  <1>4. CASE SeedAnchor
    BY <1>4 DEF SeedAnchor
  <1>5. CASE RecordBootAttempt
    BY <1>5, CountEffect
  <1>6. CASE SaveBootAttempt
    BY <1>6 DEF SaveBootAttempt
  <1>7. CASE LaunchReserveRollback
    BY <1>7 DEF LaunchReserveRollback
  <1>8. CASE Connect
    BY <1>8 DEF Connect
  <1>9. CASE HandlePendingUpdate
    BY <1>9 DEF HandlePendingUpdate
  <1>10. CASE PromoteReserve
    BY <1>10 DEF PromoteReserve
  <1>11. CASE PromoteAnchor
    BY <1>11 DEF PromoteAnchor
  <1>12. CASE ResolveUpdate
    BY <1>12 DEF ResolveUpdate
  <1>13. CASE ReceiveUpdate
    BY <1>13, ReceiveEffect
  <1>14. CASE Download
    BY <1>14 DEF Download
  <1>15. CASE LaunchUpdater
    BY <1>15 DEF LaunchUpdater
  <1>16. CASE AcknowledgeUpdate
    BY <1>16 DEF AcknowledgeUpdate
  <1>17. CASE ScriptChecks
    BY <1>17 DEF ScriptChecks
  <1>18. CASE ScriptStops
    BY <1>18 DEF ScriptStops
  <1>19. CASE ScriptMoves
    BY <1>19 DEF ScriptMoves
  <1>20. CASE ScriptCopies
    BY <1>20 DEF ScriptCopies
  <1>21. CASE ScriptUnmarks
    BY <1>21 DEF ScriptUnmarks
  <1>22. CASE ScriptStarts
    BY <1>22 DEF ScriptStarts
  <1>23. CASE AwaitMarker
    BY <1>23 DEF AwaitMarker
  <1>24. CASE StampRead
    BY <1>24 DEF StampRead
  <1>25. CASE StampWrite
    BY <1>25 DEF StampWrite
  <1>26. CASE FailPreswap
    BY <1>26 DEF FailPreswap
  <1>27. CASE FailRollback
    BY <1>27 DEF FailRollback
  <1>28. CASE RestoreReserve
    BY <1>28 DEF RestoreReserve
  <1>29. CASE RestartService
    BY <1>29 DEF RestartService
  <1>30. CASE PublishUpdate
    BY <1>30 DEF PublishUpdate
  <1>31. CASE Crash
    BY <1>31 DEF Crash
  <1>32. CASE PowerLoss
    BY <1>32 DEF PowerLoss
  <1>33. CASE UNCHANGED vars
    BY <1>33 DEF vars
  <1>34. QED
    BY <1>1, <1>2, <1>3, <1>4, <1>5, <1>6, <1>7, <1>8, <1>9, <1>10, <1>11, <1>12,
       <1>13, <1>14, <1>15, <1>16, <1>17, <1>18, <1>19, <1>20, <1>21, <1>22, <1>23,
       <1>24, <1>25, <1>26, <1>27, <1>28, <1>29, <1>30, <1>31, <1>32, <1>33 DEF Next,
       AgentStep, ScriptStep

LEMMA OvertakenStep ==
  ASSUME TypeOK, Shape, Held, Overtaken, [Next]_vars
  PROVE  Overtaken'
  <1> USE UpdateAssumption DEF TypeOK, Shape, disk, agent, history, Fault, ExeFault, At, Go, On,
              Then, Over, Killed, Stage, NoState, Launched, RestoreSource, Allowed, Stamping, Held,
              Overtaken, Named, Unverified
  <1> SUFFICES ASSUME NEW v \in Versions, Named(v)', ~Allowed(v)'
               PROVE  (/\ exe # v /\ version # v /\ lkg \notin {v, None}
                       /\ script.pc \in {"check", "stop", "move", "copy"} => script.target # v)'
    OBVIOUS
  <1> v \in Nat /\ v # None
    BY DEF None
  <1>1. CASE Boot
    BY <1>1 DEF Boot
  <1>2. CASE WriteBootMarker
    BY <1>2 DEF WriteBootMarker
  <1>3. CASE SeedIfMissing
    BY <1>3 DEF SeedIfMissing
  <1>4. CASE SeedAnchor
    <2>1. /\ anchor' = anchor \/ anchor' = version
          /\ anchor' # anchor /\ anchor # None => {version} \cup Pending \subseteq unguarded'
          /\ pc = "seed_anchor" /\ pc' # "count_save" /\ unguarded \subseteq unguarded'
          /\ UNCHANGED <<version, exe, lkg, file, script, copy>>
      BY <1>4 DEF SeedAnchor
    <2>2. Named(v) /\ v \in Pending
      BY <2>1 DEF Pending
    <2>3. ~Allowed(v)
      BY <2>1, <2>2
    <2>4. exe # v /\ version # v /\ lkg \notin {v, None}
          /\ (script.pc \in {"check", "stop", "move", "copy"} => script.target # v)
      BY <2>2, <2>3
    <2>5. QED
      BY <2>1, <2>4
  <1>5. CASE RecordBootAttempt
    <2>1. /\ file' = file \/ file'.target = None
          /\ pc' = "count_save" => held'.target = file.target
          /\ UNCHANGED <<version, disk, script, copy, history>>
      BY <1>5, CountEffect
    <2>2. Named(v) /\ ~Allowed(v)
      BY <2>1
    <2>3. exe # v /\ version # v /\ lkg \notin {v, None}
          /\ (script.pc \in {"check", "stop", "move", "copy"} => script.target # v)
      BY <2>2
    <2>4. QED
      BY <2>1, <2>3
  <1>6. CASE SaveBootAttempt
    BY <1>6 DEF SaveBootAttempt
  <1>7. CASE LaunchReserveRollback
    BY <1>7 DEF LaunchReserveRollback
  <1>8. CASE Connect
    BY <1>8 DEF Connect
  <1>9. CASE HandlePendingUpdate
    <2>1. /\ file' = file \/ file'.target = None
          /\ pc' # "count_save" /\ UNCHANGED <<version, disk, script, copy, history>>
      BY <1>9 DEF HandlePendingUpdate
    <2>2. Named(v) /\ ~Allowed(v)
      BY <2>1
    <2>3. exe # v /\ version # v /\ lkg \notin {v, None}
          /\ (script.pc \in {"check", "stop", "move", "copy"} => script.target # v)
      BY <2>2
    <2>4. QED
      BY <2>1, <2>3
  <1>10. CASE PromoteReserve
    BY <1>10 DEF PromoteReserve
  <1>11. CASE PromoteAnchor
    <2>1. /\ anchor' = anchor \/ anchor' = version
          /\ pc = "promote_anchor" /\ pc' # "count_save"
          /\ UNCHANGED <<version, exe, lkg, file, script, copy, history>>
      BY <1>11 DEF PromoteAnchor
    <2>2. Named(v)
      BY <2>1
    <2>3. CASE Allowed(v)
      <3>1. anchor' = version /\ v # version /\ version # None
        BY <2>1, <2>3 DEF None
      <3>2. CASE file.target = v
        <4>1. script.pc = "off" /\ exe = version /\ lkg = version
          BY <2>1, <3>1, <3>2
        <4>2. QED
          BY <2>1, <3>1, <4>1
      <3>3. CASE file.target # v
        <4>1. Stamping /\ copy.target # version
          BY <2>1, <2>2, <3>1, <3>3
        <4>2. exe = version /\ lkg = version
          BY <2>1, <4>1
        <4>3. QED
          BY <2>1, <3>1, <4>1, <4>2
      <3>4. QED
        BY <3>2, <3>3
    <2>4. CASE ~Allowed(v)
      <3>1. exe # v /\ version # v /\ lkg \notin {v, None}
            /\ (script.pc \in {"check", "stop", "move", "copy"} => script.target # v)
        BY <2>2, <2>4
      <3>2. QED
        BY <2>1, <3>1
    <2>5. QED
      BY <2>3, <2>4
  <1>12. CASE ResolveUpdate
    <2>1. /\ file' = file \/ file'.target = None
          /\ pc' # "count_save" /\ UNCHANGED <<version, disk, script, copy, history>>
      BY <1>12 DEF ResolveUpdate
    <2>2. Named(v) /\ ~Allowed(v)
      BY <2>1
    <2>3. exe # v /\ version # v /\ lkg \notin {v, None}
          /\ (script.pc \in {"check", "stop", "move", "copy"} => script.target # v)
      BY <2>2
    <2>4. QED
      BY <2>1, <2>3
  <1>13. CASE ReceiveUpdate
    <2>1. /\ file' = file \/ Allowed(file.target)'
          /\ pc = "online" /\ pc' \in {"online", "download"} /\ unguarded \subseteq unguarded'
          /\ UNCHANGED <<disk, version, script, copy>>
      BY <1>13, ReceiveEffect
    <2>2. Named(v) /\ ~Allowed(v)
      BY ONLY <2>1, Named(v)', ~Allowed(v)' DEF Named, Allowed, Stamping, disk
    <2>3. QED
      BY <2>1, <2>2
  <1>14. CASE Download
    <2>1. /\ file'.target \in {held.target, file.target, None} /\ pc = "download"
          /\ pc' # "count_save" /\ UNCHANGED <<version, disk, script, copy, history>>
      BY <1>14 DEF Download
    <2>0. ~Allowed(v) /\ Allowed(held.target)
      BY <2>1
    <2>2. Named(v) /\ ~Allowed(v)
      BY <2>1, <2>0
    <2>3. exe # v /\ version # v /\ lkg \notin {v, None}
          /\ (script.pc \in {"check", "stop", "move", "copy"} => script.target # v)
      BY <2>2
    <2>4. QED
      BY <2>1, <2>3
  <1>15. CASE LaunchUpdater
    <2>1. /\ file' = file \/ file'.target = None
          /\ pc = "launch" /\ pc' # "count_save"
          /\ script' = script \/ (script'.pc = "check" /\ script'.target = held.target)
          /\ UNCHANGED <<version, disk, copy, history>>
      BY <1>15 DEF LaunchUpdater
    <2>2. Named(v) /\ ~Allowed(v)
      BY <2>1
    <2>3. exe # v /\ version # v /\ lkg \notin {v, None}
          /\ (script.pc \in {"check", "stop", "move", "copy"} => script.target # v)
      BY <2>2
    <2>4. QED
      BY <2>1, <2>3
  <1>16. CASE AcknowledgeUpdate
    BY <1>16 DEF AcknowledgeUpdate
  <1>17. CASE ScriptChecks
    BY <1>17 DEF ScriptChecks
  <1>18. CASE ScriptStops
    <2>1. /\ script.pc = "stop" /\ script'.pc \in {"move", "preswap"} /\ script'.target = script.target
          /\ version' \in {version, None} /\ (pc' = "count_save" => pc = "count_save" /\ held' = held)
          /\ UNCHANGED <<disk, file, copy, history>>
      BY <1>18 DEF ScriptStops
    <2>2. Named(v) /\ ~Allowed(v)
      BY <2>1
    <2>3. exe # v /\ version # v /\ lkg \notin {v, None}
          /\ (script.pc \in {"check", "stop", "move", "copy"} => script.target # v)
      BY <2>2
    <2>4. QED
      BY <2>1, <2>3
  <1>19. CASE ScriptMoves
    <2>1. /\ script.pc = "move" /\ script'.pc \in {"copy", "preswap"} /\ script'.target = script.target
          /\ exe' \in {exe, None} /\ UNCHANGED <<lkg, anchor, file, agent, copy, history>>
      BY <1>19 DEF ScriptMoves
    <2>2. Named(v) /\ ~Allowed(v)
      BY <2>1
    <2>3. exe # v /\ version # v /\ lkg \notin {v, None}
          /\ (script.pc \in {"check", "stop", "move", "copy"} => script.target # v)
      BY <2>2
    <2>4. QED
      BY <2>1, <2>3
  <1>20. CASE ScriptCopies
    BY <1>20 DEF ScriptCopies
  <1>21. CASE ScriptUnmarks
    BY <1>21 DEF ScriptUnmarks
  <1>22. CASE ScriptStarts
    BY <1>22 DEF ScriptStarts
  <1>23. CASE AwaitMarker
    BY <1>23 DEF AwaitMarker
  <1>24. CASE StampRead
    BY <1>24 DEF StampRead
  <1>25. CASE StampWrite
    BY <1>25 DEF StampWrite
  <1>26. CASE FailPreswap
    BY <1>26 DEF FailPreswap
  <1>27. CASE FailRollback
    <2>1. /\ script.pc = "rollback" /\ script'.pc \in {"off", "restore"}
          /\ version' \in {version, None} /\ (pc' = "count_save" => pc = "count_save" /\ held' = held)
          /\ UNCHANGED <<disk, file, copy, history>>
      BY <1>27 DEF FailRollback
    <2>2. Named(v) /\ ~Allowed(v)
      BY <2>1
    <2>3. exe # v /\ version # v /\ lkg \notin {v, None}
          /\ (script.pc \in {"check", "stop", "move", "copy"} => script.target # v)
      BY <2>2
    <2>4. QED
      BY <2>1, <2>3
  <1>28. CASE RestoreReserve
    <2>1. /\ script.pc = "restore" /\ script'.pc \in {"off", "restart"}
          /\ exe' \in {exe, None} \/ exe' = IF lkg # None THEN lkg ELSE prev
          /\ UNCHANGED <<lkg, anchor, file, agent, copy, history>>
      BY <1>28 DEF RestoreReserve
    <2>2. Named(v) /\ ~Allowed(v)
      BY <2>1
    <2>3. exe # v /\ version # v /\ lkg \notin {v, None}
          /\ (script.pc \in {"check", "stop", "move", "copy"} => script.target # v)
      BY <2>2
    <2>4. QED
      BY <2>1, <2>3
  <1>29. CASE RestartService
    BY <1>29 DEF RestartService
  <1>30. CASE PublishUpdate
    BY <1>30 DEF PublishUpdate
  <1>31. CASE Crash
    <2>1. /\ version' = None /\ pc' = "down" /\ UNCHANGED <<disk, file, script, copy, history>>
      BY <1>31 DEF Crash
    <2>2. Named(v) /\ ~Allowed(v)
      BY <2>1
    <2>3. exe # v /\ version # v /\ lkg \notin {v, None}
          /\ (script.pc \in {"check", "stop", "move", "copy"} => script.target # v)
      BY <2>2
    <2>4. QED
      BY <2>1, <2>3
  <1>32. CASE PowerLoss
    <2>1. /\ version' = None /\ pc' = "down" /\ script'.pc = "off" /\ exe' \in {exe, None}
          /\ UNCHANGED <<lkg, anchor, file, history>>
      BY <1>32 DEF PowerLoss
    <2>2. Named(v) /\ ~Allowed(v)
      BY <2>1
    <2>3. exe # v /\ version # v /\ lkg \notin {v, None}
          /\ (script.pc \in {"check", "stop", "move", "copy"} => script.target # v)
      BY <2>2
    <2>4. QED
      BY <2>1, <2>3
  <1>33. CASE UNCHANGED vars
    BY <1>33 DEF vars
  <1>34. QED
    BY <1>1, <1>2, <1>3, <1>4, <1>5, <1>6, <1>7, <1>8, <1>9, <1>10, <1>11, <1>12,
       <1>13, <1>14, <1>15, <1>16, <1>17, <1>18, <1>19, <1>20, <1>21, <1>22, <1>23,
       <1>24, <1>25, <1>26, <1>27, <1>28, <1>29, <1>30, <1>31, <1>32, <1>33 DEF Next,
       AgentStep, ScriptStep

-----------------------------------------------------------------------------
(* Theorems *)

LEMMA FirstStarts == First \in Versions \ Broken
  <1>1. PICK v \in Versions \ (Broken \cup Flaky) : \A w \in Versions : v <= w
    BY UpdateAssumption
  <1>2. First \in Versions /\ \A w \in Versions : First <= w
    BY <1>1 DEF First
  <1>3. First = v
    BY <1>1, <1>2, UpdateAssumption
  <1>4. QED
    BY <1>1, <1>3

LEMMA InitHolds == Init => TypeOK /\ Shape /\ Binaries
  <1> SUFFICES ASSUME Init PROVE TypeOK /\ Shape /\ Binaries
    OBVIOUS
  <1> USE UpdateAssumption, FirstStarts DEF Init
  <1>1. TypeOK
    BY DEF TypeOK, States, Ends
  <1>2. Shape
    BY DEF Shape
  <1>3. Binaries
    BY DEF Binaries
  <1>4. QED
    BY <1>1, <1>2, <1>3

\* The update's files, the agent and the script keep their types: every state written
\* to update_state.json names a version and a phase, also the one the script stamps on a
\* copy of what it read, and the boot count stays within CRASH_LOOP_MAX_BOOT_ATTEMPTS.
THEOREM UpdateTypeCorrect == Spec => []TypeOK
  <1>1. TypeOK /\ Shape /\ [Next]_vars => TypeOK' /\ Shape'
    BY TypeStep, ShapeStep
  <1>2. QED
    BY <1>1, InitHolds, PTL DEF Spec

LEMMA InvariantHolds == Spec => [](TypeOK /\ Shape /\ Binaries)
  <1>1. TypeOK /\ Shape /\ Binaries /\ [Next]_vars => TypeOK' /\ Shape' /\ Binaries'
    BY TypeStep, ShapeStep, BinariesStep
  <1>2. QED
    BY <1>1, InitHolds, PTL DEF Spec

\* The reserve binary only ever holds a version that reached its boot marker, whatever
\* the updater script swaps under the agent that fills it (copy_running_to_reserve
\* copies the file at the executable's path, not the process that runs).
THEOREM ReserveAlwaysStarted == Spec => []ReserveStarted
  <1>1. Binaries => ReserveStarted
    BY DEF Binaries, ReserveStarted
  <1>2. QED
    BY <1>1, InvariantHolds, PTL

\* However often an update is cut short, by a failing step, a crash or a loss of power,
\* a binary that can start is on the disk (the script moves the old binary aside only
\* after it checked that there is one, and restores from what it kept).
THEOREM AlwaysRecoverable == Spec => []Recoverable
  <1>1. TypeOK /\ Shape /\ Binaries => Recoverable
    BY DEF Shape, Binaries, Recoverable
  <1>2. QED
    BY <1>1, InvariantHolds, PTL

LEMMA AnchorInit == Init => Held /\ Overtaken
  <1> SUFFICES ASSUME Init PROVE Held /\ Overtaken
    OBVIOUS
  <1>1. Held
    BY DEF Init, Held, Stamping
  <1>2. \A v \in Versions : ~Named(v)
    BY UpdateAssumption DEF Init, Named, Stamping, NoState, None
  <1>3. QED
    BY <1>1, <1>2 DEF Overtaken

\* The last-known-good anchor falls only to a version whose update no anchor was there, or
\* could be read, to refuse (or that ran, or was about to, when the anchor was written over
\* unread), for any number of updates, failing steps, crashes and losses of power: a
\* phase that the script stamps late (set_update_phase) may bring back the record of an
\* update that another one overtook, and then none of the binaries that can still come to
\* run is the one it names.
THEOREM AnchorFallsUnguardedOnly == Spec => AnchorNeverFalls
  <1>1. TypeOK /\ Shape /\ Held /\ Overtaken /\ [Next]_vars
          => TypeOK' /\ Shape' /\ Held' /\ Overtaken'
    BY TypeStep, ShapeStep, HeldStep, OvertakenStep
  <1>2. TypeOK /\ Held /\ [Next]_vars => [anchor' >= anchor \/ anchor' \in unguarded']_anchor
    <2> SUFFICES ASSUME TypeOK, Held, [Next]_vars, anchor' # anchor
                 PROVE  anchor' >= anchor \/ anchor' \in unguarded'
      OBVIOUS
    <2>1. anchor \in Nat /\ version \in Nat
      <3>1. anchor \in Versions \cup {None} /\ version \in Versions \cup {None}
        BY DEF TypeOK
      <3>0. Versions \subseteq Nat
        BY UpdateAssumption
      <3>2. QED
        BY <3>1, <3>0 DEF None
    <2>2. SeedAnchor \/ PromoteAnchor
      BY DEF Next, AgentStep, ScriptStep, vars, disk, Boot, WriteBootMarker, SeedIfMissing,
         RecordBootAttempt, SaveBootAttempt, LaunchReserveRollback, Connect,
         HandlePendingUpdate, PromoteReserve, ResolveUpdate, ReceiveUpdate, Download,
         LaunchUpdater, AcknowledgeUpdate, ScriptChecks, ScriptStops, ScriptMoves,
         ScriptCopies, ScriptUnmarks, ScriptStarts, AwaitMarker, StampRead, StampWrite,
         FailPreswap, FailRollback, RestoreReserve, RestartService, PublishUpdate, Crash,
         PowerLoss
    <2>3. CASE SeedAnchor
      BY <2>1, <2>3 DEF SeedAnchor, None
    <2>4. CASE PromoteAnchor
      BY <2>1, <2>4 DEF PromoteAnchor, At, Held, Allowed, history
    <2>5. QED
      BY <2>2, <2>3, <2>4
  <1>3. QED
    BY <1>1, <1>2, InitHolds, AnchorInit, PTL DEF Spec, AnchorNeverFalls
=============================================================================
