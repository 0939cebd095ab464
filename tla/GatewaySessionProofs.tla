------------------------ MODULE GatewaySessionProofs ------------------------
(***************************************************************************)
(* Theorems about the suspension and the self-uninstall of the agent, for  *)
(* all limits and every number of failures, restarts and turns of the      *)
(* gateway; and, from "The installation" on, about the installation and    *)
(* the registration that precede that session (AgentInstall), which shares *)
(* no variable with it.                                                    *)
(***************************************************************************)
EXTENDS GatewaySession, AgentInstall, TLAPS

Commands == {"StopTools", "RestartTools", "Uninstall"}

-----------------------------------------------------------------------------
(* The steps of the session, as the deactivation service sees them.        *)

\* A step that touches at most the fault counter, the probes' back-off, the
\* supervision of the tools, the spawns of the uninstaller and the callers that were
\* about to request it.
Aside ==
  /\ UNCHANGED <<up, phase, consecutive, goneSince, triggered, elapsed, commands,
                 shuttingDown, marker, history>>
  /\ due' \subseteq due /\ supervised' \in BOOLEAN /\ launched' \in BOOLEAN
  /\ backoff' \in 1..BackoffMax /\ attempts' \in 0..SpawnAttempts
  /\ faults' \in 0..MaxFaults

\* The whole of a restart of the agent, up to Boot.
Ends == up' = FALSE /\ NewProcess /\ faults' \in 0..MaxFaults
        /\ UNCHANGED <<launched, marker, goneFor, trusted>>

Starts == goneSince' = marker /\ up' = TRUE /\ ~up
          /\ UNCHANGED <<phase, consecutive, backoff, triggered, elapsed, due, commands,
                         attempts, launched, toolManager, marker, faults, history>>

LEMMA LowerType ==
  \A a, b \in Int : Lower(a, b) \in {a, b} /\ Lower(a, b) <= a /\ Lower(a, b) <= b
  BY DEF Lower

LEMMA FaultType ==
  ASSUME TypeOK, NEW happens \in BOOLEAN, Fault(happens)
  PROVE  faults' \in 0..MaxFaults
  BY LimitsAssumption DEF Fault, TypeOK

\* Every step of the agent and its surroundings is one of these.
LEMMA StepsOf ==
  ASSUME TypeOK, [Next]_vars
  PROVE  \/ Tick \/ ClockJumps \/ Ends \/ Starts \/ Aside
         \/ \E c \in Callers : record_gone(c) \/ (up /\ request_uninstall(c))
         \/ record_healthy
         \/ StopTools \/ RestartTools \/ Uninstall
  <1> USE DEF deactivationVars, process, toolManager, history
  <1>1. CASE UNCHANGED deactivationVars
    BY <1>1 DEF Aside, TypeOK
  <1>2. ASSUME NEW g, GatewayTurns(g) PROVE Aside
    BY <1>1, <1>2 DEF GatewayTurns, Aside, TypeOK
  <1>3. ASSUME NEW c \in Callers, NEW status, Answer(c, status) PROVE Aside
    BY <1>3 DEF Answer, Aside, TypeOK
  <1>4. ASSUME NEW c \in Callers, HandleReply(c)
        PROVE  record_gone(c) \/ record_healthy \/ Aside
    <2>1. on_gateway_status(c, wire[c])
      BY <1>4 DEF HandleReply
    <2>2. record_gone(c) \/ record_healthy \/ UNCHANGED deactivationVars
      BY <2>1 DEF on_gateway_status
    <2>3. QED
      BY <2>2 DEF Aside, TypeOK
  <1>5. ASSUME NEW c \in Callers, RequestUninstall(c)
        PROVE  up /\ request_uninstall(c)
    BY <1>5 DEF RequestUninstall
  <1>6. ASSUME NEW c \in Callers, SaveConfig(c) \/ SaveShared(c) PROVE Aside
    BY <1>6 DEF SaveConfig, SaveShared, Aside, TypeOK
  <1>7. ASSUME NEW c \in Callers, SaveFails(c) PROVE Aside
    BY <1>7, FaultType DEF SaveFails, Aside, TypeOK
  <1>8. ASSUME NEW c \in Callers, TimesOut(c) PROVE Aside
    BY <1>8, FaultType DEF TimesOut, Aside, TypeOK
  <1>9. ASSUME Crash PROVE Ends
    BY <1>9, FaultType DEF Crash, Ends, TypeOK
  <1>10. ASSUME Boot PROVE Starts
    BY <1>10 DEF Boot, Starts
  <1>11. ASSUME AuthSkipped \/ AuthAttempt \/ RefreshGo \/ NatsReauth PROVE Aside
    BY <1>11 DEF AuthSkipped, AuthAttempt, RefreshGo, NatsReauth, Aside, TypeOK
  <1>12. ASSUME RefreshWait PROVE Aside
    <2>1. Lower(backoff * 2, BackoffMax) \in 1..BackoffMax
      BY LimitsAssumption DEF Lower, TypeOK
    <2>2. QED
      BY <1>12, <2>1 DEF RefreshWait, next_probe_delay, Aside, TypeOK
  <1>13. ASSUME StartTools PROVE Aside
    BY <1>13 DEF StartTools, Aside, TypeOK
  <1>14. ASSUME ConnectionLost PROVE Aside
    BY <1>14, FaultType DEF ConnectionLost, Aside, TypeOK
  <1>15. ASSUME SpawnUninstaller PROVE Aside
    <2>1. PICK spawned \in BOOLEAN :
            /\ Fault(~spawned) /\ launched' = (launched \/ spawned)
            /\ attempts' = IF spawned THEN 0 ELSE attempts - 1
      BY <1>15 DEF SpawnUninstaller
    <2>2. faults' \in 0..MaxFaults
      BY <2>1, FaultType
    <2>3. attempts' \in 0..SpawnAttempts
      BY <1>15, <2>1, LimitsAssumption DEF SpawnUninstaller, TypeOK
    <2>4. launched' \in BOOLEAN
      BY <2>1 DEF TypeOK
    <2>5. QED
      BY <1>15, <2>2, <2>3, <2>4 DEF SpawnUninstaller, Aside, TypeOK
  <1>16. ASSUME Supervisor
         PROVE  StopTools \/ RestartTools \/ Uninstall \/ Aside
    BY <1>15, <1>16 DEF Supervisor
  <1>17. CASE UNCHANGED vars
    BY <1>1, <1>17 DEF vars
  <1>18. QED
    BY <1>2, <1>3, <1>4, <1>5, <1>6, <1>7, <1>8, <1>9, <1>10, <1>11, <1>12, <1>13, <1>14,
       <1>16, <1>17 DEF Next, Time, Jump

-----------------------------------------------------------------------------
(* Types *)

LEMMA AgeType ==
  ASSUME NEW a \in Ages, NEW by \in Nat
  PROVE  Older(a, by) \in Ages
  BY LimitsAssumption DEF Older, Lower, Ages, None

LEMMA TailType ==
  ASSUME TypeOK, NEW cmd, Takes(cmd)
  PROVE  /\ commands \in Seq(Commands) /\ commands # <<>> /\ commands[1] = cmd
         /\ Tail(commands) \in Seq(Commands) /\ Len(Tail(commands)) = Len(commands) - 1
         /\ \A i \in 1..(Len(commands) - 1) : Tail(commands)[i] = commands[i + 1]
  BY DEF TypeOK, Takes, Commands

LEMMA DeactivationTypeInit == DeactivationInit => TypeOK
  <1> SUFFICES ASSUME DeactivationInit PROVE TypeOK
    OBVIOUS
  <1> USE LimitsAssumption DEF DeactivationInit
  <1>1. goneSince \in Ages /\ marker \in Ages /\ goneFor \in Ages
    BY DEF Ages
  <1>2. commands \in Seq({"StopTools", "RestartTools", "Uninstall"})
    OBVIOUS
  <1>3. due \subseteq Callers /\ attempts \in 0..SpawnAttempts /\ faults \in 0..MaxFaults
        /\ backoff \in 1..BackoffMax /\ elapsed \in 0..Grace /\ consecutive \in Nat
    OBVIOUS
  <1>4. QED
    BY <1>1, <1>2, <1>3 DEF TypeOK

\* What record_gone does, for the caller and whether the marker could be saved.
LEMMA RecordGoneEffect ==
  ASSUME NEW c \in Callers, record_gone(c), TypeOK, ~triggered
  PROVE  LET since == IF goneSince = None THEN 0 ELSE goneSince
             ph == phase'
         IN /\ goneSince' = since
            /\ consecutive' = Lower(consecutive + 1, StopAfter)
            /\ marker' \in {marker, 0} /\ (marker' # marker => goneSince = None)
            /\ \/ /\ ~is_suspended /\ consecutive' >= StopAfter
                  /\ ph = "Suspended" /\ commands' = Append(commands, "StopTools")
               \/ /\ is_suspended \/ ~(consecutive' >= StopAfter)
                  /\ ph = phase /\ commands' = commands
            /\ due' = IF uninstall_due(ph, since) THEN due \cup {c} ELSE due
            /\ goneFor' = IF goneFor = None THEN 0 ELSE goneFor
            /\ backoff' \in {1, backoff}
            /\ faults' \in 0..MaxFaults
            /\ UNCHANGED <<up, triggered, elapsed, attempts, launched, toolManager,
                           trusted, reprieved>>
  <1> DEFINE first == goneSince = None
             since == IF first THEN 0 ELSE goneSince
             count == Lower(consecutive + 1, StopAfter)
             suspends == ~is_suspended /\ count >= StopAfter
             ph == IF suspends THEN "Suspended" ELSE phase
  <1>1. PICK saved \in BOOLEAN :
          /\ Fault(first /\ ~saved)
          /\ goneSince' = since
          /\ marker' = IF first /\ saved THEN 0 ELSE marker
          /\ consecutive' = count
          /\ phase' = ph
          /\ backoff' = IF suspends THEN 1 ELSE backoff
          /\ commands' = IF suspends THEN Append(commands, "StopTools") ELSE commands
          /\ due' = IF uninstall_due(ph, since) THEN due \cup {c} ELSE due
          /\ goneFor' = IF goneFor = None THEN 0 ELSE goneFor
          /\ UNCHANGED <<up, triggered, elapsed, attempts, launched, toolManager,
                         trusted, reprieved>>
    BY Zenon DEF record_gone
  <1>2. faults' \in 0..MaxFaults
    BY <1>1, FaultType
  <1> HIDE DEF since, count
  <1>3. QED
    BY <1>1, <1>2 DEF since, count

LEMMA RecordHealthyEffect ==
  ASSUME record_healthy, TypeOK, ~triggered
  PROVE  /\ consecutive' = 0 /\ goneSince' = None /\ backoff' = 1 /\ phase' = "Healthy"
         /\ marker' \in {marker, None} /\ trusted' \in BOOLEAN
         /\ trusted' => trusted /\ (goneSince # None => marker' = None)
         /\ commands' = IF is_suspended THEN Append(commands, "RestartTools") ELSE commands
         /\ goneFor' = None /\ reprieved' = (reprieved \/ due # {})
         /\ faults' \in 0..MaxFaults
         /\ UNCHANGED <<up, triggered, elapsed, due, attempts, launched, toolManager>>
  <1> DEFINE had_marker == goneSince # None /\ marker # None
  <1>1. PICK removed \in BOOLEAN :
          /\ Fault(had_marker /\ ~removed)
          /\ consecutive' = 0 /\ goneSince' = None /\ backoff' = 1
          /\ marker' = IF had_marker /\ removed THEN None ELSE marker
          /\ trusted' = (trusted /\ (had_marker => removed))
          /\ phase' = "Healthy"
          /\ commands' = IF is_suspended THEN Append(commands, "RestartTools")
                                         ELSE commands
          /\ goneFor' = None /\ reprieved' = (reprieved \/ due # {})
          /\ UNCHANGED <<up, triggered, elapsed, due, attempts, launched, toolManager>>
    BY Zenon DEF record_healthy
  <1>2. faults' \in 0..MaxFaults
    BY <1>1, FaultType
  <1>3. QED
    BY <1>1, <1>2 DEF TypeOK

LEMMA DeactivationTypeStep ==
  ASSUME TypeOK, [Next]_vars
  PROVE  TypeOK'
  <1> USE LimitsAssumption DEF process, toolManager, history
  <1>1. CASE Tick
    <2>1. elapsed' \in 0..Grace
      BY <1>1 DEF Tick, Lower, TypeOK
    <2>2. goneSince' \in Ages /\ marker' \in Ages /\ goneFor' \in Ages
      BY <1>1, AgeType DEF Tick, TypeOK
    <2>3. QED
      BY <1>1, <2>1, <2>2 DEF Tick, TypeOK
  <1>2. CASE ClockJumps
    <2>1. goneSince' \in Ages /\ marker' \in Ages
      BY <1>2, AgeType DEF ClockJumps, TypeOK
    <2>2. faults' \in 0..MaxFaults
      BY <1>2, FaultType DEF ClockJumps
    <2>3. QED
      BY <1>2, <2>1, <2>2 DEF ClockJumps, TypeOK
  <1>3. CASE Ends
    <2>1. commands' \in Seq({"StopTools", "RestartTools", "Uninstall"}) /\ due' \subseteq Callers
          /\ attempts' \in 0..SpawnAttempts /\ backoff' \in 1..BackoffMax
          /\ elapsed' \in 0..Grace /\ goneSince' \in Ages
      BY <1>3 DEF Ends, NewProcess, TypeOK
    <2>2. QED
      BY <1>3, <2>1 DEF Ends, NewProcess, TypeOK
  <1>4. CASE Starts
    BY <1>4 DEF Starts, TypeOK
  <1>5. CASE Aside
    BY <1>5 DEF Aside, TypeOK
  <1>6. ASSUME NEW c \in Callers, record_gone(c) PROVE TypeOK'
    <2>1. CASE triggered
      BY <1>6, <2>1 DEF record_gone, deactivationVars, TypeOK
    <2>2. CASE ~triggered
      <3>1. goneSince' \in Ages /\ marker' \in Ages /\ goneFor' \in Ages
        BY <1>6, <2>2, RecordGoneEffect DEF TypeOK, Ages, None
      <3>2. consecutive' \in Nat
        BY <1>6, <2>2, RecordGoneEffect DEF TypeOK, Lower
      <3>3. commands' \in Seq({"StopTools", "RestartTools", "Uninstall"})
        BY <1>6, <2>2, RecordGoneEffect DEF TypeOK
      <3>4. phase' \in {"Healthy", "Suspended"} /\ backoff' \in 1..BackoffMax
            /\ due' \subseteq Callers /\ faults' \in 0..MaxFaults
        BY <1>6, <2>2, RecordGoneEffect DEF TypeOK
      <3>5. UNCHANGED <<up, triggered, elapsed, attempts, launched, toolManager,
                        trusted, reprieved>>
        BY <1>6, <2>2, RecordGoneEffect
      <3>6. QED
        BY <3>1, <3>2, <3>3, <3>4, <3>5 DEF TypeOK
    <2>3. QED
      BY <2>1, <2>2
  <1>7. CASE record_healthy
    <2>1. CASE triggered
      BY <1>7, <2>1 DEF record_healthy, deactivationVars, TypeOK
    <2>2. CASE ~triggered
      <3>1. commands' \in Seq({"StopTools", "RestartTools", "Uninstall"})
        BY <1>7, <2>2, RecordHealthyEffect DEF TypeOK
      <3>2. reprieved' \in BOOLEAN /\ trusted' \in BOOLEAN
        BY <1>7, <2>2, RecordHealthyEffect DEF TypeOK
      <3>3. goneSince' \in Ages /\ marker' \in Ages /\ goneFor' \in Ages
            /\ consecutive' \in Nat /\ backoff' \in 1..BackoffMax
            /\ phase' \in {"Healthy", "Suspended"} /\ faults' \in 0..MaxFaults
        BY <1>7, <2>2, RecordHealthyEffect DEF TypeOK, Ages
      <3>4. UNCHANGED <<up, triggered, elapsed, due, attempts, launched, toolManager>>
        BY <1>7, <2>2, RecordHealthyEffect
      <3>5. QED
        BY <3>1, <3>2, <3>3, <3>4 DEF TypeOK
    <2>3. QED
      BY <2>1, <2>2
  <1>8. ASSUME NEW c \in Callers, request_uninstall(c) PROVE TypeOK'
    <2>1. commands' \in Seq({"StopTools", "RestartTools", "Uninstall"})
      BY <1>8 DEF request_uninstall, TypeOK
    <2>2. QED
      BY <1>8, <2>1 DEF request_uninstall, TypeOK
  <1>9. ASSUME StopTools \/ Uninstall PROVE TypeOK'
    <2>1. commands' \in Seq(Commands)
      BY <1>9, TailType DEF StopTools, Uninstall
    <2>2. attempts' \in 0..SpawnAttempts
      BY <1>9 DEF StopTools, Uninstall, TypeOK
    <2>3. shuttingDown' \in BOOLEAN /\ supervised' \in BOOLEAN
      BY <1>9, Zenon DEF StopTools, Uninstall, TypeOK
    <2>4. QED
      BY <1>9, <2>1, <2>2, <2>3 DEF StopTools, Uninstall, TypeOK, Commands
  <1>10. CASE RestartTools
    <2>1. faults' \in 0..MaxFaults /\ supervised' \in BOOLEAN
      BY <1>10, FaultType DEF RestartTools
    <2>2. commands' \in Seq(Commands)
      BY <1>10, TailType DEF RestartTools
    <2>3. QED
      BY <1>10, <2>1, <2>2 DEF RestartTools, TypeOK, Commands
  <1>11. QED
    BY <1>1, <1>2, <1>3, <1>4, <1>5, <1>6, <1>7, <1>8, <1>9, <1>10, StepsOf

-----------------------------------------------------------------------------
(* The tools follow the phase *)

\* LastOrder, of a queue and a flag.
Quiet(q, i, j) == \A k \in i..j : q[k] = "Uninstall"
SaysStop(q, flag) ==
  \/ \E i \in 1..Len(q) : q[i] = "StopTools" /\ Quiet(q, i + 1, Len(q))
  \/ flag /\ Quiet(q, 1, Len(q))

LEMMA LastOrderIs == LastOrder <=> SaysStop(commands, shuttingDown)
  BY DEF LastOrder, NoOrder, SaysStop, Quiet

LEMMA FollowsInit == DeactivationInit => ToolsFollowPhase
  BY DEF DeactivationInit, ToolsFollowPhase, LastOrder, NoOrder, is_suspended

\* A new order decides, whatever was queued before.
LEMMA FollowsAppend ==
  ASSUME NEW q \in Seq(Commands), NEW flag, NEW cmd \in {"StopTools", "RestartTools"}
  PROVE  SaysStop(Append(q, cmd), flag) <=> cmd = "StopTools"
  <1> DEFINE r == Append(q, cmd)
             n == Len(q)
  <1>1. n \in Nat /\ Len(r) = n + 1 /\ r[n + 1] = cmd
    BY DEF Commands
  <1> HIDE DEF n, r
  <1>2. ~Quiet(r, 1, n + 1)
    BY <1>1 DEF Quiet
  <1>3. CASE cmd = "StopTools"
    <2>1. Quiet(r, (n + 1) + 1, n + 1) /\ n + 1 \in 1..(n + 1)
      BY <1>1 DEF Quiet
    <2>2. SaysStop(r, flag)
      BY <1>1, <1>3, <2>1 DEF SaysStop
    <2>3. QED
      BY <1>3, <2>2 DEF r
  <1>4. CASE cmd = "RestartTools"
    <2>1. ASSUME NEW i \in 1..(n + 1), r[i] = "StopTools", Quiet(r, i + 1, n + 1)
          PROVE  FALSE
      BY <1>1, <1>4, <2>1 DEF Quiet
    <2>2. ~SaysStop(r, flag)
      BY <1>1, <1>2, <2>1 DEF SaysStop
    <2>3. QED
      BY <1>4, <2>2 DEF r
  <1>5. QED
    BY <1>3, <1>4

\* Uninstall is no order to the tools.
LEMMA FollowsUninstall ==
  ASSUME NEW q \in Seq(Commands), NEW flag
  PROVE  SaysStop(Append(q, "Uninstall"), flag) <=> SaysStop(q, flag)
  <1> DEFINE r == Append(q, "Uninstall")
             n == Len(q)
  <1>1. /\ n \in Nat /\ Len(r) = n + 1 /\ r[n + 1] = "Uninstall"
        /\ \A i \in 1..n : r[i] = q[i]
    BY DEF Commands
  <1> HIDE DEF r
  <1>2. \A i \in 1..(n + 1) : Quiet(r, i, n + 1) <=> Quiet(q, i, n)
    BY <1>1 DEF Quiet
  <1>3. SaysStop(r, flag) <=> \/ \E i \in 1..(n + 1) : r[i] = "StopTools" /\ Quiet(r, i + 1, n + 1)
                              \/ flag /\ Quiet(r, 1, n + 1)
    BY <1>1 DEF SaysStop
  <1>4. (\E i \in 1..(n + 1) : r[i] = "StopTools" /\ Quiet(r, i + 1, n + 1))
        <=> \E i \in 1..n : q[i] = "StopTools" /\ Quiet(q, i + 1, n)
    <2> HIDE DEF n
    <2>1. ASSUME NEW i \in 1..(n + 1), r[i] = "StopTools" PROVE i \in 1..n
      BY <1>1, <2>1
    <2>2. \A i \in 1..n : i + 1 \in 1..(n + 1)
      BY <1>1
    <2>3. QED
      BY <1>1, <1>2, <2>1, <2>2
  <1>5. Quiet(r, 1, n + 1) <=> Quiet(q, 1, n)
    BY <1>1, <1>2
  <1>6. QED
    BY <1>3, <1>4, <1>5 DEF SaysStop, r

\* Taking a command leaves the last of the orders behind it, if there is one.
LEMMA FollowsTail ==
  ASSUME NEW q \in Seq(Commands), q # <<>>, NEW flag, NEW flag2,
         \/ q[1] = "Uninstall" /\ flag2 = flag
         \/ q[1] = "StopTools" /\ flag2 = TRUE
         \/ q[1] = "RestartTools" /\ flag2 = FALSE
  PROVE  SaysStop(Tail(q), flag2) <=> SaysStop(q, flag)
  <1> DEFINE r == Tail(q)
             n == Len(q)
  <1>1. /\ n \in Nat \ {0} /\ Len(r) = n - 1
        /\ \A i \in 1..(n - 1) : r[i] = q[i + 1]
    BY DEF Commands
  <1> HIDE DEF n, r
  <1>2. \A i \in 1..n : Quiet(r, i, n - 1) <=> Quiet(q, i + 1, n)
    <2>1. TAKE i \in 1..n
    <2>2. ASSUME Quiet(r, i, n - 1), NEW k \in (i + 1)..n PROVE q[k] = "Uninstall"
      <3>1. k - 1 \in i..(n - 1) /\ k - 1 \in 1..(n - 1) /\ (k - 1) + 1 = k
        BY <1>1
      <3>2. QED
        BY <1>1, <2>2, <3>1 DEF Quiet
    <2>3. ASSUME Quiet(q, i + 1, n), NEW k \in i..(n - 1) PROVE r[k] = "Uninstall"
      BY <1>1, <2>3 DEF Quiet
    <2>4. QED
      BY <2>2, <2>3 DEF Quiet
  <1>3. (\E i \in 1..(n - 1) : r[i] = "StopTools" /\ Quiet(r, i + 1, n - 1))
        <=> \E i \in 2..n : q[i] = "StopTools" /\ Quiet(q, i + 1, n)
    <2>1. ASSUME NEW i \in 1..(n - 1), r[i] = "StopTools", Quiet(r, i + 1, n - 1)
          PROVE  i + 1 \in 2..n /\ q[i + 1] = "StopTools" /\ Quiet(q, (i + 1) + 1, n)
      <3>1. i + 1 \in 1..n
        BY <1>1
      <3>2. QED
        BY <1>1, <1>2, <2>1, <3>1
    <2>2. ASSUME NEW i \in 2..n, q[i] = "StopTools", Quiet(q, i + 1, n)
          PROVE  i - 1 \in 1..(n - 1) /\ r[i - 1] = "StopTools"
                 /\ Quiet(r, (i - 1) + 1, n - 1)
      <3>1. i - 1 \in 1..(n - 1) /\ i \in 1..n /\ (i - 1) + 1 = i
        BY <1>1
      <3>2. QED
        BY <1>1, <1>2, <2>2, <3>1
    <2>3. QED
      BY <2>1, <2>2, Zenon
  <1>4. Quiet(r, 1, n - 1) <=> Quiet(q, 2, n)
    BY <1>1, <1>2
  <1>5. Quiet(q, 1, n) <=> q[1] = "Uninstall" /\ Quiet(q, 2, n)
    BY <1>1 DEF Quiet
  <1>6. (\E i \in 1..n : q[i] = "StopTools" /\ Quiet(q, i + 1, n))
        <=> \/ q[1] = "StopTools" /\ Quiet(q, 2, n)
            \/ \E i \in 2..n : q[i] = "StopTools" /\ Quiet(q, i + 1, n)
    BY <1>1
  <1>7. Quiet(q, 2, n) => ~\E i \in 2..n : q[i] = "StopTools" /\ Quiet(q, i + 1, n)
    BY DEF Quiet
  <1>8. SaysStop(r, flag2) <=>
          \/ \E i \in 2..n : q[i] = "StopTools" /\ Quiet(q, i + 1, n)
          \/ flag2 /\ Quiet(q, 2, n)
    BY <1>1, <1>3, <1>4 DEF SaysStop
  <1>9. SaysStop(q, flag) <=>
          \/ q[1] = "StopTools" /\ Quiet(q, 2, n)
          \/ \E i \in 2..n : q[i] = "StopTools" /\ Quiet(q, i + 1, n)
          \/ flag /\ q[1] = "Uninstall" /\ Quiet(q, 2, n)
    BY <1>5, <1>6 DEF SaysStop, n
  <1>10. QED
    BY <1>8, <1>9 DEF r

LEMMA FollowsTake ==
  ASSUME TypeOK, NEW cmd, Takes(cmd), commands' = Tail(commands),
         \/ cmd = "Uninstall" /\ shuttingDown' = shuttingDown
         \/ cmd = "StopTools" /\ shuttingDown' = TRUE
         \/ cmd = "RestartTools" /\ shuttingDown' = FALSE
  PROVE  LastOrder' <=> LastOrder
  <1>1. commands \in Seq(Commands) /\ commands # <<>> /\ commands[1] = cmd
    BY TailType
  <1>2. SaysStop(Tail(commands), shuttingDown') <=> SaysStop(commands, shuttingDown)
    BY <1>1, FollowsTail
  <1>3. LastOrder' <=> SaysStop(commands', shuttingDown')
    BY DEF LastOrder, NoOrder, SaysStop, Quiet
  <1>4. QED
    BY <1>2, <1>3, LastOrderIs

LEMMA FollowsStep ==
  ASSUME TypeOK, ToolsFollowPhase, [Next]_vars
  PROVE  ToolsFollowPhase'
  <1> USE DEF toolManager, history, process, is_suspended
  <1>0. /\ LastOrder' <=> SaysStop(commands', shuttingDown')
        /\ LastOrder <=> SaysStop(commands, shuttingDown)
        /\ LastOrder <=> phase = "Suspended"
        /\ commands \in Seq(Commands)
    <2>1. LastOrder' <=> SaysStop(commands', shuttingDown')
      BY DEF LastOrder, NoOrder, SaysStop, Quiet
    <2>2. QED
      BY <2>1, LastOrderIs DEF ToolsFollowPhase, TypeOK, Commands
  <1>a. ASSUME UNCHANGED <<commands, shuttingDown, phase>> PROVE ToolsFollowPhase'
    BY <1>0, <1>a DEF ToolsFollowPhase
  <1>1. CASE Tick \/ ClockJumps \/ Starts \/ Aside
    BY <1>1, <1>a DEF Tick, ClockJumps, Starts, Aside
  <1>2. CASE Ends
    BY <1>2 DEF Ends, NewProcess, ToolsFollowPhase, LastOrder, NoOrder
  <1>3. ASSUME NEW c \in Callers, record_gone(c) PROVE ToolsFollowPhase'
    <2>1. CASE triggered
      BY <1>3, <2>1, <1>a DEF record_gone, deactivationVars
    <2>2. CASE ~triggered
      <3>1. CASE phase' = "Suspended" /\ commands' = Append(commands, "StopTools")
        BY <1>0, <3>1, FollowsAppend DEF ToolsFollowPhase
      <3>2. CASE phase' = phase /\ commands' = commands
        BY <1>3, <2>2, <3>2, <1>a, RecordGoneEffect
      <3>3. QED
        BY <1>3, <2>2, <3>1, <3>2, RecordGoneEffect
    <2>3. QED
      BY <2>1, <2>2
  <1>4. CASE record_healthy
    <2>1. CASE triggered
      BY <1>4, <2>1, <1>a DEF record_healthy, deactivationVars
    <2>2. CASE ~triggered
      <3>1. phase' = "Healthy" /\ UNCHANGED shuttingDown
            /\ commands' = IF is_suspended THEN Append(commands, "RestartTools") ELSE commands
        BY <1>4, <2>2, RecordHealthyEffect
      <3>2. CASE is_suspended
        BY <1>0, <3>1, <3>2, FollowsAppend DEF ToolsFollowPhase
      <3>3. CASE ~is_suspended
        BY <1>0, <3>1, <3>3 DEF ToolsFollowPhase
      <3>4. QED
        BY <3>2, <3>3
    <2>3. QED
      BY <2>1, <2>2
  <1>5. ASSUME NEW c \in Callers, request_uninstall(c) PROVE ToolsFollowPhase'
    <2>1. UNCHANGED <<shuttingDown, phase>>
          /\ commands' \in {commands, Append(commands, "Uninstall")}
      BY <1>5 DEF request_uninstall
    <2>2. CASE commands' = commands
      BY <2>1, <2>2, <1>a
    <2>3. CASE commands' = Append(commands, "Uninstall")
      BY <1>0, <2>1, <2>3, FollowsUninstall DEF ToolsFollowPhase
    <2>4. QED
      BY <2>1, <2>2, <2>3
  <1>6. CASE StopTools
    BY <1>6, FollowsTake DEF StopTools, ToolsFollowPhase
  <1>7. CASE RestartTools
    BY <1>7, FollowsTake DEF RestartTools, ToolsFollowPhase
  <1>8. CASE Uninstall
    BY <1>8, FollowsTake DEF Uninstall, ToolsFollowPhase
  <1>9. QED
    BY <1>1, <1>2, <1>3, <1>4, <1>5, <1>6, <1>7, <1>8, StepsOf

-----------------------------------------------------------------------------
(* The grounds for an uninstall *)

\* A suspended agent has counted its 410s in this process; the marker is the age the
\* service holds, unless it is gone; and as long as the clock and the marker can be
\* trusted that age is no more than the time for which every answer was 410.
Grounds ==
  /\ is_suspended => consecutive >= StopAfter
  /\ trusted => /\ marker \in {None, goneSince}
                /\ goneSince # None => goneFor # None /\ goneSince <= goneFor
FoundedInv == Grounds /\ FoundedUninstall

LEMMA FoundedInit == DeactivationInit => FoundedInv
  BY LimitsAssumption
     DEF DeactivationInit, FoundedInv, Grounds, FoundedUninstall, is_suspended, None

LEMMA OlderMonotone ==
  ASSUME NEW a \in Ages, NEW b \in Ages, a # None => b # None /\ a <= b
  PROVE  /\ (Older(a, 1) # None) <=> (a # None)
         /\ a # None => Older(b, 1) # None /\ Older(a, 1) <= Older(b, 1)
         /\ a = UninstallAfter => Older(a, 1) = UninstallAfter
  BY LimitsAssumption DEF Older, Lower, Ages, None

LEMMA GroundsStep ==
  ASSUME TypeOK, Grounds, [Next]_vars
  PROVE  Grounds'
  <1> USE LimitsAssumption DEF toolManager, history, process, is_suspended
  <1>1. CASE Tick
    <2>1. trusted /\ goneSince' # None => goneFor' # None /\ goneSince' <= goneFor'
      BY <1>1, OlderMonotone DEF Tick, Grounds, TypeOK
    <2>2. trusted => marker' \in {None, goneSince'}
      BY <1>1 DEF Tick, Grounds, Older
    <2>3. QED
      BY <1>1, <2>1, <2>2 DEF Tick, Grounds
  <1>2. CASE ClockJumps
    BY <1>2 DEF ClockJumps, Grounds
  <1>3. CASE Ends
    BY <1>3 DEF Ends, NewProcess, Grounds
  <1>4. CASE Starts
    BY <1>4 DEF Starts, Grounds
  <1>5. CASE Aside
    BY <1>5 DEF Aside, Grounds
  <1>6. ASSUME NEW c \in Callers, record_gone(c) PROVE Grounds'
    <2>1. CASE triggered
      BY <1>6, <2>1 DEF record_gone, deactivationVars, Grounds
    <2>2. CASE ~triggered
      <3>1. phase' = "Suspended" => consecutive' >= StopAfter
        BY <1>6, <2>2, RecordGoneEffect DEF Grounds, TypeOK, Lower
      <3>2. /\ goneSince' = IF goneSince = None THEN 0 ELSE goneSince
            /\ goneFor' = IF goneFor = None THEN 0 ELSE goneFor
            /\ marker' \in {marker, 0} /\ (marker' # marker => goneSince = None)
            /\ trusted' = trusted
        BY <1>6, <2>2, RecordGoneEffect
      <3>3. QED
        BY <3>1, <3>2 DEF Grounds, TypeOK, Ages, None
    <2>3. QED
      BY <2>1, <2>2
  <1>7. CASE record_healthy
    <2>1. CASE triggered
      BY <1>7, <2>1 DEF record_healthy, deactivationVars, Grounds
    <2>2. CASE ~triggered
      BY <1>7, <2>2, RecordHealthyEffect DEF Grounds
    <2>3. QED
      BY <2>1, <2>2
  <1>8. ASSUME NEW c \in Callers, request_uninstall(c) PROVE Grounds'
    BY <1>8 DEF request_uninstall, Grounds
  <1>9. ASSUME StopTools \/ RestartTools \/ Uninstall PROVE Grounds'
    BY <1>9 DEF StopTools, RestartTools, Uninstall, Grounds
  <1>10. QED
    BY <1>1, <1>2, <1>3, <1>4, <1>5, <1>6, <1>7, <1>8, <1>9, StepsOf

LEMMA FoundedStep ==
  ASSUME TypeOK, FoundedInv, [Next]_vars
  PROVE  FoundedInv'
  <1> USE LimitsAssumption DEF toolManager, history, process, is_suspended
  <1>1. Grounds' /\ Grounds
    BY GroundsStep DEF FoundedInv
  <1> SUFFICES FoundedUninstall'
    BY <1>1 DEF FoundedInv
  <1>2. FoundedUninstall
    BY DEF FoundedInv
  <1>3. CASE Tick
    <2>1. elapsed >= Grace => elapsed' >= Grace
      BY <1>3 DEF Tick, Lower, TypeOK
    <2>2. goneFor = UninstallAfter => goneFor' = UninstallAfter
      BY <1>3, OlderMonotone DEF Tick, TypeOK
    <2>3. QED
      BY <1>2, <1>3, <2>1, <2>2 DEF Tick, FoundedUninstall
  <1>4. CASE ClockJumps
    BY <1>2, <1>4 DEF ClockJumps, FoundedUninstall
  <1>5. CASE Ends
    BY <1>5 DEF Ends, NewProcess, FoundedUninstall
  <1>6. CASE Starts \/ Aside
    BY <1>2, <1>6 DEF Starts, Aside, FoundedUninstall
  <1>7. ASSUME NEW c \in Callers, record_gone(c) PROVE FoundedUninstall'
    <2>1. CASE triggered
      BY <1>2, <1>7, <2>1 DEF record_gone, deactivationVars, FoundedUninstall
    <2>2. CASE ~triggered
      <3>1. /\ goneSince' = IF goneSince = None THEN 0 ELSE goneSince
            /\ goneFor' = IF goneFor = None THEN 0 ELSE goneFor
            /\ due' = IF uninstall_due(phase', goneSince') THEN due \cup {c} ELSE due
            /\ UNCHANGED <<triggered, elapsed, trusted, reprieved>>
        BY <1>7, <2>2, RecordGoneEffect
      <3>2. phase = "Suspended" => phase' = "Suspended"
        BY <1>7, <2>2, RecordGoneEffect DEF TypeOK
      <3>3. CASE uninstall_due(phase', goneSince')
        <4>1. phase' = "Suspended" /\ elapsed' >= Grace /\ goneSince' >= UninstallAfter
              /\ goneSince' # None
          BY <3>1, <3>3 DEF uninstall_due
        <4>2. goneFor' \in Ages /\ goneSince' \in Ages
          BY <3>1 DEF TypeOK, Ages, None
        <4>3. trusted' => goneFor' = UninstallAfter
          BY <1>1, <4>1, <4>2 DEF Grounds, Ages, None
        <4>4. QED
          BY <1>1, <4>1, <4>3 DEF FoundedUninstall, Grounds
      <3>4. CASE ~uninstall_due(phase', goneSince')
        <4>1. goneFor = UninstallAfter => goneFor' = UninstallAfter
          BY <3>1 DEF None
        <4>2. QED
          BY <1>1, <1>2, <2>2, <3>1, <3>2, <3>4, <4>1 DEF FoundedUninstall, Grounds
      <3>5. QED
        BY <3>3, <3>4
    <2>3. QED
      BY <2>1, <2>2
  <1>8. CASE record_healthy
    <2>1. CASE triggered
      BY <1>2, <1>8, <2>1 DEF record_healthy, deactivationVars, FoundedUninstall
    <2>2. CASE ~triggered
      <3>1. reprieved' = (reprieved \/ due # {}) /\ UNCHANGED <<due, triggered>>
        BY <1>8, <2>2, RecordHealthyEffect
      <3>2. QED
        BY <2>2, <3>1 DEF FoundedUninstall
    <2>3. QED
      BY <2>1, <2>2
  <1>9. ASSUME NEW c \in Callers, request_uninstall(c) PROVE FoundedUninstall'
    BY <1>2, <1>9 DEF request_uninstall, FoundedUninstall
  <1>10. ASSUME StopTools \/ RestartTools \/ Uninstall PROVE FoundedUninstall'
    BY <1>2, <1>10 DEF StopTools, RestartTools, Uninstall, FoundedUninstall
  <1>11. QED
    BY <1>3, <1>4, <1>5, <1>6, <1>7, <1>8, <1>9, <1>10, StepsOf
-----------------------------------------------------------------------------
(* Theorems *)

\* The state of the deactivation service keeps its type: in particular no age passes
\* the deadline it is compared with, no probe waits longer than PROBE_BACKOFF_MAX, and
\* the supervisor's queue holds nothing but its three commands.
THEOREM SuspensionTypeCorrect == Spec => []TypeOK
  <1>1. Init => TypeOK
    BY DeactivationTypeInit DEF Init
  <1>2. TypeOK /\ [Next]_vars => TypeOK'
    BY DeactivationTypeStep
  <1>3. QED
    BY <1>1, <1>2, PTL DEF Spec

\* Whatever the order in which the two callers record their statuses and the supervisor
\* takes its commands, the tools end up stopped exactly when the agent is suspended
\* (record_gone and record_healthy send under the state lock, spawn_supervisor takes
\* one command at a time).
THEOREM ToolsAlwaysFollow == Spec => []ToolsFollowPhase
  <1>1. Init => ToolsFollowPhase
    BY FollowsInit DEF Init
  <1>2. TypeOK /\ ToolsFollowPhase /\ [Next]_vars => ToolsFollowPhase'
    BY FollowsStep
  <1>3. QED
    BY <1>1, <1>2, SuspensionTypeCorrect, PTL DEF Spec

\* The agent never decides to uninstall itself without the full count of 410s in this
\* process, the grace period behind it and, as long as the clock and the marker file
\* can be trusted, a whole UNINSTALL_AFTER of nothing but 410, across any number of
\* restarts (record_gone, uninstall_due, load_marker, remove_marker).
THEOREM UninstallFounded == Spec => []FoundedUninstall
  <1>1. Init => FoundedInv
    BY FoundedInit DEF Init
  <1>2. TypeOK /\ FoundedInv /\ [Next]_vars => FoundedInv'
    BY FoundedStep
  <1>3. FoundedInv => FoundedUninstall
    BY DEF FoundedInv
  <1>4. QED
    BY <1>1, <1>2, <1>3, SuspensionTypeCorrect, PTL DEF Spec

-----------------------------------------------------------------------------
(* The installation: its invariants *)

\* An agent that registers its machine again has it from the record.
Resumable == agent = "reinstall" => record \in Machines
TypeInv == InstallTypeOK /\ Resumable

\* The cases in which a successful installation may be without its binary.
Excepted == IF Windows THEN late ELSE bare

\* A removal is the child that the installer awaits, or the installation knows of it; only
\* Windows has a clean-up script.
Removals ==
  /\ child => installer = "await"
  /\ remover # "idle" => child \/ beside
  /\ ~Windows => script = "none"

\* The service and its binary stand for as long as nothing is being removed.
Standing ==
  /\ Removals
  /\ installer = "await" => ~installed
  /\ installer = "service" /\ ~inPlace /\ ~beside /\ ~Windows => binary
  /\ installed =>
       /\ remover = "idle" /\ service
       /\ script = "delete" => late
       /\ binary \/ Excepted
       /\ installer \in {"config", "copy"} => Excepted

\* Where the first machine of the device is, and what the agent's steps of a
\* registration may rely on: it is in the record, or the record is still to be written
\* from agent_config.json, and then nothing that wipes the directories has begun.
Recorded ==
  /\ record \in {NoMachine} \cup Machines /\ refused = {}
  /\ agentConfig \in {NoMachine, identity}
  /\ identity # NoMachine =>
       \/ record = identity
       \/ /\ record = NoMachine /\ agentConfig = identity
          /\ remover = "idle" /\ installer \notin {"remove", "await"}
  /\ agent = "fresh" => record = NoMachine /\ identity = NoMachine
  /\ agent = "reinstall" => record # NoMachine
  /\ agent = "persist" =>
       /\ reply \in Machines
       /\ record = reply \/ (record = NoMachine /\ identity = NoMachine)
  /\ agent = "save" => reply \in Machines /\ record = reply

KeepsRecord == excused \/ Recorded

-----------------------------------------------------------------------------
(* The installation: its steps *)

\* Every step keeps the types.
LEMMA InstallTypeStep ==
  ASSUME TypeInv, [InstallNext]_installVars
  PROVE  TypeInv'
  <1> USE InstallAssumption DEF Machines, NoMachine, Unreadable, InstallFault, files,
             backend, installHistory, AgentStates, TypeInv
  <1>1. CASE StartInstall /\ UNCHANGED platform
    <2>1. inPlace' \in BOOLEAN /\ beside' \in BOOLEAN
      BY <1>1 DEF StartInstall, InstallTypeOK
    <2>2. installs' \in 0..MaxInstalls /\ installer' \in {"backfill", "config"}
      BY <1>1 DEF StartInstall, InstallTypeOK
    <2>3. QED
      BY <1>1, <2>1, <2>2 DEF StartInstall, InstallTypeOK, Resumable
  <1>2. CASE Backfill /\ UNCHANGED platform
    BY <1>2 DEF Backfill, InstallTypeOK, Resumable
  <1>3. CASE LaunchRemoval /\ UNCHANGED platform
    BY <1>3 DEF LaunchRemoval, InstallTypeOK, Resumable
  <1>4. CASE AwaitRemoval /\ UNCHANGED platform
    BY <1>4 DEF AwaitRemoval, InstallTypeOK, Resumable
  <1>5. CASE BuildConfig /\ UNCHANGED platform
    BY <1>5 DEF BuildConfig, InstallTypeOK, Resumable
  <1>6. CASE CopyBinary /\ UNCHANGED platform
    <2>1. binary' \in BOOLEAN /\ onPath' \in BOOLEAN
      BY <1>6 DEF CopyBinary, InstallTypeOK, Windows
    <2>2. /\ installFaults' \in 0..MaxInstallFaults /\ installer' \in {"service", "idle"}
          /\ agent' \in {agent, "down"}
      BY <1>6 DEF CopyBinary, InstallTypeOK
    <2>3. QED
      BY <1>6, <2>1, <2>2 DEF CopyBinary, InstallTypeOK, Resumable
  <1>7. CASE InstallService /\ UNCHANGED platform
    <2>1. service' \in BOOLEAN /\ installed' \in BOOLEAN /\ late' \in BOOLEAN /\ bare' \in BOOLEAN
      BY <1>7 DEF InstallService, InstallTypeOK
    <2>2. agent' \in {agent, "start"}
      BY <1>7 DEF InstallService
    <2>3. installFaults' \in 0..MaxInstallFaults
      BY <1>7 DEF InstallService, InstallTypeOK
    <2>4. QED
      BY <1>7, <2>1, <2>2, <2>3 DEF InstallService, InstallTypeOK, Resumable
  <1>8. CASE StartRemoval /\ UNCHANGED platform
    <2>1. installFaults' \in 0..MaxInstallFaults
      BY <1>8 DEF StartRemoval, InstallTypeOK
    <2>2. remover' = "service" /\ {installed', excused'} \subseteq BOOLEAN
      BY <1>8 DEF StartRemoval, InstallTypeOK
    <2>3. QED
      BY <1>8, <2>1, <2>2 DEF StartRemoval, InstallTypeOK, Resumable
  <1>9. CASE RemoveService /\ UNCHANGED platform
    BY <1>9 DEF RemoveService, InstallTypeOK, Resumable
  <1>10. CASE RemoveDirectories /\ UNCHANGED platform
    BY <1>10 DEF RemoveDirectories, InstallTypeOK, Resumable
  <1>11. CASE RemoveBinary /\ UNCHANGED platform
    <2>1. binary' \in BOOLEAN /\ child' \in BOOLEAN
      BY <1>11 DEF RemoveBinary, InstallTypeOK
    <2>2. installFaults' \in 0..MaxInstallFaults /\ script' \in {"delete", script}
      BY <1>11 DEF RemoveBinary, InstallTypeOK
    <2>3. QED
      BY <1>11, <2>1, <2>2 DEF RemoveBinary, InstallTypeOK, Resumable
  <1>12. CASE ScriptDeletes /\ UNCHANGED platform
    BY <1>12 DEF ScriptDeletes, InstallTypeOK, Resumable
  <1>13. CASE ScriptPath /\ UNCHANGED platform
    BY <1>13 DEF ScriptPath, InstallTypeOK, Resumable
  <1>14. CASE AgentBoots /\ UNCHANGED platform
    BY <1>14 DEF AgentBoots, InstallTypeOK, Resumable
  <1>15. CASE AgentCrashes /\ UNCHANGED platform
    BY <1>15 DEF AgentCrashes, InstallTypeOK, Resumable
  <1>16. CASE ReadRecord /\ UNCHANGED platform
    BY <1>16 DEF ReadRecord, InstallTypeOK, Resumable
  <1>17. CASE RegisterFresh /\ UNCHANGED platform
    BY <1>17 DEF RegisterFresh, InstallTypeOK, Resumable
  <1>18. CASE RegisterAgain /\ UNCHANGED platform
    BY <1>18 DEF RegisterAgain, InstallTypeOK, Resumable
  <1>19. CASE PersistMachine /\ UNCHANGED platform
    <2>1. installFaults' \in 0..MaxInstallFaults /\ agent' = "save"
      BY <1>19 DEF PersistMachine, InstallTypeOK
    <2>2. record' \in {Unreadable} \cup 0..MaxMachines
      BY <1>19 DEF PersistMachine, InstallTypeOK
    <2>3. excused' \in BOOLEAN
      BY <1>19 DEF PersistMachine, InstallTypeOK
    <2>4. QED
      BY <1>19, <2>1, <2>2, <2>3 DEF PersistMachine, InstallTypeOK, Resumable
  <1>20. CASE SaveRegistration /\ UNCHANGED platform
    BY <1>20 DEF SaveRegistration, InstallTypeOK, Resumable
  <1>21. CASE FetchInitialKey /\ UNCHANGED platform
    BY <1>21 DEF FetchInitialKey, InstallTypeOK, Resumable
  <1>22. ASSUME NEW m \in Machines, SecretRefused(m), UNCHANGED platform
         PROVE  TypeInv'
    BY <1>22 DEF SecretRefused, InstallTypeOK, Resumable
  <1>23. CASE UNCHANGED installVars
    BY <1>23 DEF installVars, InstallTypeOK, Resumable
  <1>24. QED
    BY <1>1, <1>2, <1>3, <1>4, <1>5, <1>6, <1>7, <1>8, <1>9, <1>10, <1>11, <1>12, <1>13, <1>14,
       <1>15, <1>16, <1>17, <1>18, <1>19, <1>20, <1>21, <1>22, <1>23 DEF InstallNext

\* A removal withdraws the promise before it takes anything away.
LEMMA StandingStep ==
  ASSUME InstallTypeOK, Standing, [InstallNext]_installVars
  PROVE  Standing'
  <1> USE DEF Machines, NoMachine, Unreadable, InstallFault,
             files, backend, installHistory
  <1>1. CASE StartInstall /\ UNCHANGED platform
    BY <1>1 DEF StartInstall, Standing, Removals, Excepted, Windows, InstallTypeOK
  <1>2. CASE Backfill /\ UNCHANGED platform
    BY <1>2 DEF Backfill, Standing, Removals, Excepted, Windows, InstallTypeOK
  <1>3. CASE LaunchRemoval /\ UNCHANGED platform
    BY <1>3 DEF LaunchRemoval, Standing, Removals, Excepted, Windows, InstallTypeOK
  <1>4. CASE AwaitRemoval /\ UNCHANGED platform
    BY <1>4 DEF AwaitRemoval, Standing, Removals, Excepted, Windows, InstallTypeOK
  <1>5. CASE BuildConfig /\ UNCHANGED platform
    BY <1>5 DEF BuildConfig, Standing, Removals, Excepted, Windows, InstallTypeOK
  <1>6. CASE CopyBinary /\ UNCHANGED platform
    BY <1>6 DEF CopyBinary, Standing, Removals, Excepted, Windows, InstallTypeOK
  <1>7. CASE InstallService /\ UNCHANGED platform
    <2>0. PICK started \in BOOLEAN :
            /\ started /\ Windows => binary
            /\ service' \in {TRUE, started \/ service}
            /\ installed' = IF started THEN ~beside ELSE installed
            /\ late' = IF started THEN script # "none" ELSE late
            /\ bare' = IF started THEN inPlace ELSE bare
      BY <1>7 DEF InstallService
    <2>1. CASE started
      <3>0. /\ Windows => binary
            /\ service' = TRUE /\ installed' = ~beside
            /\ late' = (script # "none") /\ bare' = inPlace
        BY <2>0, <2>1
      <3>1. /\ Windows => binary
            /\ service' /\ installer = "service" /\ installer' = "idle"
        BY <1>7, <3>0 DEF InstallService, InstallTypeOK
      <3>2. Removals'
        BY <1>7 DEF InstallService, Standing, Removals, Windows
      <3>3. installed' => remover = "idle"
        BY <3>0, <3>1 DEF Standing, Removals
      <3>4. installed' => binary \/ (~Windows /\ bare')
        BY <3>0, <3>1 DEF Standing, InstallTypeOK
      <3>5. QED
        BY <1>7, <3>0, <3>1, <3>2, <3>3, <3>4 DEF InstallService, Standing, Excepted, Windows
    <2>2. CASE ~started
      <3>1. UNCHANGED <<late, bare, installed>> /\ service' \in {service, TRUE}
        BY <2>0, <2>2 DEF InstallTypeOK
      <3>2. QED
        BY <1>7, <3>1 DEF InstallService, Standing, Removals, Excepted, Windows, InstallTypeOK
    <2>3. QED
      BY <2>1, <2>2
  <1>8. CASE StartRemoval /\ UNCHANGED platform
    BY <1>8 DEF StartRemoval, Standing, Removals, Excepted, Windows, InstallTypeOK
  <1>9. CASE RemoveService /\ UNCHANGED platform
    BY <1>9 DEF RemoveService, Standing, Removals, Excepted, Windows, InstallTypeOK
  <1>10. CASE RemoveDirectories /\ UNCHANGED platform
    BY <1>10 DEF RemoveDirectories, Standing, Removals, Excepted, Windows, InstallTypeOK
  <1>11. CASE RemoveBinary /\ UNCHANGED platform
    BY <1>11 DEF RemoveBinary, Standing, Removals, Excepted, Windows, InstallTypeOK
  <1>12. CASE ScriptDeletes /\ UNCHANGED platform
    BY <1>12 DEF ScriptDeletes, Standing, Removals, Excepted, Windows, InstallTypeOK
  <1>13. CASE ScriptPath /\ UNCHANGED platform
    BY <1>13 DEF ScriptPath, Standing, Removals, Excepted, Windows, InstallTypeOK
  <1>14. CASE AgentBoots /\ UNCHANGED platform
    BY <1>14 DEF AgentBoots, Standing, Removals, Excepted, Windows, InstallTypeOK
  <1>15. CASE AgentCrashes /\ UNCHANGED platform
    BY <1>15 DEF AgentCrashes, Standing, Removals, Excepted, Windows, InstallTypeOK
  <1>16. CASE ReadRecord /\ UNCHANGED platform
    BY <1>16 DEF ReadRecord, Standing, Removals, Excepted, Windows, InstallTypeOK
  <1>17. CASE RegisterFresh /\ UNCHANGED platform
    BY <1>17 DEF RegisterFresh, Standing, Removals, Excepted, Windows, InstallTypeOK
  <1>18. CASE RegisterAgain /\ UNCHANGED platform
    BY <1>18 DEF RegisterAgain, Standing, Removals, Excepted, Windows, InstallTypeOK
  <1>19. CASE PersistMachine /\ UNCHANGED platform
    BY <1>19 DEF PersistMachine, Standing, Removals, Excepted, Windows, InstallTypeOK
  <1>20. CASE SaveRegistration /\ UNCHANGED platform
    BY <1>20 DEF SaveRegistration, Standing, Removals, Excepted, Windows, InstallTypeOK
  <1>21. CASE FetchInitialKey /\ UNCHANGED platform
    BY <1>21 DEF FetchInitialKey, Standing, Removals, Excepted, Windows, InstallTypeOK
  <1>22. ASSUME NEW m \in Machines, SecretRefused(m), UNCHANGED platform
         PROVE  Standing'
    BY <1>22 DEF SecretRefused, Standing, Removals, Excepted, Windows, InstallTypeOK
  <1>23. CASE UNCHANGED installVars
    BY <1>23 DEF installVars, Standing, Removals, Excepted, Windows, InstallTypeOK
  <1>24. QED
    BY <1>1, <1>2, <1>3, <1>4, <1>5, <1>6, <1>7, <1>8, <1>9, <1>10, <1>11, <1>12, <1>13, <1>14,
       <1>15, <1>16, <1>17, <1>18, <1>19, <1>20, <1>21, <1>22, <1>23 DEF InstallNext

\* The record is written before the directories are removed, and before the agent saves.
LEMMA RecordedStep ==
  ASSUME InstallTypeOK, KeepsRecord, [InstallNext]_installVars
  PROVE  KeepsRecord'
  <1> USE InstallAssumption DEF Machines, NoMachine, Unreadable, InstallFault, files,
             backend, installHistory
  <1>1. CASE StartInstall /\ UNCHANGED platform
    BY <1>1 DEF StartInstall, KeepsRecord, Recorded, InstallTypeOK
  <1>2. CASE Backfill /\ UNCHANGED platform
    BY <1>2 DEF Backfill, KeepsRecord, Recorded, InstallTypeOK
  <1>3. CASE LaunchRemoval /\ UNCHANGED platform
    BY <1>3 DEF LaunchRemoval, KeepsRecord, Recorded, InstallTypeOK
  <1>4. CASE AwaitRemoval /\ UNCHANGED platform
    BY <1>4 DEF AwaitRemoval, KeepsRecord, Recorded, InstallTypeOK
  <1>5. CASE BuildConfig /\ UNCHANGED platform
    BY <1>5 DEF BuildConfig, KeepsRecord, Recorded, InstallTypeOK
  <1>6. CASE CopyBinary /\ UNCHANGED platform
    BY <1>6 DEF CopyBinary, KeepsRecord, Recorded, InstallTypeOK
  <1>7. CASE InstallService /\ UNCHANGED platform
    BY <1>7 DEF InstallService, KeepsRecord, Recorded, InstallTypeOK
  <1>8. CASE StartRemoval /\ UNCHANGED platform
    BY <1>8 DEF StartRemoval, KeepsRecord, Recorded, InstallTypeOK
  <1>9. CASE RemoveService /\ UNCHANGED platform
    BY <1>9 DEF RemoveService, KeepsRecord, Recorded, InstallTypeOK
  <1>10. CASE RemoveDirectories /\ UNCHANGED platform
    BY <1>10 DEF RemoveDirectories, KeepsRecord, Recorded, InstallTypeOK
  <1>11. CASE RemoveBinary /\ UNCHANGED platform
    BY <1>11 DEF RemoveBinary, KeepsRecord, Recorded, InstallTypeOK
  <1>12. CASE ScriptDeletes /\ UNCHANGED platform
    BY <1>12 DEF ScriptDeletes, KeepsRecord, Recorded, InstallTypeOK
  <1>13. CASE ScriptPath /\ UNCHANGED platform
    BY <1>13 DEF ScriptPath, KeepsRecord, Recorded, InstallTypeOK
  <1>14. CASE AgentBoots /\ UNCHANGED platform
    BY <1>14 DEF AgentBoots, KeepsRecord, Recorded, InstallTypeOK
  <1>15. CASE AgentCrashes /\ UNCHANGED platform
    BY <1>15 DEF AgentCrashes, KeepsRecord, Recorded, InstallTypeOK
  <1>16. CASE ReadRecord /\ UNCHANGED platform
    <2>1. PICK readable \in BOOLEAN :
             /\ agent' = IF agentConfig # NoMachine THEN "registered"
                         ELSE IF readable /\ record \in Machines THEN "reinstall"
                         ELSE "fresh"
             /\ excused' = (excused \/ (agentConfig = NoMachine
                                        /\ record # NoMachine
                                        /\ ~(readable /\ record \in Machines)))
      BY <1>16 DEF ReadRecord
    <2>2. UNCHANGED <<record, refused, agentConfig, identity, remover, installer, reply>>
      BY <1>16 DEF ReadRecord
    <2>3. CASE excused'
      BY <2>3 DEF KeepsRecord
    <2>4. CASE ~excused'
      <3>1. Recorded /\ agent' \in {"registered", "reinstall", "fresh"}
        BY <2>1, <2>4 DEF KeepsRecord
      <3>2. agent' = "reinstall" => record \in Machines
        BY <2>1
      <3>3. agent' = "fresh" => agentConfig = NoMachine /\ record = NoMachine
        BY <2>1, <2>4
      <3>4. Recorded'
        BY <2>2, <3>1, <3>2, <3>3 DEF Recorded
      <3>5. QED
        BY <3>4 DEF KeepsRecord
    <2>5. QED
      BY <2>3, <2>4
  <1>17. CASE RegisterFresh /\ UNCHANGED platform
    BY <1>17 DEF RegisterFresh, KeepsRecord, Recorded, InstallTypeOK
  <1>18. CASE RegisterAgain /\ UNCHANGED platform
    BY <1>18 DEF RegisterAgain, KeepsRecord, Recorded, InstallTypeOK
  <1>19. CASE PersistMachine /\ UNCHANGED platform
    BY <1>19 DEF PersistMachine, KeepsRecord, Recorded, InstallTypeOK
  <1>20. CASE SaveRegistration /\ UNCHANGED platform
    BY <1>20 DEF SaveRegistration, KeepsRecord, Recorded, InstallTypeOK
  <1>21. CASE FetchInitialKey /\ UNCHANGED platform
    BY <1>21 DEF FetchInitialKey, KeepsRecord, Recorded, InstallTypeOK
  <1>22. ASSUME NEW m \in Machines, SecretRefused(m), UNCHANGED platform
         PROVE  KeepsRecord'
    BY <1>22 DEF SecretRefused, KeepsRecord, Recorded, InstallTypeOK
  <1>23. CASE UNCHANGED installVars
    BY <1>23 DEF installVars, KeepsRecord, Recorded, InstallTypeOK
  <1>24. QED
    BY <1>1, <1>2, <1>3, <1>4, <1>5, <1>6, <1>7, <1>8, <1>9, <1>10, <1>11, <1>12, <1>13, <1>14,
       <1>15, <1>16, <1>17, <1>18, <1>19, <1>20, <1>21, <1>22, <1>23 DEF InstallNext

-----------------------------------------------------------------------------
(* The installation: theorems *)

\* The installation keeps its type, for every number of installations, machines and
\* faults; an agent that registers its machine again always has one in the record.
THEOREM InstallTypeCorrect == InstallSpec => []InstallTypeOK
  <1>1. ASSUME InstallInit PROVE TypeInv
    <2> USE DEF Machines, NoMachine, Unreadable
    <2>1. service \in BOOLEAN /\ binary \in BOOLEAN /\ onPath \in BOOLEAN
      BY <1>1 DEF InstallInit
    <2>2. /\ config \in {"none", "keyless"}
          /\ {agentConfig, issued, identity} \subseteq {0, 1} /\ {record, reply} \subseteq {0}
      BY <1>1 DEF InstallInit
    <2>3. 1 \in 0..MaxMachines /\ 0 \in 0..MaxMachines /\ 0 \in 0..MaxInstalls
          /\ 0 \in 0..MaxInstallFaults
      BY InstallAssumption
    <2>4. QED
      BY <1>1, <2>1, <2>2, <2>3 DEF InstallInit, TypeInv, InstallTypeOK, Resumable,
         AgentStates
  <1>2. TypeInv /\ [InstallNext]_installVars => TypeInv'
    BY InstallTypeStep
  <1>3. TypeInv => InstallTypeOK
    BY DEF TypeInv
  <1>4. QED
    BY <1>1, <1>2, <1>3, PTL DEF InstallSpec

\* Whatever the installer, a child or a detached removal and the clean-up script do
\* in whatever order, an installation that reported success with no other removal beside
\* it has its service until the next removal begins, and its binary unless, on Windows, a
\* script was still to run then or, on macOS, the installation ran from the installed
\* binary (install, uninstall, windows_cleanup).
THEOREM InstallationStands == InstallSpec => []InstallStands
  <1>1. InstallInit => Standing
    BY DEF InstallInit, Standing, Removals
  <1>2. InstallTypeOK /\ Standing /\ [InstallNext]_installVars => Standing'
    BY StandingStep
  <1>3. Standing => InstallStands
    BY DEF Standing, Excepted, InstallStands
  <1>4. QED
    BY <1>1, <1>2, <1>3, InstallTypeCorrect, PTL DEF InstallSpec

\* A device is never given a second machine while its record was written and could be
\* read and the backend accepted its secret, across any number of removals,
\* installations, crashes and lost replies (register_agent, the backfill of install).
THEOREM MachineKept == InstallSpec => []IdentityKept
  <1>1. InstallInit => KeepsRecord
    BY InstallAssumption DEF InstallInit, KeepsRecord, Recorded, Machines,
       NoMachine
  <1>2. InstallTypeOK /\ KeepsRecord /\ [InstallNext]_installVars => KeepsRecord'
    BY RecordedStep
  <1>3. KeepsRecord => IdentityKept
    BY DEF KeepsRecord, Recorded, IdentityKept
  <1>4. QED
    BY <1>1, <1>2, <1>3, InstallTypeCorrect, PTL DEF InstallSpec
=============================================================================
