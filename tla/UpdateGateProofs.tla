-------------------------- MODULE UpdateGateProofs --------------------------
(***************************************************************************)
(* Theorems about the gate between the update of the agent and its tool    *)
(* operations, for any tools, any times that keep the order of             *)
(* GateAssumption, and any number of deliveries and failures.              *)
(***************************************************************************)
EXTENDS UpdateGate, TLAPS

-----------------------------------------------------------------------------
(* The inductive invariant *)

\* A parked handler looks again before its message is due again.
Parking ==
  \A m \in ToolMessages :
    parked[m] > 0 =>
      /\ parked[m] = 1 /\ sent[m].state # "new"
      /\ sent[m].state = "out" => sent[m].timer > wake[m]

\* The flag is as old as the updater script at most, which stops the service before the
\* flag lapses.
Stopping ==
  /\ client = "recheck" => age = 0
  /\ client = "launched" => script
  /\ script /\ ~excused => age # NotPending /\ age + left <= StopWithin

\* A copy of the client update message that is being handled, or put off, was delivered
\* over an open stream, and is settled only once the updater runs.
Handled ==
  /\ inbox \/ client # "idle" \/ deferred =>
       /\ sent["update"].state # "new"
       /\ ~excused => "client" \in bound
       /\ sent["update"].state = "acked" => script
  /\ sent["update"].state = "dead" => sent["update"].tries = MaxDeliver

\* An update that is put off comes again before the flag lapses.
PutOff ==
  deferred =>
    /\ client = "idle"
    /\ excused \/ script \/ sent["update"].tries = MaxDeliver
       \/ /\ age \in 0..AckWait
          /\ inbox \/ age + sent["update"].timer <= AckWait

\* A message that was never delivered has all its deliveries left.
Untried == \A m \in Messages : sent[m].state = "new" => sent[m].tries = 0

-----------------------------------------------------------------------------
(* Messages *)

Message == [state : {"new", "out", "acked", "dead"}, timer : 0..AckWait, tries : 0..MaxDeliver]

LEMMA Constants ==
  /\ AckWait \in Nat \ {0} /\ PendingTTL \in Nat \ {0} /\ ProgressEvery \in Nat \ {0}
  /\ StopWithin \in Nat \ {0} /\ MaxDeliver \in Nat \ {0} /\ MaxFaults \in Nat
  /\ ProgressEvery < AckWait /\ AckWait < PendingTTL /\ StopWithin < PendingTTL
  BY GateAssumption

\* A delivery concerns one message, and takes one of its deliveries.
LEMMA DeliveredEffect ==
  ASSUME TypeOK, Untried, NEW m \in Messages, Due(m), sent' = Delivered(m)
  PROVE  /\ sent' \in [Messages -> Message]
         /\ \A n \in Messages : n # m => sent'[n] = sent[n]
         /\ sent'[m].state = "out" /\ sent'[m].timer = AckWait
         /\ sent'[m].tries = sent[m].tries + 1
  <1>1. sent \in [Messages -> Message]
    BY DEF TypeOK, Message
  <1>2. sent[m].tries + 1 \in 0..MaxDeliver /\ AckWait \in 0..AckWait
    BY <1>1, Constants DEF Due, Untried, Message
  <1>3. QED
    BY <1>1, <1>2 DEF Delivered, Message

\* So does an ack, which keeps the number of deliveries.
LEMMA AckedEffect ==
  ASSUME TypeOK, NEW m \in Messages, sent' = Acked(m)
  PROVE  /\ sent' \in [Messages -> Message]
         /\ \A n \in Messages : n # m => sent'[n] = sent[n]
         /\ sent'[m] = sent[m] \/ (sent[m].state = "out" /\ sent'[m].state = "acked")
         /\ sent'[m].tries = sent[m].tries
  <1>1. sent \in [Messages -> Message]
    BY DEF TypeOK, Message
  <1>2. 0 \in 0..AckWait
    BY Constants
  <1>3. QED
    BY <1>1, <1>2 DEF Acked, Message

LEMMA LessEffect == \A n \in Nat : Less(n) \in 0..n /\ (n > 0 => Less(n) = n - 1) /\ (n = 0 => Less(n) = 0)
  BY DEF Less

\* A tick takes one off every timer that runs.
LEMMA TickEffect ==
  ASSUME TypeOK, Tick
  PROVE  /\ sent' \in [Messages -> Message]
         /\ \A n \in Messages : /\ sent'[n].state = sent[n].state /\ sent'[n].tries = sent[n].tries
                                /\ sent'[n].timer = Less(sent[n].timer)
  <1>1. sent \in [Messages -> Message]
    BY DEF TypeOK, Message
  <1>2. \A n \in Messages : Less(sent[n].timer) \in 0..AckWait
    BY <1>1, Constants, LessEffect DEF Message
  <1>3. sent' = [n \in Messages |-> [sent[n] EXCEPT !.timer = Less(@)]]
    BY DEF Tick
  <1>4. QED
    BY <1>1, <1>2, <1>3 DEF Message

\* What an action does to the messages.
SentResult ==
  /\ sent' \in [Messages -> Message]
  /\ \A n \in Messages : sent'[n].state = "new" => sent[n].state = "new" /\ sent'[n].tries = sent[n].tries
  /\ \A n \in Messages : sent'[n].tries >= sent[n].tries

LEMMA SentStep ==
  ASSUME TypeOK, Untried, [Next]_vars
  PROVE  SentResult
  <1> USE Constants DEF TypeOK, SentResult, Message
  <1>1. ASSUME NEW l \in Listeners, Provision(l) PROVE SentResult
    BY <1>1 DEF Provision, gate, update, history
  <1>2. ASSUME NEW l \in Listeners, StreamLost(l) PROVE SentResult
    BY <1>2 DEF StreamLost, gate, update, history
  <1>3. ASSUME NEW m \in Messages, Exhausted(m) PROVE SentResult
    BY <1>3 DEF Exhausted
  <1>4. ASSUME NEW m \in ToolMessages, HandleToolMessage(m) PROVE SentResult
    BY <1>4, DeliveredEffect DEF HandleToolMessage, Messages
  <1>5. ASSUME NEW m \in ToolMessages, Park(m) PROVE SentResult
    <2>1. UNCHANGED sent \/ sent' = [sent EXCEPT ![m].timer = AckWait]
      BY <1>5 DEF Park
    <2>2. AckWait \in 0..AckWait
      OBVIOUS
    <2>3. QED
      BY <2>1, <2>2
  <1>6. ASSUME NEW m \in ToolMessages, BeginOperation(m) PROVE SentResult
    BY <1>6 DEF BeginOperation, gate, update, history
  <1>7. ASSUME NEW m \in ToolMessages, EndOperation(m) PROVE SentResult
    <2>1. m \in Messages /\ (UNCHANGED sent \/ sent' = Acked(m))
      BY <1>7 DEF EndOperation, Settles, Messages
    <2>2. CASE UNCHANGED sent
      BY <2>2
    <2>3. CASE sent' = Acked(m)
      BY <2>1, <2>3, AckedEffect
    <2>4. QED
      BY <2>1, <2>2, <2>3
  <1>8. CASE ReceiveClientMessage
    BY <1>8, DeliveredEffect DEF ReceiveClientMessage, Messages
  <1>9. CASE BeginUpdate
    BY <1>9, AckedEffect DEF BeginUpdate, Settles, Messages
  <1>10. CASE DownloadUpdate
    BY <1>10 DEF DownloadUpdate, gate, update, history
  <1>11. CASE LaunchUpdate
    BY <1>11 DEF LaunchUpdate, gate, update, history
  <1>12. CASE AcknowledgeUpdate
    <2>1. UNCHANGED sent \/ sent' = Acked("update")
      BY <1>12 DEF AcknowledgeUpdate, Settles
    <2>2. QED
      BY <2>1, AckedEffect DEF Messages
  <1>13. CASE Restart
    BY <1>13 DEF Restart
  <1>14. CASE RefuseUpdate
    BY <1>14 DEF RefuseUpdate, gate, update, history
  <1>15. CASE Tick
    BY <1>15, TickEffect
  <1>16. CASE UNCHANGED vars
    BY <1>16 DEF vars, gate, update, history
  <1>17. QED
    BY <1>1, <1>2, <1>3, <1>4, <1>5, <1>6, <1>7, <1>8, <1>9, <1>10, <1>11, <1>12,
       <1>13, <1>14, <1>15, <1>16 DEF Next, ToolStep, ClientStep

-----------------------------------------------------------------------------
(* Types *)

FlagsTypeOK ==
  /\ bound \subseteq Listeners /\ inbox \in BOOLEAN /\ ops \subseteq ToolMessages
  /\ client \in {"idle", "download", "recheck", "launched"}
  /\ {refusable, script, updated, deferred, excused} \subseteq BOOLEAN

TimesTypeOK ==
  /\ age \in {NotPending} \cup 0..PendingTTL /\ faults \in 0..MaxFaults
  /\ wake \in [ToolMessages -> 0..ProgressEvery] /\ left \in 0..StopWithin

\* The handlers of a message are at most its deliveries.
Counted ==
  /\ parked \in [ToolMessages -> Nat] /\ gated \in [ToolMessages -> Nat]
  /\ \A m \in ToolMessages : parked[m] + gated[m] <= sent[m].tries

LEMMA FaultType ==
  ASSUME TypeOK, NEW happens \in BOOLEAN, Fault(happens)
  PROVE  faults' \in 0..MaxFaults
  BY Constants DEF TypeOK, Fault


LEMMA GateKept ==
  ASSUME TypeOK, Counted, SentResult, UNCHANGED <<parked, gated>>
  PROVE  Counted'
  <1>1. ASSUME NEW m \in ToolMessages PROVE parked[m] + gated[m] <= sent'[m].tries
    <2>1. parked[m] \in Nat /\ gated[m] \in Nat /\ parked[m] + gated[m] <= sent[m].tries
      BY DEF Counted
    <2>2. sent[m].tries \in Nat /\ sent'[m].tries \in Nat /\ sent'[m].tries >= sent[m].tries
      BY Constants DEF TypeOK, SentResult, Message, Messages
    <2>3. QED
      BY <2>1, <2>2
  <1>2. QED
    BY <1>1 DEF Counted

\* The flags stay Boolean.
LEMMA FlagsTypeStep ==
  ASSUME TypeOK, [Next]_vars
  PROVE  FlagsTypeOK'
  <1> USE DEF TypeOK, FlagsTypeOK
  <1>1. ASSUME NEW l \in Listeners, Provision(l) PROVE FlagsTypeOK'
    BY <1>1 DEF Provision, gate, update, history
  <1>2. ASSUME NEW l \in Listeners, StreamLost(l) PROVE FlagsTypeOK'
    BY <1>2 DEF StreamLost, gate, update, history
  <1>3. ASSUME NEW m \in Messages, Exhausted(m) PROVE FlagsTypeOK'
    BY <1>3 DEF Exhausted, gate, update, history
  <1>4. ASSUME NEW m \in ToolMessages, HandleToolMessage(m) PROVE FlagsTypeOK'
    BY <1>4 DEF HandleToolMessage, gate, update, history
  <1>5. ASSUME NEW m \in ToolMessages, Park(m) PROVE FlagsTypeOK'
    BY <1>5 DEF Park, gate, update, history
  <1>6. ASSUME NEW m \in ToolMessages, BeginOperation(m) PROVE FlagsTypeOK'
    BY <1>6 DEF BeginOperation, gate, update, history
  <1>7. ASSUME NEW m \in ToolMessages, EndOperation(m) PROVE FlagsTypeOK'
    BY <1>7 DEF EndOperation, gate, update, history
  <1>8. CASE ReceiveClientMessage
    BY <1>8 DEF ReceiveClientMessage, gate, update, history
  <1>9. CASE BeginUpdate
    BY <1>9 DEF BeginUpdate, gate, update, history
  <1>10. CASE DownloadUpdate
    BY <1>10 DEF DownloadUpdate, gate, update, history
  <1>11. CASE LaunchUpdate
    BY <1>11 DEF LaunchUpdate, gate, update, history
  <1>12. CASE AcknowledgeUpdate
    BY <1>12 DEF AcknowledgeUpdate, gate, update, history
  <1>13. CASE Restart
    BY <1>13 DEF Restart, gate, update, history
  <1>14. CASE RefuseUpdate
    BY <1>14 DEF RefuseUpdate, gate, update, history
  <1>15. CASE Tick
    BY <1>15 DEF Tick, gate, update, history
  <1>16. CASE UNCHANGED vars
    BY <1>16 DEF vars, gate, update, history
  <1>17. QED
    BY <1>1, <1>2, <1>3, <1>4, <1>5, <1>6, <1>7, <1>8, <1>9, <1>10, <1>11, <1>12,
       <1>13, <1>14, <1>15, <1>16 DEF Next, ToolStep, ClientStep
LEMMA TimesTypeStep ==
  ASSUME TypeOK, [Next]_vars
  PROVE  TimesTypeOK'
  <1> USE Constants DEF TypeOK, TimesTypeOK, NotPending
  <1>1. ASSUME NEW l \in Listeners, Provision(l) PROVE TimesTypeOK'
    BY <1>1 DEF Provision, gate, update, history
  <1>2. ASSUME NEW l \in Listeners, StreamLost(l) PROVE TimesTypeOK'
    BY <1>2, FaultType DEF StreamLost, gate, update, history
  <1>3. ASSUME NEW m \in Messages, Exhausted(m) PROVE TimesTypeOK'
    BY <1>3 DEF Exhausted, gate, update, history
  <1>4. ASSUME NEW m \in ToolMessages, HandleToolMessage(m) PROVE TimesTypeOK'
    BY <1>4 DEF HandleToolMessage, gate, update, history
  <1>5. ASSUME NEW m \in ToolMessages, Park(m) PROVE TimesTypeOK'
    <2>1. faults' \in 0..MaxFaults
      BY <1>5, FaultType DEF Park
    <2>2. 0 \in 0..ProgressEvery /\ ProgressEvery \in 0..ProgressEvery
      OBVIOUS
    <2>3. wake' \in [ToolMessages -> 0..ProgressEvery]
      BY <1>5, <2>2 DEF Park
    <2>4. QED
      BY <1>5, <2>1, <2>3 DEF Park, update
  <1>6. ASSUME NEW m \in ToolMessages, BeginOperation(m) PROVE TimesTypeOK'
    BY <1>6 DEF BeginOperation, gate, update, history
  <1>7. ASSUME NEW m \in ToolMessages, EndOperation(m) PROVE TimesTypeOK'
    BY <1>7, FaultType DEF EndOperation, gate, update, history
  <1>8. CASE ReceiveClientMessage
    BY <1>8 DEF ReceiveClientMessage, gate, update, history
  <1>9. CASE BeginUpdate
    BY <1>9 DEF BeginUpdate, gate, update, history
  <1>10. CASE DownloadUpdate
    <2>1. faults' \in 0..MaxFaults
      BY <1>10, FaultType DEF DownloadUpdate
    <2>2. 0 \in 0..PendingTTL
      OBVIOUS
    <2>3. age' \in {0, age}
      BY <1>10 DEF DownloadUpdate
    <2>4. QED
      BY <1>10, <2>1, <2>2, <2>3 DEF DownloadUpdate, gate, update, history
  <1>11. CASE LaunchUpdate
    <2>1. faults' \in 0..MaxFaults
      BY <1>11, FaultType DEF LaunchUpdate
    <2>2. StopWithin \in 0..StopWithin
      OBVIOUS
    <2>3. left' \in {left, StopWithin}
      BY <1>11 DEF LaunchUpdate
    <2>4. QED
      BY <1>11, <2>1, <2>2, <2>3 DEF LaunchUpdate, gate, update, history
  <1>12. CASE AcknowledgeUpdate
    BY <1>12, FaultType DEF AcknowledgeUpdate, gate, update, history
  <1>13. CASE Restart
    <2>1. faults' \in 0..MaxFaults
      BY <1>13, FaultType DEF Restart
    <2>2. 0 \in 0..ProgressEvery /\ 0 \in 0..StopWithin
      OBVIOUS
    <2>3. wake' \in [ToolMessages -> 0..ProgressEvery]
      BY <1>13, <2>2 DEF Restart
    <2>4. age' \in {NotPending} \cup 0..PendingTTL /\ left' \in 0..StopWithin
      BY <1>13, <2>2 DEF Restart
    <2>5. QED
      BY <1>13, <2>1, <2>3, <2>4 DEF Restart
  <1>14. CASE RefuseUpdate
    BY <1>14 DEF RefuseUpdate, gate, update, history
  <1>15. CASE Tick
    <2>1. \A m \in ToolMessages : Less(wake[m]) \in 0..ProgressEvery
      BY LessEffect
    <2>2. Less(left) \in 0..StopWithin
      BY LessEffect
    <2>3. age' \in {NotPending} \cup 0..PendingTTL
      BY <1>15 DEF Tick
    <2>4. QED
      BY <1>15, <2>1, <2>2, <2>3 DEF Tick
  <1>16. CASE UNCHANGED vars
    BY <1>16 DEF vars, gate, update, history
  <1>17. QED
    BY <1>1, <1>2, <1>3, <1>4, <1>5, <1>6, <1>7, <1>8, <1>9, <1>10, <1>11, <1>12,
       <1>13, <1>14, <1>15, <1>16 DEF Next, ToolStep, ClientStep
\* A handler parks or passes the gate for a delivery of its own.
LEMMA CountedStep ==
  ASSUME TypeOK, Untried, Counted, [Next]_vars
  PROVE  Counted'
  <1> USE Constants DEF TypeOK, Counted, Messages
  <1>1. ASSUME NEW l \in Listeners, Provision(l) PROVE Counted'
    BY <1>1 DEF Provision, gate, update, history
  <1>2. ASSUME NEW l \in Listeners, StreamLost(l) PROVE Counted'
    BY <1>2 DEF StreamLost, gate, update, history
  <1>3. ASSUME NEW m \in Messages, Exhausted(m) PROVE Counted'
    BY <1>3 DEF Exhausted, gate, update, history
  <1>4. ASSUME NEW m \in ToolMessages, HandleToolMessage(m) PROVE Counted'
    <2>1. sent'[m].tries = sent[m].tries + 1 /\ \A n \in ToolMessages \ {m} : sent'[n] = sent[n]
      BY <1>4, DeliveredEffect DEF HandleToolMessage
    <2>2. sent[m].tries \in Nat
      OBVIOUS
    <2>3. CASE IsPending(age)
      BY <1>4, <2>1, <2>2, <2>3 DEF HandleToolMessage
    <2>4. CASE ~IsPending(age)
      BY <1>4, <2>1, <2>2, <2>4 DEF HandleToolMessage
    <2>5. QED
      BY <2>3, <2>4
  <1>5. ASSUME NEW m \in ToolMessages, Park(m) PROVE Counted'
    <2>1. parked[m] > 0 /\ \A n \in ToolMessages : sent'[n].tries = sent[n].tries
      BY <1>5 DEF Park
    <2>2. \/ parked' = [parked EXCEPT ![m] = @ - 1] /\ gated' \in {gated, [gated EXCEPT ![m] = @ + 1]}
          \/ parked' = [parked EXCEPT ![m] = @] /\ UNCHANGED gated
      <3>1. CASE IsPending(age)
        BY <1>5, <3>1 DEF Park
      <3>2. CASE ~IsPending(age)
        BY <1>5, <3>2 DEF Park
      <3>3. QED
        BY <3>1, <3>2
    <2>3. CASE parked' = [parked EXCEPT ![m] = @] /\ UNCHANGED gated
      BY <2>1, <2>3
    <2>4. CASE parked' = [parked EXCEPT ![m] = @ - 1] /\ gated' = gated
      BY <2>1, <2>4
    <2>5. CASE parked' = [parked EXCEPT ![m] = @ - 1] /\ gated' = [gated EXCEPT ![m] = @ + 1]
      BY <2>1, <2>5
    <2>6. QED
      BY <2>2, <2>3, <2>4, <2>5
  <1>6. ASSUME NEW m \in ToolMessages, BeginOperation(m) PROVE Counted'
    BY <1>6 DEF BeginOperation, gate, update, history
  <1>7. ASSUME NEW m \in ToolMessages, EndOperation(m) PROVE Counted'
    BY <1>7, GateKept, SentStep DEF EndOperation
  <1>8. CASE ReceiveClientMessage
    BY <1>8, GateKept, SentStep DEF ReceiveClientMessage, gate
  <1>9. CASE BeginUpdate
    BY <1>9, GateKept, SentStep DEF BeginUpdate, gate
  <1>10. CASE DownloadUpdate
    BY <1>10 DEF DownloadUpdate, gate, update, history
  <1>11. CASE LaunchUpdate
    BY <1>11 DEF LaunchUpdate, gate, update, history
  <1>12. CASE AcknowledgeUpdate
    BY <1>12, GateKept, SentStep DEF AcknowledgeUpdate, gate
  <1>13. CASE Restart
    BY <1>13 DEF Restart, gate, update, history
  <1>14. CASE RefuseUpdate
    BY <1>14 DEF RefuseUpdate, gate, update, history
  <1>15. CASE Tick
    BY <1>15, GateKept, SentStep DEF Tick
  <1>16. CASE UNCHANGED vars
    BY <1>16 DEF vars, gate, update, history
  <1>17. QED
    BY <1>1, <1>2, <1>3, <1>4, <1>5, <1>6, <1>7, <1>8, <1>9, <1>10, <1>11, <1>12,
       <1>13, <1>14, <1>15, <1>16 DEF Next, ToolStep, ClientStep

LEMMA TypeStep ==
  ASSUME TypeOK, Untried, Counted, [Next]_vars
  PROVE  TypeOK' /\ Untried'
  <1>1. SentResult /\ FlagsTypeOK' /\ TimesTypeOK' /\ Counted'
    BY SentStep, FlagsTypeStep, TimesTypeStep, CountedStep
  <1>2. \A m \in ToolMessages : sent'[m].tries \in 0..MaxDeliver
    BY <1>1 DEF SentResult, Message, Messages
  <1>3. ASSUME NEW m \in ToolMessages PROVE parked'[m] \in 0..MaxDeliver /\ gated'[m] \in 0..MaxDeliver
    <2>1. parked'[m] \in Nat /\ gated'[m] \in Nat /\ parked'[m] + gated'[m] <= sent'[m].tries
      BY <1>1 DEF Counted
    <2>2. QED
      BY <1>2, <2>1, Constants
  <1>4. parked' \in [ToolMessages -> 0..MaxDeliver] /\ gated' \in [ToolMessages -> 0..MaxDeliver]
    BY <1>1, <1>3 DEF Counted
  <1>5. TypeOK'
    BY <1>1, <1>4 DEF TypeOK, SentResult, Message, FlagsTypeOK, TimesTypeOK
  <1>6. Untried'
    BY <1>1 DEF SentResult, Untried
  <1>7. QED
    BY <1>5, <1>6

-----------------------------------------------------------------------------
(* The invariant is preserved *)

LEMMA TimersType ==
  ASSUME TypeOK, NEW m \in ToolMessages
  PROVE  /\ sent[m].timer \in Nat /\ wake[m] \in Nat /\ parked[m] \in Nat /\ m \in Messages
         /\ wake[m] <= ProgressEvery /\ m # "update" /\ sent \in [Messages -> Message]
         /\ sent["update"].timer \in 0..AckWait /\ "update" \in Messages
  BY Constants, GateAssumption DEF TypeOK, Messages, Message

\* A handler that waits is not disturbed by a step of another message.
Apart(n) == UNCHANGED <<sent[n], parked[n], wake[n]>>

LEMMA ParkingKept ==
  ASSUME Parking, NEW n \in ToolMessages, Apart(n)
  PROVE  parked'[n] > 0 => /\ parked'[n] = 1 /\ sent'[n].state # "new"
                           /\ sent'[n].state = "out" => sent'[n].timer > wake'[n]
  BY DEF Parking, Apart

LEMMA ParkingStep ==
  ASSUME TypeOK, Untried, Parking, [Next]_vars
  PROVE  Parking'
  <1> USE Constants
  <1>1. ASSUME NEW l \in Listeners, Provision(l) PROVE Parking'
    BY <1>1 DEF Provision, gate, update, history, Parking
  <1>2. ASSUME NEW l \in Listeners, StreamLost(l) PROVE Parking'
    BY <1>2 DEF StreamLost, gate, update, history, Parking
  <1>3. ASSUME NEW m \in Messages, Exhausted(m) PROVE Parking'
    BY <1>3, TimersType DEF Parking, Exhausted, gate
  <1>4. ASSUME NEW m \in ToolMessages, HandleToolMessage(m) PROVE Parking'
    <2>1. parked[m] = 0
      <3>1. (~(sent[m].state = "new") /\ (sent[m].state = "out" => sent[m].timer # 0)) \/ parked[m] = 0
        BY TimersType DEF Parking
      <3>2. QED
        BY <1>4, <3>1 DEF HandleToolMessage, Due
    <2>2. /\ \A n \in ToolMessages : n # m => Apart(n)
          /\ sent'[m].state = "out" /\ sent'[m].timer = AckWait /\ parked'[m] \in {0, 1}
          /\ parked'[m] = 1 => wake'[m] = 0
      BY <1>4, <2>1, DeliveredEffect, TimersType DEF HandleToolMessage, Apart, TypeOK
    <2>3. QED
      BY <2>2, ParkingKept, Constants DEF Parking
  <1>5. ASSUME NEW m \in ToolMessages, Park(m) PROVE Parking'
    <2>1. /\ \A n \in ToolMessages : n # m => Apart(n)
          /\ sent'[m].state = sent[m].state
      BY <1>5, TimersType DEF Park, Apart, TypeOK
    <2>2. \/ parked'[m] = parked[m] - 1
          \/ /\ parked'[m] = parked[m] /\ wake'[m] = ProgressEvery
             /\ sent[m].state = "out" => sent'[m].timer = AckWait
      <3>1. CASE IsPending(age)
        BY <1>5, <3>1, TimersType DEF Park, TypeOK
      <3>2. CASE ~IsPending(age)
        BY <1>5, <3>2, TimersType DEF Park, TypeOK
      <3>3. QED
        BY <3>1, <3>2
    <2>3. parked[m] = 1 /\ sent[m].state # "new"
      BY <1>5 DEF Park, Parking
    <2>4. QED
      BY <2>1, <2>2, <2>3, ParkingKept, Constants DEF Parking
  <1>6. ASSUME NEW m \in ToolMessages, BeginOperation(m) PROVE Parking'
    BY <1>6 DEF BeginOperation, gate, update, history, Parking
  <1>7. ASSUME NEW m \in ToolMessages, EndOperation(m) PROVE Parking'
    <2>1. sent' = sent \/ sent' = Acked(m)
      BY <1>7 DEF EndOperation, Settles
    <2>2. \A n \in ToolMessages : sent'[n] = sent[n] \/ sent'[n].state = "acked"
      BY <2>1, AckedEffect, TimersType
    <2>3. UNCHANGED <<parked, wake>>
      BY <1>7 DEF EndOperation
    <2>4. QED
      BY <2>2, <2>3 DEF Parking
  <1>8. CASE ReceiveClientMessage
    <2>1. UNCHANGED <<parked, wake>> /\ \A n \in ToolMessages : sent'[n] = sent[n]
      BY <1>8, DeliveredEffect, TimersType DEF ReceiveClientMessage, gate, Messages
    <2>2. QED
      BY <2>1 DEF Parking
  <1>9. CASE BeginUpdate
    <2>1. UNCHANGED <<parked, wake>> /\ \A n \in ToolMessages : sent'[n] = sent[n]
      BY <1>9, AckedEffect, TimersType DEF BeginUpdate, gate, Settles, Messages
    <2>2. QED
      BY <2>1 DEF Parking
  <1>10. CASE DownloadUpdate
    BY <1>10 DEF DownloadUpdate, gate, update, history, Parking
  <1>11. CASE LaunchUpdate
    BY <1>11 DEF LaunchUpdate, gate, update, history, Parking
  <1>12. CASE AcknowledgeUpdate
    <2>1. UNCHANGED <<parked, wake>> /\ \A n \in ToolMessages : sent'[n] = sent[n]
      BY <1>12, AckedEffect, TimersType DEF AcknowledgeUpdate, Settles, gate, Messages
    <2>2. QED
      BY <2>1 DEF Parking
  <1>13. CASE Restart
    BY <1>13 DEF Restart, Parking
  <1>14. CASE RefuseUpdate
    BY <1>14 DEF RefuseUpdate, gate, update, history, Parking
  <1>15. CASE Tick
    <2>1. UNCHANGED parked /\ wake' = [m \in ToolMessages |-> Less(wake[m])]
          /\ \A m \in ToolMessages : ~(parked[m] > 0 /\ wake[m] = 0)
      BY <1>15 DEF Tick, Urgent
    <2>2. ASSUME NEW n \in ToolMessages, parked[n] > 0
          PROVE  /\ parked[n] = 1 /\ sent'[n].state # "new"
                 /\ sent'[n].state = "out" => sent'[n].timer > wake'[n]
      <3>1. wake[n] > 0 /\ wake'[n] = wake[n] - 1
        BY <2>1, <2>2, TimersType, LessEffect
      <3>2. sent'[n].state = sent[n].state /\ sent'[n].timer = Less(sent[n].timer)
        BY <1>15, TickEffect, TimersType
      <3>3. QED
        BY <2>2, <3>1, <3>2, TimersType, LessEffect DEF Parking
    <2>3. QED
      BY <2>1, <2>2 DEF Parking
  <1>16. CASE UNCHANGED vars
    BY <1>16 DEF vars, gate, update, history, Parking
  <1>17. QED
    BY <1>1, <1>2, <1>3, <1>4, <1>5, <1>6, <1>7, <1>8, <1>9, <1>10, <1>11, <1>12,
       <1>13, <1>14, <1>15, <1>16 DEF Next, ToolStep, ClientStep
LEMMA StoppingStep ==
  ASSUME TypeOK, Stopping, [Next]_vars
  PROVE  Stopping'
  <1> USE Constants
  <1>1. ASSUME NEW l \in Listeners, Provision(l) PROVE Stopping'
    BY <1>1 DEF Provision, gate, update, history, Stopping, TypeOK, NotPending
  <1>2. ASSUME NEW l \in Listeners, StreamLost(l) PROVE Stopping'
    BY <1>2 DEF StreamLost, gate, update, history, Stopping, TypeOK, NotPending
  <1>3. ASSUME NEW m \in Messages, Exhausted(m) PROVE Stopping'
    BY <1>3 DEF Exhausted, gate, update, history, Stopping, TypeOK, NotPending
  <1>4. ASSUME NEW m \in ToolMessages, HandleToolMessage(m) PROVE Stopping'
    BY <1>4 DEF HandleToolMessage, gate, update, history, Stopping, TypeOK, NotPending
  <1>5. ASSUME NEW m \in ToolMessages, Park(m) PROVE Stopping'
    BY <1>5 DEF Park, gate, update, history, Stopping, TypeOK, NotPending
  <1>6. ASSUME NEW m \in ToolMessages, BeginOperation(m) PROVE Stopping'
    BY <1>6 DEF BeginOperation, gate, update, history, Stopping, TypeOK, NotPending
  <1>7. ASSUME NEW m \in ToolMessages, EndOperation(m) PROVE Stopping'
    BY <1>7 DEF EndOperation, gate, update, history, Stopping, TypeOK, NotPending
  <1>8. CASE ReceiveClientMessage
    BY <1>8 DEF ReceiveClientMessage, gate, update, history, Stopping, TypeOK,
       NotPending
  <1>9. CASE BeginUpdate
    BY <1>9 DEF BeginUpdate, gate, update, history, Stopping, TypeOK, NotPending
  <1>10. CASE DownloadUpdate
    BY <1>10 DEF DownloadUpdate, gate, update, history, Stopping, TypeOK, NotPending
  <1>11. CASE LaunchUpdate
    BY <1>11 DEF LaunchUpdate, gate, update, history, Stopping, TypeOK, NotPending
  <1>12. CASE AcknowledgeUpdate
    BY <1>12 DEF AcknowledgeUpdate, gate, update, history, Stopping, TypeOK,
       NotPending
  <1>13. CASE Restart
    BY <1>13 DEF Restart, Stopping
  <1>14. CASE RefuseUpdate
    BY <1>14 DEF RefuseUpdate, gate, update, history, Stopping, TypeOK, NotPending
  <1>15. CASE Tick
    <2>1. /\ UNCHANGED <<client, script, excused>> /\ client # "recheck"
          /\ script => left # 0
          /\ left' = Less(left) /\ age' = IF age \in 0..(PendingTTL - 1) THEN age + 1 ELSE age
      <3>1. UNCHANGED <<client, script, excused>> /\ client # "recheck" /\ (script => left # 0)
        BY <1>15, Zenon DEF Tick, Urgent, history
      <3>2. left' = Less(left) /\ age' = IF age \in 0..(PendingTTL - 1) THEN age + 1 ELSE age
        BY <1>15, Zenon DEF Tick
      <3>3. QED
        BY <3>1, <3>2, Zenon
    <2>2. left \in Nat /\ age \in {-1} \cup 0..PendingTTL
      BY DEF TypeOK, NotPending
    <2>3. script => left' = left - 1
      BY <2>1, <2>2, LessEffect
    <2>4. QED
      BY <2>1, <2>2, <2>3 DEF Stopping, NotPending
  <1>16. CASE UNCHANGED vars
    BY <1>16 DEF vars, gate, update, history, Stopping
  <1>17. QED
    BY <1>1, <1>2, <1>3, <1>4, <1>5, <1>6, <1>7, <1>8, <1>9, <1>10, <1>11, <1>12,
       <1>13, <1>14, <1>15, <1>16 DEF Next, ToolStep, ClientStep

LEMMA UpdateType ==
  ASSUME TypeOK
  PROVE  /\ "update" \in Messages /\ sent["update"] \in Message /\ sent \in [Messages -> Message]
         /\ sent["update"].timer \in 0..AckWait /\ sent["update"].tries \in 0..MaxDeliver
  BY Constants DEF TypeOK, Messages, Message

LEMMA HandledStep ==
  ASSUME TypeOK, Untried, Stopping, Handled, [Next]_vars
  PROVE  Handled'
  <1> USE Constants
  <1>1. ASSUME NEW l \in Listeners, Provision(l) PROVE Handled'
    BY <1>1 DEF Provision, gate, update, history, Handled, TypeOK
  <1>2. ASSUME NEW l \in Listeners, StreamLost(l) PROVE Handled'
    BY <1>2 DEF StreamLost, Handled, gate, update
  <1>3. ASSUME NEW m \in Messages, Exhausted(m) PROVE Handled'
    <2>1. sent'["update"] = sent["update"]
          \/ (sent["update"].state = "out" /\ sent'["update"].state = "dead"
              /\ sent'["update"].tries = MaxDeliver)
      <3>1. CASE m = "update"
        BY <1>3, <3>1, UpdateType DEF Exhausted, Message
      <3>2. CASE m # "update"
        <4>1. sent' = [sent EXCEPT ![m].state = "dead"]
          BY <1>3 DEF Exhausted
        <4>2. sent'["update"] = sent["update"]
          BY <3>2, <4>1, UpdateType
        <4>3. QED
          BY <4>2
      <3>3. QED
        BY <3>1, <3>2
    <2>2. QED
      BY <1>3, <2>1 DEF Exhausted, Handled, update, history
  <1>4. ASSUME NEW m \in ToolMessages, HandleToolMessage(m) PROVE Handled'
    <2>1. sent'["update"] = sent["update"]
      BY <1>4, DeliveredEffect, TimersType DEF HandleToolMessage
    <2>2. QED
      BY <1>4, <2>1 DEF HandleToolMessage, Handled, update, history
  <1>5. ASSUME NEW m \in ToolMessages, Park(m) PROVE Handled'
    <2>1. sent'["update"] = sent["update"]
      BY <1>5, TimersType DEF Park
    <2>2. QED
      BY <1>5, <2>1 DEF Park, Handled, update, history
  <1>6. ASSUME NEW m \in ToolMessages, BeginOperation(m) PROVE Handled'
    BY <1>6 DEF BeginOperation, gate, update, history, Handled, TypeOK
  <1>7. ASSUME NEW m \in ToolMessages, EndOperation(m) PROVE Handled'
    <2>1. sent'["update"] = sent["update"]
      BY <1>7, AckedEffect, TimersType DEF EndOperation, Settles
    <2>2. QED
      BY <1>7, <2>1 DEF EndOperation, Handled, update, history
  <1>8. CASE ReceiveClientMessage
    <2>1. sent'["update"].state = "out" /\ "client" \in bound
      BY <1>8, DeliveredEffect, UpdateType DEF ReceiveClientMessage
    <2>2. QED
      BY <1>8, <2>1 DEF ReceiveClientMessage, Handled, update, history
  <1>9. CASE BeginUpdate
    <2>1. sent'["update"] = sent["update"]
          \/ (ops = {} /\ updated /\ sent["update"].state = "out"
              /\ sent'["update"].state = "acked")
      <3>1. UNCHANGED sent \/ (ops = {} /\ updated /\ sent' = Acked("update"))
        BY <1>9 DEF BeginUpdate, Settles
      <3>2. CASE UNCHANGED sent
        BY <3>2, Zenon
      <3>3. CASE ops = {} /\ updated /\ sent' = Acked("update")
        <4>1. sent'["update"] = sent["update"] \/ (sent["update"].state = "out"
                                                  /\ sent'["update"].state = "acked")
          BY <3>3, AckedEffect, UpdateType
        <4>2. QED
          BY <3>3, <4>1, Zenon
      <3>4. QED
        BY <3>1, <3>2, <3>3
    <2>2. QED
      BY <1>9, <2>1 DEF BeginUpdate, Handled
  <1>10. CASE DownloadUpdate
    BY <1>10 DEF DownloadUpdate, gate, update, history, Handled, TypeOK
  <1>11. CASE LaunchUpdate
    BY <1>11 DEF LaunchUpdate, gate, update, history, Handled, TypeOK
  <1>12. CASE AcknowledgeUpdate
    <2>1. sent'["update"] = sent["update"] \/
             (sent["update"].state = "out" /\ sent'["update"].state = "acked")
      BY <1>12, AckedEffect, UpdateType DEF AcknowledgeUpdate, Settles
    <2>2. QED
      BY <1>12, <2>1 DEF AcknowledgeUpdate, Handled, Stopping, history
  <1>13. CASE Restart
    BY <1>13 DEF Restart, Handled
  <1>14. CASE RefuseUpdate
    BY <1>14 DEF RefuseUpdate, gate, update, history, Handled, TypeOK
  <1>15. CASE Tick
    <2>1. sent'["update"].state = sent["update"].state /\ sent'["update"].tries = sent["update"].tries
      BY <1>15, TickEffect, UpdateType
    <2>2. QED
      BY <1>15, <2>1 DEF Tick, Handled, history
  <1>16. CASE UNCHANGED vars
    BY <1>16 DEF vars, gate, update, history, Handled
  <1>17. QED
    BY <1>1, <1>2, <1>3, <1>4, <1>5, <1>6, <1>7, <1>8, <1>9, <1>10, <1>11, <1>12,
       <1>13, <1>14, <1>15, <1>16 DEF Next, ToolStep, ClientStep
LEMMA PutOffStep ==
  ASSUME TypeOK, Untried, Stopping, Handled, PutOff, [Next]_vars
  PROVE  PutOff'
  <1> USE Constants
  <1>1. ASSUME NEW l \in Listeners, Provision(l) PROVE PutOff'
    BY <1>1 DEF Provision, gate, update, history, PutOff, TypeOK
  <1>2. ASSUME NEW l \in Listeners, StreamLost(l) PROVE PutOff'
    BY <1>2 DEF StreamLost, gate, update, history, PutOff, TypeOK
  <1>3. ASSUME NEW m \in Messages, Exhausted(m) PROVE PutOff'
    <2>1. sent'["update"] = sent["update"] \/ sent'["update"].tries = MaxDeliver
      BY <1>3, UpdateType DEF Exhausted, Message
    <2>2. QED
      BY <1>3, <2>1 DEF Exhausted, PutOff, update, history
  <1>4. ASSUME NEW m \in ToolMessages, HandleToolMessage(m) PROVE PutOff'
    <2>1. sent'["update"] = sent["update"]
      BY <1>4, DeliveredEffect, TimersType DEF HandleToolMessage
    <2>2. QED
      BY <1>4, <2>1 DEF HandleToolMessage, PutOff, update, history
  <1>5. ASSUME NEW m \in ToolMessages, Park(m) PROVE PutOff'
    <2>1. sent'["update"] = sent["update"]
      BY <1>5, TimersType DEF Park
    <2>2. QED
      BY <1>5, <2>1 DEF Park, PutOff, update, history
  <1>6. ASSUME NEW m \in ToolMessages, BeginOperation(m) PROVE PutOff'
    BY <1>6 DEF BeginOperation, gate, update, history, PutOff, TypeOK
  <1>7. ASSUME NEW m \in ToolMessages, EndOperation(m) PROVE PutOff'
    <2>1. sent'["update"] = sent["update"]
      BY <1>7, AckedEffect, TimersType DEF EndOperation, Settles
    <2>2. QED
      BY <1>7, <2>1 DEF EndOperation, PutOff, update, history
  <1>8. CASE ReceiveClientMessage
    <2>1. sent["update"].tries # MaxDeliver
      BY <1>8, UpdateType DEF ReceiveClientMessage, Due, Untried
    <2>2. inbox' = TRUE /\ UNCHANGED <<age, client, script, deferred, excused>>
      BY <1>8 DEF ReceiveClientMessage, update, history
    <2>3. QED
      BY <2>1, <2>2 DEF PutOff
  <1>9. CASE BeginUpdate
    <2>1. deferred' => /\ age' = 0 /\ client' = "idle" /\ UNCHANGED sent
      BY <1>9, Zenon DEF BeginUpdate, Settles
    <2>2. QED
      BY <2>1, UpdateType DEF PutOff
  <1>10. CASE DownloadUpdate
    BY <1>10 DEF DownloadUpdate, PutOff, history
  <1>11. CASE LaunchUpdate
    <2>1. deferred' => deferred \/ client' = "idle"
      BY <1>11 DEF LaunchUpdate
    <2>2. client = "recheck" /\ UNCHANGED <<sent, age>>
      BY <1>11 DEF LaunchUpdate
    <2>3. age = 0 /\ ~deferred
      BY <2>2 DEF Stopping, PutOff
    <2>4. QED
      BY <2>1, <2>2, <2>3, UpdateType DEF PutOff
  <1>12. CASE AcknowledgeUpdate
    BY <1>12 DEF AcknowledgeUpdate, PutOff, history
  <1>13. CASE Restart
    BY <1>13 DEF Restart, PutOff
  <1>14. CASE RefuseUpdate
    <2>1. age' = 0 \/ excused'
      BY <1>14 DEF RefuseUpdate
    <2>2. UNCHANGED <<sent, client, script, deferred>> /\ (excused => excused')
      BY <1>14 DEF RefuseUpdate
    <2>3. QED
      BY <2>1, <2>2, UpdateType DEF PutOff
  <1>15. CASE Tick
    <2>1. UNCHANGED <<client, script, excused, deferred, inbox, bound>> /\ ~(client = "idle" /\ inbox)
          /\ ~("client" \in bound /\ Due("update") /\ sent["update"].state = "out")
          /\ age' = IF age \in 0..(PendingTTL - 1) THEN age + 1 ELSE age
      BY <1>15, Zenon DEF Tick, Urgent, history
    <2>2. /\ sent'["update"].tries = sent["update"].tries
          /\ sent'["update"].timer = Less(sent["update"].timer)
      BY <1>15, TickEffect, UpdateType
    <2>3. SUFFICES ASSUME deferred, ~excused, ~script, sent["update"].tries # MaxDeliver
                   PROVE  age' \in 0..AckWait /\ age' + sent'["update"].timer <= AckWait
      BY <2>1, <2>2 DEF PutOff
    <2>4. age \in 0..AckWait /\ age + sent["update"].timer <= AckWait /\ "client" \in bound
      BY <2>1, <2>3 DEF PutOff, Handled
    <2>5. sent["update"].state = "out"
      BY <2>3, UpdateType DEF Handled, Message
    <2>6. sent["update"].timer # 0
      BY <2>1, <2>3, <2>4, <2>5, UpdateType DEF Due
    <2>7. sent'["update"].timer = sent["update"].timer - 1
      BY <2>2, <2>6, UpdateType, LessEffect
    <2>8. QED
      BY <2>1, <2>4, <2>6, <2>7, UpdateType
  <1>16. CASE UNCHANGED vars
    BY <1>16 DEF vars, gate, update, history, PutOff
  <1>17. QED
    BY <1>1, <1>2, <1>3, <1>4, <1>5, <1>6, <1>7, <1>8, <1>9, <1>10, <1>11, <1>12,
       <1>13, <1>14, <1>15, <1>16 DEF Next, ToolStep, ClientStep

Invariant == TypeOK /\ Untried /\ Counted /\ Parking /\ Stopping /\ Handled /\ PutOff

LEMMA InitHolds == Init => Invariant
  <1> SUFFICES ASSUME Init PROVE Invariant
    OBVIOUS
  <1>1. 0 \in 0..AckWait /\ 0 \in 0..MaxDeliver /\ 0 \in 0..ProgressEvery /\ 0 \in 0..StopWithin
        /\ 0 \in 0..MaxFaults
    BY Constants
  <1>2. sent \in [Messages -> Message] /\ \A m \in Messages : sent[m].state = "new" /\ sent[m].tries = 0
    BY <1>1 DEF Init, Message
  <1>3. TypeOK
    BY <1>1, <1>2 DEF Init, TypeOK, Message
  <1>4. Untried /\ Counted /\ Parking
    BY <1>2 DEF Init, Untried, Counted, Parking, Messages
  <1>5. Stopping /\ Handled /\ PutOff
    BY <1>2 DEF Init, Stopping, Handled, PutOff, Messages
  <1>6. QED
    BY <1>3, <1>4, <1>5 DEF Invariant

LEMMA InvariantStep == Invariant /\ [Next]_vars => Invariant'
  BY TypeStep, CountedStep, ParkingStep, StoppingStep, HandledStep, PutOffStep DEF Invariant

LEMMA InvariantHolds == Spec => []Invariant
  BY InitHolds, InvariantStep, PTL DEF Spec

-----------------------------------------------------------------------------
(* Theorems *)

\* The types of the whole state: no message is delivered more than MaxDeliver times, and a
\* message has at most that many handlers.
THEOREM GateTypeCorrect == Spec => []TypeOK
  BY InvariantHolds, PTL DEF Invariant

\* The Progress acks of a parked message come before it is due again, so that no second
\* copy of it is parked, as long as PROGRESS_ACK_INTERVAL_SECS is below
\* CONSUMER_ACK_WAIT_SECS (park_or_dispatch).
THEOREM OneCopyParked == Spec => []OneParkedCopy
  <1>1. Invariant => OneParkedCopy
    <2>1. ASSUME Invariant, NEW m \in ToolMessages PROVE parked[m] <= 1
      <3>1. parked[m] \in Nat /\ (parked[m] > 0 => parked[m] = 1)
        BY <2>1, TimersType DEF Invariant, Parking
      <3>2. QED
        BY <3>1
    <2>2. QED
      BY <2>1 DEF OneParkedCopy
  <1>2. QED
    BY InvariantHolds, <1>1, PTL

\* A message passes the gate only while no client update is pending.
LEMMA PassesUnmarked ==
  ASSUME TypeOK, Counted, [Next]_vars, NEW m \in ToolMessages, Passes(m)
  PROVE  ~IsPending(age)
  <1>1. gated \in [ToolMessages -> Nat]
    BY DEF Counted
  <1>2. ASSUME NEW n \in ToolMessages, HandleToolMessage(n) PROVE ~IsPending(age)
    BY <1>1, <1>2 DEF HandleToolMessage, Passes
  <1>3. ASSUME NEW n \in ToolMessages, Park(n) PROVE ~IsPending(age)
    BY <1>1, <1>3 DEF Park, Passes
  <1>4. ASSUME NEW n \in ToolMessages, BeginOperation(n) PROVE FALSE
    BY <1>1, <1>4 DEF BeginOperation, Passes
  <1>5. ASSUME Restart PROVE FALSE
    BY <1>1, <1>5 DEF Restart, Passes
  <1>6. ASSUME UNCHANGED gated PROVE FALSE
    BY <1>1, <1>6 DEF Passes
  <1>7. \/ \E n \in ToolMessages : HandleToolMessage(n) \/ Park(n) \/ BeginOperation(n)
        \/ Restart \/ UNCHANGED gated
    BY DEF Next, ToolStep, ClientStep, vars, gate, Provision, StreamLost, Exhausted, EndOperation,
           ReceiveClientMessage, BeginUpdate, DownloadUpdate, LaunchUpdate, AcknowledgeUpdate,
           RefuseUpdate, Tick
  <1>8. QED
    BY <1>2, <1>3, <1>4, <1>5, <1>6, <1>7

\* From the launch of the updater to the stop of the service no tool message passes the
\* gate, as long as the script stops the service within CLIENT_UPDATE_PENDING_TTL_SECS
\* (is_client_update_pending, process_update).
THEOREM GateHolds == Spec => GateHoldsUntilStop
  <1>1. ASSUME Invariant, [Next]_vars
        PROVE  [script /\ ~excused => \A m \in ToolMessages : ~Passes(m)]_vars
    <2>1. script /\ ~excused => IsPending(age)
      BY <1>1, Constants DEF Invariant, Stopping, TypeOK, NotPending, IsPending
    <2>2. QED
      BY <1>1, <2>1, PassesUnmarked DEF Invariant
  <1>2. QED
    BY InvariantHolds, <1>1, PTL DEF Spec, GateHoldsUntilStop

\* An update that was put off is delivered again before its flag lapses, as long as
\* CONSUMER_ACK_WAIT_SECS is below CLIENT_UPDATE_PENDING_TTL_SECS, so that the gate stays
\* shut for it (process_update).
THEOREM DeferralHolds == Spec => GateSurvivesDeferral
  <1>1. ASSUME Invariant, [Next]_vars
        PROVE  [ deferred /\ ~excused /\ sent["update"].tries < MaxDeliver
                 => \A m \in ToolMessages : ~Passes(m) ]_vars
    <2>1. deferred /\ ~excused /\ sent["update"].tries < MaxDeliver => IsPending(age)
      BY <1>1, Constants, UpdateType DEF Invariant, Stopping, PutOff, TypeOK, NotPending, IsPending
    <2>2. QED
      BY <1>1, <2>1, PassesUnmarked DEF Invariant
  <1>2. QED
    BY InvariantHolds, <1>1, PTL DEF Spec, GateSurvivesDeferral
=============================================================================
