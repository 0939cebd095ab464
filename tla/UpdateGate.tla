----------------------------- MODULE UpdateGate -----------------------------
(***************************************************************************)
(* The client-before-tool ordering of updates.  While an update of the     *)
(* agent itself is pending, the listeners park the messages that ask for   *)
(* tool operations and keep them alive with Progress acks; the update in   *)
(* turn is put off while a tool operation runs.  The updater kills the     *)
(* process, so an operation it interrupts is one that slipped through.     *)
(*                                                                         *)
(* JetStream redelivers a message that is neither acknowledged nor kept    *)
(* alive within AckWait, at most MaxDeliver times.  Time is counted in     *)
(* ticks (a minute: PROGRESS_ACK_INTERVAL_SECS), each message is about a   *)
(* tool of its own.  ClientUpdate has what the updater does.               *)
(***************************************************************************)
EXTENDS Integers

CONSTANTS
    ToolMessages,   \* the messages that ask for a tool operation
    AckWait,        \* CONSUMER_ACK_WAIT_SECS
    PendingTTL,     \* CLIENT_UPDATE_PENDING_TTL_SECS
    ProgressEvery,  \* PROGRESS_ACK_INTERVAL_SECS
    StopWithin,     \* bound: how long the updater script takes to stop the service
    MaxDeliver,     \* CONSUMER_MAX_DELIVER
    MaxFaults       \* bound: failing acks, downloads, operations, lost streams

ASSUME GateAssumption ==
    /\ {AckWait, PendingTTL, ProgressEvery, StopWithin, MaxDeliver} \subseteq Nat \ {0}
    /\ "update" \notin ToolMessages
    /\ ProgressEvery < AckWait /\ AckWait < PendingTTL /\ StopWithin < PendingTTL
    /\ MaxFaults \in Nat

Messages == ToolMessages \cup {"update"}
NotPending == -1

VARIABLES
    sent,       \* JetStream: per message its state, the ticks left to ack, the deliveries
    bound,      \* the listeners whose consumer stream is open
    inbox,      \* a copy of the client update message is received and not yet handled
    refusable,  \* a message for the running version, or for one below the anchor, is to come
    age,        \* ticks since client_update_pending was marked, up to PendingTTL
    parked,     \* per tool message: handlers that wait for the update
    wake,       \* ticks until they look again
    gated,      \* handlers past the gate, before the tool's lock and mark_updating
    ops,        \* the tool messages whose operation is marked as updating
    client,     \* process_update: its step
    script, left,  \* the updater script is under way; ticks until it stops the service
    updated,    \* the agent runs the new version
    faults,
    deferred,   \* history: the update was put off for a tool operation, and is to come again
    excused     \* history: a refused message cleared the flag, or the client stream was lost

gate == <<parked, wake, gated, ops>>
update == <<client, refusable, script, left, updated>>
history == <<deferred, excused>>
vars == <<sent, bound, inbox, age, gate, update, faults, history>>

Listeners == {"tools", "client"}
Done(m) == sent[m].state \in {"acked", "dead"}

TypeOK ==
    /\ sent \in [Messages -> [state : {"new", "out", "acked", "dead"}, timer : 0..AckWait,
                              tries : 0..MaxDeliver]]
    /\ bound \subseteq Listeners /\ inbox \in BOOLEAN
    /\ age \in {NotPending} \cup 0..PendingTTL
    /\ parked \in [ToolMessages -> 0..MaxDeliver] /\ gated \in [ToolMessages -> 0..MaxDeliver]
    /\ wake \in [ToolMessages -> 0..ProgressEvery] /\ ops \subseteq ToolMessages
    /\ client \in {"idle", "download", "recheck", "launched"}
    /\ {refusable, script, updated, deferred, excused} \subseteq BOOLEAN /\ left \in 0..StopWithin
    /\ faults \in 0..MaxFaults

Init ==
    /\ sent = [m \in Messages |-> [state |-> "new", timer |-> 0, tries |-> 0]]
    /\ bound = {} /\ inbox = FALSE /\ age = NotPending
    /\ parked = [m \in ToolMessages |-> 0] /\ gated = [m \in ToolMessages |-> 0]
    /\ wake = [m \in ToolMessages |-> 0] /\ ops = {}
    /\ client = "idle" /\ refusable = TRUE /\ script = FALSE /\ left = 0 /\ updated = FALSE
    /\ faults = 0 /\ deferred = FALSE /\ excused = FALSE

Fault(happens) ==
    /\ happens => faults < MaxFaults
    /\ faults' = IF happens THEN faults + 1 ELSE faults

\* A mutant: the flag lapses before a deferred update is delivered again.
IsPending_Short(a) == a \in 0..(AckWait - 1)

\* A mutant: the flag has no time limit.
IsPending_Forever(a) == a >= 0

\* is_client_update_pending
IsPending(a) == a \in 0..(PendingTTL - 1)

-----------------------------------------------------------------------------
(* Listeners and consumers *)

\* create_consumer tries until the consumer is there.
Provision(l) ==
    /\ l \notin bound /\ bound' = bound \cup {l}
    /\ UNCHANGED <<sent, inbox, age, gate, update, faults, history>>

\* The stream breaks: listen ends and is called again later.
StreamLost(l) ==
    /\ l \in bound /\ Fault(TRUE)
    /\ bound' = bound \ {l}
    /\ excused' = (excused \/ l = "client")
    /\ UNCHANGED <<sent, inbox, age, gate, update, deferred>>

\* A message is due the first time and whenever it was left alone for AckWait.
Due(m) ==
    \/ sent[m].state = "new"
    \/ sent[m].state = "out" /\ sent[m].timer = 0 /\ sent[m].tries < MaxDeliver
Delivered(m) ==
    [sent EXCEPT ![m] = [state |-> "out", timer |-> AckWait, tries |-> @.tries + 1]]
Acked(m) == IF sent[m].state = "out" THEN [sent EXCEPT ![m].state = "acked", ![m].timer = 0] ELSE sent
\* An ack, or a failure that leaves the message to redelivery.
Settles(m, ok) == sent' = IF ok THEN Acked(m) ELSE sent

Exhausted(m) ==
    /\ sent[m].state = "out" /\ sent[m].timer = 0 /\ sent[m].tries = MaxDeliver
    /\ sent' = [sent EXCEPT ![m].state = "dead"]
    /\ UNCHANGED <<bound, inbox, age, gate, update, faults, history>>

\* handle_message of a tool listener: park_or_dispatch.
HandleToolMessage(m) ==
    /\ "tools" \in bound /\ Due(m)
    /\ sent' = Delivered(m)
    /\ IF IsPending(age)
       THEN /\ parked' = [parked EXCEPT ![m] = @ + 1] /\ wake' = [wake EXCEPT ![m] = 0]
            /\ UNCHANGED gated
       ELSE gated' = [gated EXCEPT ![m] = @ + 1] /\ UNCHANGED <<parked, wake>>
    /\ UNCHANGED <<bound, inbox, age, ops, update, faults, history>>

\* A mutant: the Progress ack is left out, the handler only waits.
Park_Silent(m) ==
    /\ parked[m] > 0 /\ wake[m] = 0
    /\ IF IsPending(age)
       THEN wake' = [wake EXCEPT ![m] = ProgressEvery] /\ UNCHANGED <<parked, gated>>
       ELSE /\ parked' = [parked EXCEPT ![m] = @ - 1] /\ gated' = [gated EXCEPT ![m] = @ + 1]
            /\ UNCHANGED wake
    /\ UNCHANGED <<sent, bound, inbox, age, ops, update, faults, history>>

\* The parked handler looks again: a Progress ack (a failing one abandons the park, and
\* redelivery takes over), or the dispatch.
Park(m) ==
    /\ parked[m] > 0 /\ wake[m] = 0
    /\ IF IsPending(age)
       THEN \E ok \in BOOLEAN :
            /\ Fault(~ok)
            /\ sent' = IF ok /\ sent[m].state = "out" THEN [sent EXCEPT ![m].timer = AckWait] ELSE sent
            /\ wake' = [wake EXCEPT ![m] = IF ok THEN ProgressEvery ELSE 0]
            /\ parked' = [parked EXCEPT ![m] = IF ok THEN @ ELSE @ - 1]
            /\ UNCHANGED gated
       ELSE /\ parked' = [parked EXCEPT ![m] = @ - 1] /\ gated' = [gated EXCEPT ![m] = @ + 1]
            /\ UNCHANGED <<sent, wake, faults>>
    /\ UNCHANGED <<bound, inbox, age, ops, update, history>>

\* The tool's lock is taken and the tool marked as updating.
BeginOperation(m) ==
    /\ gated[m] > 0 /\ m \notin ops
    /\ gated' = [gated EXCEPT ![m] = @ - 1] /\ ops' = ops \cup {m}
    /\ UNCHANGED <<sent, bound, inbox, age, parked, wake, update, faults, history>>

\* Only a success is acknowledged.
EndOperation(m) ==
    /\ m \in ops /\ ops' = ops \ {m}
    /\ \E ok \in BOOLEAN : Fault(~ok) /\ Settles(m, ok)
    /\ UNCHANGED <<bound, inbox, age, parked, wake, gated, update, history>>

-----------------------------------------------------------------------------
(* The update of the agent *)

\* A copy that arrives while process_update runs waits in the subscription.
ReceiveClientMessage ==
    /\ "client" \in bound /\ Due("update")
    /\ sent' = Delivered("update") /\ inbox' = TRUE
    /\ UNCHANGED <<bound, age, gate, update, faults, history>>

\* process_update marks the flag; a tool operation that runs puts the update off; for the
\* running version the flag is cleared.
BeginUpdate ==
    /\ client = "idle" /\ inbox /\ inbox' = FALSE
    /\ deferred' = (ops # {})
    /\ age' = IF ops = {} /\ updated THEN NotPending ELSE 0
    /\ excused' = (excused \/ (ops = {} /\ updated))
    /\ Settles("update", ops = {} /\ updated)
    /\ client' = IF ops = {} /\ ~updated THEN "download" ELSE "idle"
    /\ UNCHANGED <<bound, gate, refusable, script, left, updated, faults>>

\* Another client update message, to be refused: it marks the flag and clears it, unless
\* a tool operation puts it off.
RefuseUpdate ==
    /\ "client" \in bound /\ client = "idle" /\ refusable /\ refusable' = FALSE
    /\ age' = IF ops = {} THEN NotPending ELSE 0
    /\ excused' = (excused \/ ops = {})
    /\ UNCHANGED <<sent, bound, inbox, gate, client, script, left, updated, faults, deferred>>

\* A mutant: the flag is not marked again.
DownloadUpdate_StaleFlag ==
    /\ client = "download"
    /\ \E ok \in BOOLEAN : Fault(~ok) /\ client' = IF ok THEN "recheck" ELSE "idle"
    /\ UNCHANGED <<sent, bound, inbox, age, gate, refusable, script, left, updated, history>>

\* The flag may have lapsed during the download: it is marked again.
DownloadUpdate ==
    /\ client = "download"
    /\ \E ok \in BOOLEAN :
        /\ Fault(~ok)
        /\ client' = IF ok THEN "recheck" ELSE "idle"
        /\ age' = IF ok THEN 0 ELSE age
    /\ UNCHANGED <<sent, bound, inbox, gate, refusable, script, left, updated, history>>

\* A tool operation that began meanwhile puts the update off; otherwise the updater is
\* launched.
LaunchUpdate ==
    /\ client = "recheck"
    /\ \E ok \in BOOLEAN :
        /\ Fault(~ok)
        /\ IF ok /\ ops = {}
           THEN client' = "launched" /\ script' = TRUE /\ left' = StopWithin /\ UNCHANGED deferred
           ELSE client' = "idle" /\ deferred' = TRUE /\ UNCHANGED <<script, left>>
    /\ UNCHANGED <<sent, bound, inbox, age, gate, refusable, updated, excused>>

\* An ack that fails leaves the message to redelivery.
AcknowledgeUpdate ==
    /\ client = "launched" /\ client' = "idle"
    /\ \E ok \in BOOLEAN : Fault(~ok) /\ Settles("update", ok)
    /\ UNCHANGED <<bound, inbox, age, gate, refusable, script, left, updated, history>>

\* The script stops the service; the new version, or the old one when the script rolled
\* back, starts with nothing in memory.
Restart ==
    /\ script /\ script' = FALSE /\ left' = 0
    /\ \E ok \in BOOLEAN : Fault(~ok) /\ updated' = (updated \/ ok)
    /\ parked' = [m \in ToolMessages |-> 0] /\ gated' = [m \in ToolMessages |-> 0]
    /\ wake' = [m \in ToolMessages |-> 0] /\ ops' = {}
    /\ client' = "idle" /\ inbox' = FALSE /\ bound' = {} /\ age' = NotPending /\ deferred' = FALSE
    /\ UNCHANGED <<sent, refusable, excused>>

\* A deferred update is delivered as soon as it is due, parked handlers look when their
\* sleep ends, the steps around the launch take no time, and the script keeps its bound.
Urgent ==
    \/ "client" \in bound /\ Due("update") /\ sent["update"].state = "out"
    \/ client \in {"recheck", "launched"} \/ (client = "idle" /\ inbox)
    \/ \E m \in ToolMessages : parked[m] > 0 /\ wake[m] = 0
    \/ script /\ left = 0

Less(n) == IF n > 0 THEN n - 1 ELSE 0
Tick ==
    /\ ~Urgent
    /\ sent' = [m \in Messages |-> [sent[m] EXCEPT !.timer = Less(@)]]
    /\ wake' = [m \in ToolMessages |-> Less(wake[m])]
    /\ age' = IF age \in 0..(PendingTTL - 1) THEN age + 1 ELSE age
    /\ left' = Less(left)
    /\ UNCHANGED <<bound, inbox, parked, gated, ops, client, refusable, script, updated, faults, history>>

ToolStep(m) == HandleToolMessage(m) \/ Park(m) \/ BeginOperation(m) \/ EndOperation(m)
ClientStep ==
    BeginUpdate \/ DownloadUpdate \/ LaunchUpdate \/ AcknowledgeUpdate \/ Restart
Next ==
    \/ \E l \in Listeners : Provision(l) \/ StreamLost(l)
    \/ \E m \in Messages : Exhausted(m)
    \/ \E m \in ToolMessages : ToolStep(m)
    \/ ReceiveClientMessage \/ ClientStep \/ RefuseUpdate \/ Tick

\* Time passes, consumers are provisioned, the tasks of the agent and of each message run.
\* Streams need not break, and a message to be refused need not come.
Fairness ==
    /\ WF_vars(Tick) /\ WF_vars(ReceiveClientMessage \/ ClientStep)
    /\ WF_vars(\E l \in Listeners : Provision(l))
    /\ \A m \in ToolMessages : WF_vars(ToolStep(m) \/ Exhausted(m))
Spec == Init /\ [][Next]_vars /\ Fairness

-----------------------------------------------------------------------------
(* Properties *)

Passes(m) == gated'[m] > gated[m]

\* From the launch of the updater to the stop of the service no tool message passes the
\* gate: an operation the updater kills had passed it before the launch.
GateHoldsUntilStop == [][script /\ ~excused => \A m \in ToolMessages : ~Passes(m)]_vars

\* While an update was put off and will be delivered again, no new tool operation gets in
\* its way.
GateSurvivesDeferral ==
    [][ deferred /\ ~excused /\ sent["update"].tries < MaxDeliver
        => \A m \in ToolMessages : ~Passes(m) ]_vars

\* A parked message is not delivered a second time: its Progress acks come in time.
OneParkedCopy == \A m \in ToolMessages : parked[m] <= 1

\* Parking ends: every tool message is carried out or runs out of deliveries.
ToolMessagesSettle == <>(\A m \in ToolMessages : Done(m))
=============================================================================
