----------------------------- MODULE ResultStore -----------------------------
(***************************************************************************)
(* The durable result path of openframe-client: the execution listener's   *)
(* durable batch handler, the redb journal and outbox of ResultStore, the  *)
(* outbox flusher, and recovery after a restart.                           *)
(*                                                                         *)
(* A batch is an execution id e with the scripts Scripts[e]; the store     *)
(* keys every script of it by execution id and script id.  Every redb      *)
(* transaction is one action, so crashes and other tasks fall between      *)
(* transactions and never inside one.  Result texts are reduced to what    *)
(* tells them apart: a real outcome, "interrupted" or "not_started", and   *)
(* the run it is of.                                                       *)
(***************************************************************************)
EXTENDS Naturals, Sequences, FiniteSets

CONSTANTS
    Execs,          \* execution ids of scheduled batches
    ScriptIds,      \* script ids
    Scripts,        \* Scripts[e]: the script ids of batch e, in order
    Tasks,          \* handler tasks spawned by run_unbounded
    Cap,            \* OUTBOX_MAX_ENTRIES
    Oversized,      \* keys whose result exceeds OUTBOX_MAX_PAYLOAD_BYTES
                    \* even with its output cut away
    MaxDeliveries,  \* bound: messages the backend sends, duplicates included
    MaxCrashes,     \* bound: agent restarts
    MaxFaults,      \* bound: failing database calls
    MaxClock        \* bound: ticks of now_secs()

ASSUME ScriptsAssumption ==
    /\ Execs # {}
    /\ Scripts \in [Execs -> Seq(ScriptIds)]
ASSUME TasksAssumption == IsFiniteSet(Tasks)
ASSUME BoundsAssumption ==
    /\ Cap \in Nat
    /\ MaxDeliveries \in Nat
    /\ MaxCrashes \in Nat
    /\ MaxFaults \in Nat
    /\ MaxClock \in Nat

\* entry_key(execution_id, script_id) of the i-th request of batch e.
EntryKey(e, i) == <<e, Scripts[e][i]>>
BatchKeys(e) == {EntryKey(e, i) : i \in 1..Len(Scripts[e])}
Keys == UNION {BatchKeys(e) : e \in Execs}
NoKey == <<>>

Kinds == {"ran", "interrupted", "not_started"}
Results == [kind : Kinds, run : Nat]
NoResult == [kind |-> "none", run |-> 0]

VARIABLES
    phase,      \* the agent: "down", "recovering", "rec_prune" or "listening"
    enabled,    \* ResultStore.db is Some
    journal,    \* JOURNAL table: "absent", "journaled" or "started" per key
    outbox,     \* OUTBOX_META and OUTBOX_PAYLOAD, written in one transaction
    created,    \* OutboxMeta.created_at_secs
    task,       \* the spawned handlers: where they are, their batch and script
    flusher,    \* the ResultOutboxRunManager loop
    clock,      \* now_secs()
    deliveries, crashes, faults,     \* how much of each bound is used
    \* history, read by no action:
    accepted,   \* keys of batches journal_batch inserted
    delivered,  \* results the backend received
    persisted,  \* results committed to the outbox
    shed,       \* keys dropped by pruning or quarantine
    runs,       \* how often each script was started
    begun,      \* keys whose current journal entry saw its script start
    unpruned    \* completions whose prune never ran

store == <<journal, outbox, created>>
bounds == <<clock, deliveries, crashes, faults>>
history == <<accepted, delivered, persisted, shed, runs, begun, unpruned>>
vars == <<phase, enabled, store, task, flusher, bounds, history>>

FreeTask == [pc |-> "free", exec |-> CHOOSE e \in Execs : TRUE, idx |-> 1]
IdleFlusher == [pc |-> "idle", keys |-> {}, cur |-> NoKey, bytes |-> NoResult]

Entry(t) == EntryKey(task[t].exec, task[t].idx)
Pending == {k \in Keys : outbox[k] # NoResult}
Journaled == {k \in Keys : journal[k] # "absent"}
Answered == {d[1] : d \in delivered}

\* The completions that are committed and not yet followed by their prune.
PrunesToCome == Cardinality({t \in Tasks : task[t].pc = "prune"})
                + (IF phase = "rec_prune" THEN 1 ELSE 0)

Init ==
    /\ phase = "down"
    /\ enabled = FALSE
    /\ journal = [k \in Keys |-> "absent"]
    /\ outbox = [k \in Keys |-> NoResult]
    /\ created = [k \in Keys |-> 0]
    /\ task = [t \in Tasks |-> FreeTask]
    /\ flusher = IdleFlusher
    /\ clock = 0 /\ deliveries = 0 /\ crashes = 0 /\ faults = 0
    /\ accepted = {} /\ delivered = {} /\ persisted = {} /\ shed = {}
    /\ runs = [k \in Keys |-> 0]
    /\ begun = {}
    /\ unpruned = 0

-----------------------------------------------------------------------------
(* Transactions of ResultStore, shared by the handlers and by recovery.    *)

\* A call into the store that returns Err.
Fault ==
    /\ faults < MaxFaults
    /\ faults' = faults + 1
    /\ UNCHANGED <<clock, deliveries, crashes>>

\* complete(): outbox entry in, journal entry out, in one transaction.
CompleteTxn(k, r) ==
    /\ outbox' = [outbox EXCEPT ![k] = r]
    /\ created' = [created EXCEPT ![k] = clock]
    /\ journal' = [journal EXCEPT ![k] = "absent"]
    /\ persisted' = persisted \cup {<<k, r>>}

\* Mutant of Victims: keeps one result more than Cap.
Victims_KeepsOneMore(V) ==
    /\ Cardinality(Pending) > Cap
    /\ Cardinality(V) = Cardinality(Pending) - Cap - 1
    /\ \A v \in V, s \in Pending \ V : created[v] <= created[s]

\* prune_oldest(Cap): ties in created_at_secs are broken by the order of the
\* key strings, which is left open here.
Victims(V) ==
    /\ Cardinality(Pending) > Cap
    /\ Cardinality(V) = Cardinality(Pending) - Cap
    /\ \A v \in V, s \in Pending \ V : created[v] <= created[s]

PruneTxn ==
    /\ \E V \in SUBSET Pending :
         /\ Victims(V) \/ (Cardinality(Pending) <= Cap /\ V = {})
         /\ outbox' = [k \in Keys |-> IF k \in V THEN NoResult ELSE outbox[k]]
         /\ shed' = shed \cup V
    /\ unpruned' = 0
    /\ UNCHANGED <<journal, created>>

-----------------------------------------------------------------------------
(* ExecutionListener<ScriptScheduleExecutionMessage>: one task per message.*)

Goto(t, pc) == task' = [task EXCEPT ![t].pc = pc]

\* Mutant of NextScript: one iteration too many.
NextScript_OffByOne(t, pc) ==
    task' = [task EXCEPT ![t] =
        IF task[t].idx <= Len(Scripts[task[t].exec])
        THEN [pc |-> pc, exec |-> task[t].exec, idx |-> task[t].idx + 1]
        ELSE FreeTask]

\* The for loop over the requests moves on, or the task ends.
NextScript(t, pc) ==
    task' = [task EXCEPT ![t] =
        IF task[t].idx < Len(Scripts[task[t].exec])
        THEN [pc |-> pc, exec |-> task[t].exec, idx |-> task[t].idx + 1]
        ELSE FreeTask]

\* A message, or a duplicate of one, reaches the subscription.
Deliver(t, e) ==
    /\ phase = "listening"
    /\ task[t].pc = "free"
    /\ deliveries < MaxDeliveries
    /\ Scripts[e] # <<>>
    /\ task' = [task EXCEPT ![t] =
         [pc |-> IF enabled THEN "journal" ELSE "direct_start",
          exec |-> e, idx |-> 1]]
    /\ deliveries' = deliveries + 1
    /\ UNCHANGED <<phase, enabled, store, flusher, clock, crashes, faults,
                   history>>

\* Mutant of JournalBatch: no look at the journal before the insert.
JournalBatch_NoDedupe(t) ==
    /\ task[t].pc = "journal"
    /\ journal' = [k \in Keys |->
         IF k \in BatchKeys(task[t].exec) THEN "journaled" ELSE journal[k]]
    /\ accepted' = accepted \cup BatchKeys(task[t].exec)
    /\ begun' = begun \ BatchKeys(task[t].exec)
    /\ Goto(t, "mark")
    /\ UNCHANGED <<phase, enabled, outbox, created, flusher, bounds,
                   delivered, persisted, shed, runs, unpruned>>

JournalBatch(t) ==
    /\ task[t].pc = "journal"
    /\ \/ /\ BatchKeys(task[t].exec) \cap Journaled # {}
          /\ task' = [task EXCEPT ![t] = FreeTask]
          /\ UNCHANGED <<journal, accepted, begun>>
       \/ /\ BatchKeys(task[t].exec) \cap Journaled = {}
          /\ journal' = [k \in Keys |->
               IF k \in BatchKeys(task[t].exec) THEN "journaled" ELSE journal[k]]
          /\ accepted' = accepted \cup BatchKeys(task[t].exec)
          /\ begun' = begun \ BatchKeys(task[t].exec)
          /\ Goto(t, "mark")
    /\ UNCHANGED <<phase, enabled, outbox, created, flusher, bounds,
                   delivered, persisted, shed, runs, unpruned>>

\* journal_batch returned Err: the handler falls back to publish_directly.
JournalBatchFails(t) ==
    /\ task[t].pc = "journal"
    /\ Fault
    /\ Goto(t, "direct_start")
    /\ UNCHANGED <<phase, enabled, store, flusher, history>>

\* Mutant of MarkStarted: the record is written back unchanged.
MarkStarted_NotSet(t) ==
    /\ task[t].pc = "mark"
    /\ Goto(t, "start")
    /\ UNCHANGED <<phase, enabled, store, flusher, bounds, history>>

MarkStarted(t) ==
    /\ task[t].pc = "mark"
    /\ journal' = IF journal[Entry(t)] = "absent" THEN journal
                  ELSE [journal EXCEPT ![Entry(t)] = "started"]
    /\ Goto(t, "start")
    /\ UNCHANGED <<phase, enabled, outbox, created, flusher, bounds, history>>

\* The failure is only logged: the script runs all the same.
MarkStartedFails(t) ==
    /\ task[t].pc = "mark"
    /\ Fault
    /\ Goto(t, "start")
    /\ UNCHANGED <<phase, enabled, store, flusher, history>>

\* ExecutionService::execute begins; its effects on the machine are real.
StartScript(t) ==
    /\ task[t].pc \in {"start", "direct_start"}
    /\ Goto(t, IF task[t].pc = "start" THEN "run" ELSE "direct_run")
    /\ runs' = [runs EXCEPT ![Entry(t)] = @ + 1]
    /\ begun' = IF task[t].pc = "start" THEN begun \cup {Entry(t)} ELSE begun
    /\ UNCHANGED <<phase, enabled, store, flusher, bounds, accepted,
                   delivered, persisted, shed, unpruned>>

Outcome(t) == [kind |-> "ran", run |-> runs[Entry(t)]]

Complete(t) ==
    /\ task[t].pc = "run"
    /\ CompleteTxn(Entry(t), Outcome(t))
    /\ Goto(t, "prune")
    /\ UNCHANGED <<phase, enabled, flusher, bounds, accepted, delivered, shed,
                   runs, begun, unpruned>>

Prune(t) ==
    /\ task[t].pc = "prune"
    /\ PruneTxn
    /\ NextScript(t, "mark")
    /\ UNCHANGED <<phase, enabled, flusher, bounds, accepted, delivered,
                   persisted, runs, begun>>

PruneFails(t) ==
    /\ task[t].pc = "prune"
    /\ Fault
    /\ NextScript(t, "mark")
    /\ unpruned' = unpruned + 1
    /\ UNCHANGED <<phase, enabled, store, flusher, accepted, delivered,
                   persisted, shed, runs, begun>>

CompleteFails(t) ==
    /\ task[t].pc = "run"
    /\ Fault
    /\ Goto(t, "best_effort")
    /\ UNCHANGED <<phase, enabled, store, flusher, history>>

\* Mutant of BestEffort: the entry is cleared whether or not the publish
\* succeeded.
BestEffort_AlwaysClears(t) ==
    /\ task[t].pc = "best_effort"
    /\ \/ delivered' = delivered \cup {<<Entry(t), Outcome(t)>>}
       \/ UNCHANGED delivered
    /\ Goto(t, "unjournal")
    /\ UNCHANGED <<phase, enabled, store, flusher, bounds, accepted, persisted,
                   shed, runs, begun, unpruned>>

\* complete() failed: publish the result now, keep the entry if that fails.
BestEffort(t) ==
    /\ task[t].pc = "best_effort"
    /\ \/ /\ delivered' = delivered \cup {<<Entry(t), Outcome(t)>>}
          /\ Goto(t, "unjournal")
       \/ /\ NextScript(t, "mark")
          /\ UNCHANGED delivered
    /\ UNCHANGED <<phase, enabled, store, flusher, bounds, accepted, persisted,
                   shed, runs, begun, unpruned>>

JournalRemove(t) ==
    /\ task[t].pc = "unjournal"
    /\ journal' = [journal EXCEPT ![Entry(t)] = "absent"]
    /\ NextScript(t, "mark")
    /\ UNCHANGED <<phase, enabled, outbox, created, flusher, bounds, history>>

JournalRemoveFails(t) ==
    /\ task[t].pc = "unjournal"
    /\ Fault
    /\ NextScript(t, "mark")
    /\ UNCHANGED <<phase, enabled, store, flusher, history>>

\* publish_directly, and handle_message without a durable store.
PublishDirectly(t) ==
    /\ task[t].pc = "direct_run"
    /\ \/ delivered' = delivered \cup {<<Entry(t), Outcome(t)>>}
       \/ UNCHANGED delivered
    /\ NextScript(t, "direct_start")
    /\ UNCHANGED <<phase, enabled, store, flusher, bounds, accepted, persisted,
                   shed, runs, begun, unpruned>>

-----------------------------------------------------------------------------
(* ResultOutboxRunManager: the flusher loop.                               *)

\* The interval ticks or flush_notify fires; pending_keys() is read.
FlushWake ==
    /\ phase = "listening" /\ enabled
    /\ flusher.pc = "idle"
    /\ Pending # {}
    /\ flusher' = [flusher EXCEPT !.pc = "load", !.keys = Pending]
    /\ UNCHANGED <<phase, enabled, store, task, bounds, history>>

\* load_payload(key): None sends the loop straight to remove(key).
FlushLoad ==
    /\ flusher.pc = "load"
    /\ \E k \in flusher.keys :
         /\ k \notin Oversized \/ outbox[k] = NoResult
         /\ flusher' = [pc |-> IF outbox[k] = NoResult THEN "remove" ELSE "publish",
                        keys |-> flusher.keys \ {k}, cur |-> k, bytes |-> outbox[k]]
    /\ UNCHANGED <<phase, enabled, store, task, bounds, history>>

\* Mutant of FlushSkip: the loop breaks off instead of going on.
FlushSkip_Breaks ==
    /\ flusher.pc = "load"
    /\ \E k \in flusher.keys \cap Oversized : outbox[k] # NoResult
    /\ flusher' = IdleFlusher
    /\ UNCHANGED <<phase, enabled, store, task, bounds, history>>

\* An entry that no server accepts stays where it is; the loop goes on.
FlushSkip ==
    /\ flusher.pc = "load"
    /\ \E k \in flusher.keys \cap Oversized :
         /\ outbox[k] # NoResult
         /\ flusher' = IF flusher.keys = {k} THEN IdleFlusher
                       ELSE [flusher EXCEPT !.keys = @ \ {k}]
    /\ UNCHANGED <<phase, enabled, store, task, bounds, history>>

FlushLoadFails ==
    /\ flusher.pc = "load"
    /\ Fault
    /\ flusher' = IdleFlusher
    /\ UNCHANGED <<phase, enabled, store, task, history>>

FlushPublish ==
    /\ flusher.pc = "publish"
    /\ delivered' = delivered \cup {<<flusher.cur, flusher.bytes>>}
    /\ flusher' = [flusher EXCEPT !.pc = "remove", !.bytes = NoResult]
    /\ UNCHANGED <<phase, enabled, store, task, bounds, accepted, persisted,
                   shed, runs, begun, unpruned>>

\* Mutant of FlushPublishFails: a failed publish still removes the entry.
FlushPublishFails_Removes ==
    /\ flusher.pc = "publish"
    /\ flusher' = [flusher EXCEPT !.pc = "remove", !.bytes = NoResult]
    /\ UNCHANGED <<phase, enabled, store, task, bounds, history>>

\* publish_raw failed, or FLUSH_PUBLISH_TIMEOUT_SECS elapsed with the bytes
\* possibly delivered: break out of the loop until the next tick.
FlushPublishFails ==
    /\ flusher.pc = "publish"
    /\ \/ UNCHANGED delivered
       \/ delivered' = delivered \cup {<<flusher.cur, flusher.bytes>>}
    /\ flusher' = IdleFlusher
    /\ UNCHANGED <<phase, enabled, store, task, bounds, accepted, persisted,
                   shed, runs, begun, unpruned>>

FlushNext ==
    flusher' = IF flusher.keys = {} THEN IdleFlusher
               ELSE [pc |-> "load", keys |-> flusher.keys, cur |-> NoKey,
                     bytes |-> NoResult]

\* remove(key): whatever is stored under the key now is dropped.
FlushRemove ==
    /\ flusher.pc = "remove"
    /\ outbox' = [outbox EXCEPT ![flusher.cur] = NoResult]
    /\ FlushNext
    /\ UNCHANGED <<phase, enabled, journal, created, task, bounds, history>>

FlushRemoveFails ==
    /\ flusher.pc = "remove"
    /\ Fault
    /\ FlushNext
    /\ UNCHANGED <<phase, enabled, store, task, history>>

-----------------------------------------------------------------------------
(* Restart: crash, open_or_degrade, recover.                               *)

Crash ==
    /\ phase # "down"
    /\ crashes < MaxCrashes
    /\ crashes' = crashes + 1
    /\ phase' = "down"
    /\ enabled' = FALSE
    /\ task' = [t \in Tasks |-> FreeTask]
    /\ flusher' = IdleFlusher
    /\ unpruned' = unpruned + PrunesToCome
    /\ UNCHANGED <<store, clock, deliveries, faults, accepted, delivered,
                   persisted, shed, runs, begun>>

Open ==
    /\ phase = "down"
    /\ phase' = "recovering"
    /\ enabled' = TRUE
    /\ UNCHANGED <<store, task, flusher, bounds, history>>

\* The first open failed.  The file is renamed away unless the rename fails
\* too, and the second open decides between an empty store and no store.
OpenDegraded ==
    /\ phase = "down"
    /\ Fault
    /\ \E moved, reopened \in BOOLEAN :
         /\ enabled' = reopened
         /\ phase' = IF reopened THEN "recovering" ELSE "listening"
         /\ \/ /\ moved
               /\ journal' = [k \in Keys |-> "absent"]
               /\ outbox' = [k \in Keys |-> NoResult]
               /\ shed' = shed \cup Journaled \cup Pending
               /\ unpruned' = 0
            \/ /\ ~moved
               /\ UNCHANGED <<journal, outbox, shed, unpruned>>
    /\ UNCHANGED <<created, task, flusher, accepted, delivered, persisted,
                   runs, begun>>

\* Mutant of RecoverEntry: the record is dropped instead of completed.
RecoverEntry_Drops(k) ==
    /\ phase = "recovering"
    /\ journal[k] # "absent"
    /\ journal' = [journal EXCEPT ![k] = "absent"]
    /\ phase' = "rec_prune"
    /\ UNCHANGED <<enabled, outbox, created, task, flusher, bounds, history>>

\* recover(): one complete() per journal record left by the previous process.
RecoverEntry(k) ==
    /\ phase = "recovering"
    /\ journal[k] # "absent"
    /\ CompleteTxn(k, [kind |-> IF journal[k] = "started" THEN "interrupted"
                                ELSE "not_started",
                       run |-> runs[k]])
    /\ phase' = "rec_prune"
    /\ UNCHANGED <<enabled, task, flusher, bounds, accepted, delivered, shed,
                   runs, begun, unpruned>>

RecoverPrune ==
    /\ phase = "rec_prune"
    /\ PruneTxn
    /\ phase' = "recovering"
    /\ UNCHANGED <<enabled, task, flusher, bounds, accepted, delivered,
                   persisted, runs, begun>>

RecoverPruneFails ==
    /\ phase = "rec_prune"
    /\ Fault
    /\ phase' = "recovering"
    /\ unpruned' = unpruned + 1
    /\ UNCHANGED <<enabled, store, task, flusher, accepted, delivered,
                   persisted, shed, runs, begun>>

\* Mutant of StartListening: the listeners start before recovery is done.
StartListening_Early ==
    /\ phase = "recovering"
    /\ phase' = "listening"
    /\ UNCHANGED <<enabled, store, task, flusher, bounds, history>>

\* Start-up goes on to the flusher and the listeners when recovery is done,
\* and also when it returned Err with records left over.
StartListening ==
    /\ phase = "recovering"
    /\ Journaled = {}
    /\ phase' = "listening"
    /\ UNCHANGED <<enabled, store, task, flusher, bounds, history>>

RecoverFails ==
    /\ phase = "recovering"
    /\ Journaled # {}
    /\ Fault
    /\ phase' = "listening"
    /\ UNCHANGED <<enabled, store, task, flusher, history>>

Tick ==
    /\ clock < MaxClock
    /\ clock' = clock + 1
    /\ UNCHANGED <<phase, enabled, store, task, flusher, deliveries, crashes,
                   faults, history>>

-----------------------------------------------------------------------------
HandlerStep(t) ==
    \/ JournalBatch(t) \/ MarkStarted(t) \/ StartScript(t) \/ Complete(t)
    \/ Prune(t) \/ BestEffort(t) \/ JournalRemove(t) \/ PublishDirectly(t)

HandlerFault(t) ==
    \/ JournalBatchFails(t) \/ MarkStartedFails(t) \/ CompleteFails(t)
    \/ PruneFails(t) \/ JournalRemoveFails(t)

FlusherStep == FlushWake \/ FlushLoad \/ FlushSkip \/ FlushRemove

StartUpStep ==
    \/ Open \/ RecoverPrune \/ StartListening
    \/ \E k \in Keys : RecoverEntry(k)

Next ==
    \/ \E t \in Tasks : HandlerStep(t) \/ HandlerFault(t)
    \/ \E t \in Tasks, e \in Execs : Deliver(t, e)
    \/ FlusherStep \/ FlushPublish \/ FlushPublishFails
    \/ FlushLoadFails \/ FlushRemoveFails
    \/ StartUpStep \/ OpenDegraded \/ RecoverFails \/ RecoverPruneFails
    \/ Crash \/ Tick

Spec == Init /\ [][Next]_vars

\* The tokio runtime keeps polling ready tasks; the service manager restarts
\* the agent; a publish attempted for ever succeeds some time.
Fairness ==
    /\ \A t \in Tasks : WF_vars(HandlerStep(t))
    /\ WF_vars(FlusherStep)
    /\ SF_vars(FlushPublish)
    /\ WF_vars(FlushPublish \/ FlushPublishFails)
    /\ WF_vars(StartUpStep)

LiveSpec == Spec /\ Fairness

-----------------------------------------------------------------------------
(* What the durable path guarantees.                                       *)

Executing == {"mark", "start", "run", "best_effort", "unjournal"}
TaskPCs == {"free", "journal", "prune", "direct_start", "direct_run"} \cup Executing

StoreTypeOK ==
    /\ phase \in {"down", "recovering", "rec_prune", "listening"}
    /\ enabled \in BOOLEAN
    /\ journal \in [Keys -> {"absent", "journaled", "started"}]
    /\ outbox \in [Keys -> Results \cup {NoResult}]
    /\ created \in [Keys -> Nat]
    /\ clock \in Nat /\ deliveries \in Nat /\ crashes \in Nat /\ faults \in Nat

\* A handler at work stands at a script of its batch.
TaskTypeOK ==
    /\ task \in [Tasks -> [pc : TaskPCs, exec : Execs, idx : Nat]]
    /\ \A t \in Tasks :
         task[t].pc # "free" => task[t].idx \in 1..Len(Scripts[task[t].exec])

\* The flusher holds the key and the bytes of the result it is about to send.
FlusherTypeOK ==
    /\ flusher \in [pc : {"idle", "load", "publish", "remove"},
                     keys : SUBSET Keys, cur : Keys \cup {NoKey},
                     bytes : Results \cup {NoResult}]
    /\ flusher.pc \in {"publish", "remove"} => flusher.cur \in Keys
    /\ flusher.pc = "publish" => flusher.bytes \in Results

HistoryTypeOK ==
    /\ accepted \subseteq Keys
    /\ delivered \subseteq Keys \X Results
    /\ persisted \subseteq Keys \X Results
    /\ shed \subseteq Keys
    /\ runs \in [Keys -> Nat]
    /\ begun \subseteq Keys
    /\ unpruned \in Nat

\* The type invariant: in particular the flusher never publishes an empty
\* payload and no handler runs past the end of its batch.
TypeOK == StoreTypeOK /\ TaskTypeOK /\ FlusherTypeOK /\ HistoryTypeOK

\* Once journal_batch accepted a batch, every script of it is in the journal,
\* in the outbox, answered to the backend, or given up by pruning or by the
\* quarantine of the file: across crashes, failing database calls, timeouts
\* of the flusher and redelivered batches, no script is forgotten.
NoSilentLoss == accepted \subseteq Journaled \cup Pending \cup Answered \cup shed

\* journal_batch keeps a redelivered batch out while a handler still works on
\* the first copy: no two durable handlers run scripts of one batch.
ExclusiveBatch ==
    \A t, u \in Tasks :
        t # u /\ task[t].pc \in Executing /\ task[u].pc \in Executing
            => task[t].exec # task[u].exec

\* complete() commits first and prunes in a second transaction, so the outbox
\* exceeds OUTBOX_MAX_ENTRIES only by the completions whose prune is still to
\* come or was lost to a crash or a failing call.
OutboxBound ==
    Cardinality(Pending) <= Cap + PrunesToCome + unpruned

\* The write-ahead mark: while journal_mark_started succeeds, a record that
\* recover() would report as "not executed" is of a script that never began.
HonestJournal ==
    faults = 0 => \A k \in Keys : journal[k] = "journaled" => k \notin begun

\* The durable path implements the abstract promise to the backend.
Abstract == INSTANCE ResultDelivery WITH
    owed <- Journaled \cup Pending, answered <- Answered, shed <- shed
DeliversResults == Abstract!ASpec

\* Every accepted script is answered or given up in the end, whatever crashes
\* and publish failures come in between, and also beside an oversized result
\* that stays in the outbox for good.
EventuallyAnswered ==
    \A k \in Keys \ Oversized : k \in accepted ~> k \in Answered \cup shed

-----------------------------------------------------------------------------
(* Statements of the repository that the code does not keep.               *)

\* "result_store: Durable journal for at-least-once delivery": the newest
\* result complete() committed for a key stays in the outbox until it, and not
\* an older result of the same key, was delivered, or the key was shed.
AtLeastOnceDelivery ==
    \A p \in persisted :
        (\A q \in persisted : q[1] = p[1] => q[2].run <= p[2].run)
            => p \in delivered \/ outbox[p[1]] = p[2] \/ p[1] \in shed

\* "not executed: agent restarted earlier in batch" is stored only for a
\* script that did not begin since its batch was accepted.
NotStartedMeansNotExecuted ==
    phase = "recovering" =>
        \A k \in Keys : journal[k] = "journaled" => k \notin begun

=============================================================================
