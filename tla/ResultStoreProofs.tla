-------------------------- MODULE ResultStoreProofs --------------------------
(***************************************************************************)
(* Theorems about the durable result path, for every set of batches, every *)
(* capacity and every bound on deliveries, crashes and faults.             *)
(***************************************************************************)
EXTENDS ResultStore, FiniteSetTheorems, TLAPS

TaskType == [pc : TaskPCs, exec : Execs, idx : Nat]

\* A handler that is done carries some execution id, whichever.
LEMMA FreeTaskType == FreeTask \in TaskType /\ FreeTask.pc = "free"
  BY ScriptsAssumption DEF FreeTask, TaskType, TaskPCs

\* A running handler stands at a script of its batch.
LEMMA EntryType ==
  ASSUME TaskTypeOK, NEW t \in Tasks, task[t].pc # "free"
  PROVE  /\ Entry(t) \in Keys
         /\ task[t].exec \in Execs
         /\ task[t].idx \in 1..Len(Scripts[task[t].exec])
  <1>1. task[t].exec \in Execs /\ task[t].idx \in 1..Len(Scripts[task[t].exec])
    BY DEF TaskTypeOK
  <1>2. QED
    BY <1>1 DEF Entry, Keys, BatchKeys

\* A handler that gets a well-typed record leaves the others well-typed.
LEMMA TaskUpdateType ==
  ASSUME TaskTypeOK, NEW t \in Tasks, NEW new \in TaskType,
         new.pc # "free" => new.idx \in 1..Len(Scripts[new.exec]),
         task' = [task EXCEPT ![t] = new]
  PROVE  TaskTypeOK'
  BY DEF TaskTypeOK, TaskType

LEMMA FreeType ==
  ASSUME TaskTypeOK, NEW t \in Tasks, task' = [task EXCEPT ![t] = FreeTask]
  PROVE  TaskTypeOK'
  BY TaskUpdateType, FreeTaskType

\* The loop over the requests ends the task or moves to a later script.
LEMMA NextScriptType ==
  ASSUME TaskTypeOK, NEW t \in Tasks, task[t].pc # "free",
         NEW pc \in TaskPCs, NextScript(t, pc)
  PROVE  TaskTypeOK'
  <1>1. task[t].exec \in Execs /\ task[t].idx \in 1..Len(Scripts[task[t].exec])
    BY EntryType
  <1>2. Len(Scripts[task[t].exec]) \in Nat
    BY <1>1, ScriptsAssumption
  <1>4. CASE task[t].idx < Len(Scripts[task[t].exec])
    <2> DEFINE new == [pc |-> pc, exec |-> task[t].exec, idx |-> task[t].idx + 1]
    <2>1. new \in TaskType /\ new.idx \in 1..Len(Scripts[new.exec])
      BY <1>1, <1>2, <1>4 DEF TaskType
    <2>2. task' = [task EXCEPT ![t] = new]
      BY <1>4 DEF NextScript
    <2> HIDE DEF new
    <2>3. QED
      BY <2>1, <2>2, TaskUpdateType
  <1>5. CASE ~(task[t].idx < Len(Scripts[task[t].exec]))
    <2>1. task' = [task EXCEPT ![t] = FreeTask]
      BY <1>5 DEF NextScript
    <2>2. QED
      BY <2>1, FreeType
  <1>6. QED
    BY <1>4, <1>5

\* A handler that only moves its program counter keeps its batch and script.
LEMMA GotoType ==
  ASSUME TaskTypeOK, NEW t \in Tasks, task[t].pc # "free",
         NEW pc \in TaskPCs, Goto(t, pc)
  PROVE  TaskTypeOK'
  <1> DEFINE new == [task[t] EXCEPT !.pc = pc]
  <1>1. task' = [task EXCEPT ![t] = new]
    BY DEF Goto
  <1>2. task[t] \in TaskType /\ task[t].idx \in 1..Len(Scripts[task[t].exec])
    BY DEF TaskTypeOK, TaskType
  <1>3. new \in TaskType /\ new.idx = task[t].idx /\ new.exec = task[t].exec
    BY <1>2 DEF TaskType
  <1> HIDE DEF new
  <1>4. QED
    BY <1>1, <1>2, <1>3, TaskUpdateType
-----------------------------------------------------------------------------
(* Type correctness.                                                       *)

LEMMA PCsType ==
  {"free", "journal", "mark", "start", "run", "prune", "best_effort",
   "unjournal", "direct_start", "direct_run"} = TaskPCs
  BY DEF TaskPCs, Executing

\* Pruning removes pending keys and no others.
LEMMA PruneType ==
  ASSUME TypeOK, PruneTxn
  PROVE  /\ journal' = journal /\ created' = created
         /\ outbox' \in [Keys -> Results \cup {NoResult}]
         /\ shed' \subseteq Keys
         /\ unpruned' \in Nat
  <1>1. PICK V \in SUBSET Pending :
          /\ outbox' = [k \in Keys |-> IF k \in V THEN NoResult ELSE outbox[k]]
          /\ shed' = shed \cup V
    BY DEF PruneTxn
  <1>2. V \subseteq Keys
    BY DEF Pending
  <1>3. QED
    BY <1>1, <1>2 DEF PruneTxn, TypeOK, StoreTypeOK, HistoryTypeOK

LEMMA BatchKeysType ==
  ASSUME NEW e \in Execs PROVE BatchKeys(e) \subseteq Keys
  BY DEF Keys

\* What a handler's step does to the types.
LEMMA HandlerType ==
  ASSUME TypeOK, NEW t \in Tasks, HandlerStep(t) \/ HandlerFault(t)
  PROVE  TypeOK'
  <1> USE DEF TypeOK
  <1>1. CASE JournalBatch(t)
    <2>1. TaskTypeOK'
      BY <1>1, EntryType, FreeType, GotoType, PCsType DEF JournalBatch
    <2>2. task[t].pc # "free"
      BY <1>1 DEF JournalBatch
    <2>3. StoreTypeOK' /\ FlusherTypeOK' /\ HistoryTypeOK'
      BY <1>1, <2>2, EntryType, BatchKeysType DEF JournalBatch, StoreTypeOK, FlusherTypeOK, HistoryTypeOK,
         store, bounds, history
    <2>4. QED
      BY <2>1, <2>3
  <1>2. CASE JournalBatchFails(t)
    <2>1. TaskTypeOK'
      BY <1>2, EntryType, GotoType, PCsType DEF JournalBatchFails
    <2>2. task[t].pc # "free"
      BY <1>2 DEF JournalBatchFails
    <2>3. StoreTypeOK' /\ FlusherTypeOK' /\ HistoryTypeOK'
      BY <1>2, <2>2, EntryType DEF JournalBatchFails, StoreTypeOK, FlusherTypeOK, HistoryTypeOK,
         store, bounds, history, Fault
    <2>4. QED
      BY <2>1, <2>3
  <1>3. CASE MarkStarted(t)
    <2>1. TaskTypeOK'
      BY <1>3, EntryType, GotoType, PCsType DEF MarkStarted
    <2>2. task[t].pc # "free"
      BY <1>3 DEF MarkStarted
    <2>3. StoreTypeOK' /\ FlusherTypeOK' /\ HistoryTypeOK'
      BY <1>3, <2>2, EntryType DEF MarkStarted, StoreTypeOK, FlusherTypeOK, HistoryTypeOK,
         store, bounds, history
    <2>4. QED
      BY <2>1, <2>3
  <1>4. CASE MarkStartedFails(t)
    <2>1. TaskTypeOK'
      BY <1>4, EntryType, GotoType, PCsType DEF MarkStartedFails
    <2>2. task[t].pc # "free"
      BY <1>4 DEF MarkStartedFails
    <2>3. StoreTypeOK' /\ FlusherTypeOK' /\ HistoryTypeOK'
      BY <1>4, <2>2, EntryType DEF MarkStartedFails, StoreTypeOK, FlusherTypeOK, HistoryTypeOK,
         store, bounds, history, Fault
    <2>4. QED
      BY <2>1, <2>3
  <1>5. CASE StartScript(t)
    <2>1. TaskTypeOK'
      BY <1>5, EntryType, GotoType, PCsType DEF StartScript
    <2>2. task[t].pc # "free"
      BY <1>5 DEF StartScript
    <2>3. StoreTypeOK' /\ FlusherTypeOK' /\ HistoryTypeOK'
      BY <1>5, <2>2, EntryType DEF StartScript, StoreTypeOK, FlusherTypeOK, HistoryTypeOK,
         store, bounds, history
    <2>4. QED
      BY <2>1, <2>3
  <1>6. CASE Complete(t)
    <2>1. TaskTypeOK'
      BY <1>6, EntryType, GotoType, PCsType DEF Complete
    <2>2. task[t].pc # "free"
      BY <1>6 DEF Complete
    <2>3. StoreTypeOK' /\ FlusherTypeOK' /\ HistoryTypeOK'
      BY <1>6, <2>2, EntryType DEF Complete, StoreTypeOK, FlusherTypeOK, HistoryTypeOK,
         store, bounds, history, CompleteTxn, Outcome, Results, Kinds
    <2>4. QED
      BY <2>1, <2>3
  <1>7. CASE CompleteFails(t)
    <2>1. TaskTypeOK'
      BY <1>7, EntryType, GotoType, PCsType DEF CompleteFails
    <2>2. task[t].pc # "free"
      BY <1>7 DEF CompleteFails
    <2>3. StoreTypeOK' /\ FlusherTypeOK' /\ HistoryTypeOK'
      BY <1>7, <2>2, EntryType DEF CompleteFails, StoreTypeOK, FlusherTypeOK, HistoryTypeOK,
         store, bounds, history, Fault
    <2>4. QED
      BY <2>1, <2>3
  <1>8. CASE Prune(t)
    <2>1. TaskTypeOK'
      BY <1>8, EntryType, NextScriptType, PCsType DEF Prune
    <2>2. task[t].pc # "free"
      BY <1>8 DEF Prune
    <2>3. StoreTypeOK' /\ FlusherTypeOK' /\ HistoryTypeOK'
      BY <1>8, <2>2, EntryType, PruneType DEF Prune, StoreTypeOK, FlusherTypeOK, HistoryTypeOK,
         store, bounds, history
    <2>4. QED
      BY <2>1, <2>3
  <1>9. CASE PruneFails(t)
    <2>1. TaskTypeOK'
      BY <1>9, EntryType, NextScriptType, PCsType DEF PruneFails
    <2>2. task[t].pc # "free"
      BY <1>9 DEF PruneFails
    <2>3. StoreTypeOK' /\ FlusherTypeOK' /\ HistoryTypeOK'
      BY <1>9, <2>2, EntryType DEF PruneFails, StoreTypeOK, FlusherTypeOK, HistoryTypeOK,
         store, bounds, history, Fault
    <2>4. QED
      BY <2>1, <2>3
  <1>10. CASE BestEffort(t)
    <2>1. TaskTypeOK'
      BY <1>10, EntryType, NextScriptType, GotoType, PCsType DEF BestEffort
    <2>2. task[t].pc # "free"
      BY <1>10 DEF BestEffort
    <2>3. StoreTypeOK' /\ FlusherTypeOK' /\ HistoryTypeOK'
      BY <1>10, <2>2, EntryType DEF BestEffort, StoreTypeOK, FlusherTypeOK, HistoryTypeOK,
         store, bounds, history, Outcome, Results, Kinds
    <2>4. QED
      BY <2>1, <2>3
  <1>11. CASE JournalRemove(t)
    <2>1. TaskTypeOK'
      BY <1>11, EntryType, NextScriptType, PCsType DEF JournalRemove
    <2>2. task[t].pc # "free"
      BY <1>11 DEF JournalRemove
    <2>3. StoreTypeOK' /\ FlusherTypeOK' /\ HistoryTypeOK'
      BY <1>11, <2>2, EntryType DEF JournalRemove, StoreTypeOK, FlusherTypeOK, HistoryTypeOK,
         store, bounds, history
    <2>4. QED
      BY <2>1, <2>3
  <1>12. CASE JournalRemoveFails(t)
    <2>1. TaskTypeOK'
      BY <1>12, EntryType, NextScriptType, PCsType DEF JournalRemoveFails
    <2>2. task[t].pc # "free"
      BY <1>12 DEF JournalRemoveFails
    <2>3. StoreTypeOK' /\ FlusherTypeOK' /\ HistoryTypeOK'
      BY <1>12, <2>2, EntryType DEF JournalRemoveFails, StoreTypeOK, FlusherTypeOK, HistoryTypeOK,
         store, bounds, history, Fault
    <2>4. QED
      BY <2>1, <2>3
  <1>13. CASE PublishDirectly(t)
    <2>1. TaskTypeOK'
      BY <1>13, EntryType, NextScriptType, PCsType DEF PublishDirectly
    <2>2. task[t].pc # "free"
      BY <1>13 DEF PublishDirectly
    <2>3. StoreTypeOK' /\ FlusherTypeOK' /\ HistoryTypeOK'
      BY <1>13, <2>2, EntryType DEF PublishDirectly, StoreTypeOK, FlusherTypeOK, HistoryTypeOK,
         store, bounds, history, Outcome, Results, Kinds
    <2>4. QED
      BY <2>1, <2>3
  <1>14. QED
    BY <1>1, <1>2, <1>3, <1>4, <1>5, <1>6, <1>7, <1>8, <1>9, <1>10, <1>11, <1>12, <1>13 DEF HandlerStep, HandlerFault

\* What a step of the flusher does to the types.
LEMMA FlusherType ==
  ASSUME TypeOK,
         FlusherStep \/ FlushPublish \/ FlushPublishFails
           \/ FlushLoadFails \/ FlushRemoveFails
  PROVE  TypeOK'
  <1> USE DEF TypeOK
  <1>1. CASE FlushWake
    BY <1>1 DEF FlushWake, StoreTypeOK, FlusherTypeOK, HistoryTypeOK, TaskTypeOK,
       store, bounds, history, Pending
  <1>2. CASE FlushLoad
    BY <1>2 DEF FlushLoad, StoreTypeOK, FlusherTypeOK, HistoryTypeOK, TaskTypeOK,
       store, bounds, history
  <1>3. CASE FlushLoadFails
    BY <1>3 DEF FlushLoadFails, StoreTypeOK, FlusherTypeOK, HistoryTypeOK, TaskTypeOK,
       store, bounds, history, Fault, IdleFlusher
  <1>4. CASE FlushPublish
    <2>1. flusher' \in [pc : {"idle", "load", "publish", "remove"},
                       keys : SUBSET Keys, cur : Keys \cup {NoKey},
                       bytes : Results \cup {NoResult}]
          /\ flusher'.pc = "remove" /\ flusher'.cur = flusher.cur
      BY <1>4 DEF FlushPublish, FlusherTypeOK
    <2>2. FlusherTypeOK'
      BY <1>4, <2>1 DEF FlushPublish, FlusherTypeOK
    <2>3. delivered' \subseteq Keys \X Results
      BY <1>4 DEF FlushPublish, FlusherTypeOK, HistoryTypeOK
    <2>4. StoreTypeOK' /\ TaskTypeOK' /\ HistoryTypeOK'
      BY <1>4, <2>3 DEF FlushPublish, StoreTypeOK, HistoryTypeOK, TaskTypeOK,
         store, bounds
    <2>5. QED
      BY <2>2, <2>4
  <1>5. CASE FlushPublishFails
    BY <1>5 DEF FlushPublishFails, StoreTypeOK, FlusherTypeOK, HistoryTypeOK, TaskTypeOK,
       store, bounds, history, IdleFlusher
  <1>6. CASE FlushRemove
    BY <1>6 DEF FlushRemove, StoreTypeOK, FlusherTypeOK, HistoryTypeOK, TaskTypeOK,
       store, bounds, history, FlushNext, IdleFlusher
  <1>7. CASE FlushRemoveFails
    BY <1>7 DEF FlushRemoveFails, StoreTypeOK, FlusherTypeOK, HistoryTypeOK, TaskTypeOK,
       store, bounds, history, FlushNext, IdleFlusher, Fault
  <1>8. CASE FlushSkip
    <2>1. flusher'.pc \in {"idle", "load"} /\ FlusherTypeOK'
      BY <1>8 DEF FlushSkip, FlusherTypeOK, IdleFlusher
    <2>2. StoreTypeOK' /\ TaskTypeOK' /\ HistoryTypeOK'
      BY <1>8 DEF FlushSkip, StoreTypeOK, HistoryTypeOK, TaskTypeOK,
         store, bounds, history
    <2>3. QED
      BY <2>1, <2>2
  <1>9. QED
    BY <1>1, <1>2, <1>3, <1>4, <1>5, <1>6, <1>7, <1>8 DEF FlusherStep

\* What restarts, recovery and the clock do to the types.
LEMMA StartUpType ==
  ASSUME TypeOK,
         Crash \/ StartUpStep \/ OpenDegraded \/ RecoverPruneFails
           \/ RecoverFails \/ Tick
  PROVE  TypeOK'
  <1> USE DEF TypeOK
  <1>1. CASE Crash
    <2>1. TaskTypeOK'
      BY <1>1, FreeTaskType DEF Crash, TaskTypeOK, TaskType
    <2>2. PrunesToCome \in Nat
      BY TasksAssumption, FS_Subset, FS_CardinalityType DEF PrunesToCome
    <2>3. StoreTypeOK'
      <3>1. crashes' \in Nat
        BY <1>1 DEF Crash, StoreTypeOK
      <3>2. enabled' \in BOOLEAN
        BY <1>1, Zenon DEF Crash
      <3>3. QED
        BY <1>1, <3>1, <3>2 DEF Crash, StoreTypeOK, store
    <2>4. FlusherTypeOK'
      BY <1>1 DEF Crash, FlusherTypeOK, IdleFlusher
    <2>5. HistoryTypeOK'
      BY <1>1, <2>2 DEF Crash, HistoryTypeOK
    <2>6. QED
      BY <2>1, <2>3, <2>4, <2>5
  <1>2. CASE Open
    BY <1>2 DEF Open, StoreTypeOK, FlusherTypeOK, HistoryTypeOK, TaskTypeOK,
       store, bounds, history
  <1>3. CASE OpenDegraded
    BY <1>3 DEF OpenDegraded, StoreTypeOK, FlusherTypeOK, HistoryTypeOK, TaskTypeOK,
       store, bounds, history, Fault, Journaled, Pending
  <1>4. CASE RecoverPrune
    BY <1>4, PruneType DEF RecoverPrune, StoreTypeOK, FlusherTypeOK,
       HistoryTypeOK, TaskTypeOK, bounds
  <1>5. CASE RecoverPruneFails
    BY <1>5 DEF RecoverPruneFails, StoreTypeOK, FlusherTypeOK, HistoryTypeOK, TaskTypeOK,
       store, bounds, history, Fault
  <1>6. CASE StartListening
    BY <1>6 DEF StartListening, StoreTypeOK, FlusherTypeOK, HistoryTypeOK, TaskTypeOK,
       store, bounds, history
  <1>7. CASE RecoverFails
    BY <1>7 DEF RecoverFails, StoreTypeOK, FlusherTypeOK, HistoryTypeOK, TaskTypeOK,
       store, bounds, history, Fault
  <1>8. CASE Tick
    BY <1>8 DEF Tick, StoreTypeOK, FlusherTypeOK, HistoryTypeOK, TaskTypeOK,
       store, bounds, history
  <1>9. ASSUME NEW k \in Keys, RecoverEntry(k) PROVE TypeOK'
    BY <1>9 DEF RecoverEntry, CompleteTxn, Results, Kinds, StoreTypeOK, FlusherTypeOK, HistoryTypeOK,
       TaskTypeOK, store, bounds, history
  <1>10. QED
    BY <1>1, <1>2, <1>3, <1>4, <1>5, <1>6, <1>7, <1>8, <1>9 DEF StartUpStep

\* A delivered message occupies a free handler.
LEMMA DeliverType ==
  ASSUME TypeOK, NEW t \in Tasks, NEW e \in Execs, Deliver(t, e)
  PROVE  TypeOK'
  <1> DEFINE new == [pc |-> IF enabled THEN "journal" ELSE "direct_start",
                     exec |-> e, idx |-> 1]
  <1>1. new \in TaskType /\ new.idx \in 1..Len(Scripts[new.exec])
    BY ScriptsAssumption, PCsType DEF Deliver, TaskType
  <1>2. task' = [task EXCEPT ![t] = new]
    BY DEF Deliver
  <1> HIDE DEF new
  <1>3. TaskTypeOK'
    BY <1>1, <1>2, TaskUpdateType DEF TypeOK
  <1>4. StoreTypeOK' /\ FlusherTypeOK' /\ HistoryTypeOK'
    BY DEF Deliver, TypeOK, StoreTypeOK, FlusherTypeOK, HistoryTypeOK, store,
           history
  <1>5. QED
    BY <1>3, <1>4 DEF TypeOK

LEMMA TypeInductive == TypeOK /\ [Next]_vars => TypeOK'
  <1> SUFFICES ASSUME TypeOK, [Next]_vars PROVE TypeOK'
    OBVIOUS
  <1>1. CASE UNCHANGED vars
    BY <1>1 DEF vars, store, bounds, history, TypeOK, StoreTypeOK, TaskTypeOK,
                FlusherTypeOK, HistoryTypeOK
  <1>2. CASE Next
    BY <1>2, HandlerType, FlusherType, StartUpType, DeliverType DEF Next
  <1>3. QED
    BY <1>1, <1>2

LEMMA TypeInit == Init => TypeOK
  <1> SUFFICES ASSUME Init PROVE TypeOK
    OBVIOUS
  <1>1. StoreTypeOK
    BY DEF Init, StoreTypeOK
  <1>2. TaskTypeOK
    BY FreeTaskType DEF Init, TaskTypeOK, TaskType
  <1>3. FlusherTypeOK
    BY DEF Init, FlusherTypeOK, IdleFlusher
  <1>4. HistoryTypeOK
    BY DEF Init, HistoryTypeOK
  <1>5. QED
    BY <1>1, <1>2, <1>3, <1>4 DEF TypeOK

\* The state of the store, of the handlers and of the flusher keeps its shape
\* in every reachable state; no handler runs past the end of its batch and the
\* flusher never publishes an empty payload.
THEOREM TypeCorrect == Spec => []TypeOK
  BY TypeInit, TypeInductive, PTL DEF Spec

-----------------------------------------------------------------------------
(* No accepted script is forgotten.  NoSilentLoss is not inductive: the    *)
(* flusher and the best-effort path remove an entry some steps after they  *)
(* sent its result, so the invariant also says what they know by then.     *)

\* Only a listening agent has handlers and a flusher at work.
Quiet ==
    phase # "listening" =>
        /\ \A t \in Tasks : task[t].pc = "free"
        /\ flusher = IdleFlusher

\* A key the flusher is to visit is pending, or was disposed of meanwhile; the
\* key it is about to remove was answered or shed.
FlushSound ==
    /\ flusher.keys \subseteq Pending \cup Answered \cup shed
    /\ flusher.pc = "remove" => flusher.cur \in Answered \cup shed

\* A handler clears a journal entry by hand only after publishing its result.
UnjournalSound ==
    \A t \in Tasks : task[t].pc = "unjournal" => Entry(t) \in Answered

DeliveryInv == TypeOK /\ Quiet /\ FlushSound /\ UnjournalSound /\ NoSilentLoss

\* The bookkeeping all of these speak of.
Books == <<Journaled, Pending, Answered, accepted, shed>>

\* The step of the abstract specification that a step of the agent maps to.
Owed == Journaled \cup Pending
AbsStep == [Abstract!ANext]_(Abstract!avars)

LEMMA AbsStutter ==
  ASSUME Owed' = Owed, Answered' = Answered, shed' = shed
  PROVE  AbsStep
  BY DEF AbsStep, Owed, Abstract!avars

LEMMA AbsAccept ==
  ASSUME NEW S \in SUBSET Keys, Owed' = Owed \cup S, Answered' = Answered,
         shed' = shed
  PROVE  AbsStep
  BY DEF AbsStep, Owed, Abstract!ANext, Abstract!Accept

LEMMA AbsAnswer ==
  ASSUME NEW k \in Keys, Owed' = Owed, Answered' = Answered \cup {k}, shed' = shed
  PROVE  AbsStep
  <1>1. {k} \in SUBSET Keys
    OBVIOUS
  <1>2. QED
    BY <1>1 DEF AbsStep, Owed, Abstract!ANext, Abstract!Answer

LEMMA AbsDischarge ==
  ASSUME NEW k \in Keys, k \in Answered \cup shed,
         Owed' = Owed \/ Owed' = Owed \ {k}, Answered' = Answered, shed' = shed
  PROVE  AbsStep
  <1>1. CASE Owed' = Owed
    BY <1>1, AbsStutter
  <1>2. CASE Owed' = Owed \ {k}
    <2>1. {k} \in SUBSET Keys /\ {k} \subseteq Answered \cup shed
      OBVIOUS
    <2>2. QED
      BY <1>2, <2>1 DEF AbsStep, Owed, Abstract!ANext, Abstract!Discharge
  <1>3. QED
    BY <1>1, <1>2

LEMMA AbsShed ==
  ASSUME NEW S \in SUBSET Keys, S \subseteq Owed, Owed \ S \subseteq Owed',
         Owed' \subseteq Owed, Answered' = Answered, shed' = shed \cup S
  PROVE  AbsStep
  BY DEF AbsStep, Owed, Abstract!ANext, Abstract!Shed

LEMMA BooksUnchanged ==
  ASSUME UNCHANGED <<journal, outbox, delivered, accepted, shed>>
  PROVE  UNCHANGED Books
  BY DEF Books, Journaled, Pending, Answered

LEMMA AnswerBooks ==
  ASSUME NEW k, NEW r, delivered' = delivered \cup {<<k, r>>}
  PROVE  Answered' = Answered \cup {k}
  <1>1. <<k, r>>[1] = k
    OBVIOUS
  <1>2. ASSUME NEW x \in Answered' PROVE x \in Answered \cup {k}
    <2>1. PICK d \in delivered \cup {<<k, r>>} : x = d[1]
      BY <1>2 DEF Answered
    <2>2. QED
      BY <1>1, <2>1 DEF Answered
  <1>3. ASSUME NEW x \in Answered \cup {k} PROVE x \in Answered'
    <2>1. PICK d \in delivered \cup {<<k, r>>} : x = d[1]
      BY <1>1 DEF Answered
    <2>2. QED
      BY <2>1 DEF Answered
  <1>4. QED
    BY <1>2, <1>3

LEMMA CompleteBooks ==
  ASSUME TypeOK, NEW k \in Keys, NEW r \in Results, CompleteTxn(k, r)
  PROVE  /\ Journaled' = Journaled \ {k}
         /\ Pending' = Pending \cup {k}
  <1>1. r # NoResult
    BY DEF Results, Kinds, NoResult
  <1>2. QED
    BY <1>1 DEF CompleteTxn, TypeOK, StoreTypeOK, Journaled, Pending

LEMMA PruneBooks ==
  ASSUME TypeOK, PruneTxn
  PROVE  \E V \in SUBSET Pending :
           /\ Journaled' = Journaled
           /\ Pending' = Pending \ V
           /\ shed' = shed \cup V
  <1>1. PICK V \in SUBSET Pending :
          /\ outbox' = [k \in Keys |-> IF k \in V THEN NoResult ELSE outbox[k]]
          /\ shed' = shed \cup V
    BY DEF PruneTxn
  <1>2. Pending' = Pending \ V
    BY <1>1 DEF Pending
  <1>3. Journaled' = Journaled
    BY DEF PruneTxn, Journaled
  <1>4. QED
    BY <1>1, <1>2, <1>3

LEMMA OutcomeType ==
  ASSUME TypeOK, NEW t \in Tasks, task[t].pc # "free"
  PROVE  Outcome(t) \in Results
  BY EntryType DEF Outcome, Results, Kinds, TypeOK, HistoryTypeOK

\* Moving a handler leaves the other handlers alone.
LEMMA GotoOthers ==
  ASSUME TypeOK, NEW t \in Tasks, NEW pc, Goto(t, pc)
  PROVE  /\ task'[t].pc = pc
         /\ Entry(t)' = Entry(t)
         /\ \A u \in Tasks \ {t} : task'[u] = task[u]
  BY DEF Goto, TypeOK, TaskTypeOK, Entry

LEMMA NextScriptOthers ==
  ASSUME TypeOK, NEW t \in Tasks, NEW pc, NextScript(t, pc)
  PROVE  /\ task'[t].pc \in {pc, "free"}
         /\ \A u \in Tasks \ {t} : task'[u] = task[u]
  BY FreeTaskType DEF NextScript, TypeOK, TaskTypeOK

\* The handlers that stay where they are keep what UnjournalSound says.
LEMMA UnjournalKept ==
  ASSUME UnjournalSound, Answered \subseteq Answered', NEW t \in Tasks,
         \A u \in Tasks \ {t} : task'[u] = task[u],
         task'[t].pc = "unjournal" => Entry(t)' \in Answered'
  PROVE  UnjournalSound'
  BY DEF UnjournalSound, Entry

LEMMA DeliveryHandler ==
  ASSUME DeliveryInv, NEW t \in Tasks, HandlerStep(t) \/ HandlerFault(t)
  PROVE  Quiet' /\ FlushSound' /\ UnjournalSound' /\ NoSilentLoss' /\ AbsStep
  <1> USE DEF DeliveryInv
  <1> TypeOK
    OBVIOUS
  <1>0. /\ phase = "listening" /\ phase' = phase /\ flusher' = flusher
        /\ task[t].pc # "free"
    BY DEF HandlerStep, HandlerFault, JournalBatch, JournalBatchFails,
           MarkStarted, MarkStartedFails, StartScript, Complete, CompleteFails,
           Prune, PruneFails, BestEffort, JournalRemove, JournalRemoveFails,
           PublishDirectly, Quiet
  <1>q. Quiet'
    BY <1>0 DEF Quiet
  <1>e. Entry(t) \in Keys /\ Outcome(t) \in Results /\ task[t].exec \in Execs
    BY <1>0, EntryType, OutcomeType DEF TypeOK
  <1>1. CASE JournalBatch(t)
    <2>1. /\ Journaled \subseteq Journaled' /\ Journaled' \subseteq Keys
          /\ accepted' \subseteq accepted \cup Journaled'
          /\ Pending' = Pending /\ Answered' = Answered /\ shed' = shed
      BY <1>1, <1>e, BatchKeysType
      DEF JournalBatch, Journaled, Pending, Answered, TypeOK, StoreTypeOK
    <2>2. task'[t].pc # "unjournal" /\ \A u \in Tasks \ {t} : task'[u] = task[u]
      BY <1>1, GotoOthers, FreeTaskType
      DEF JournalBatch, TypeOK, TaskTypeOK
    <2>3. AbsStep
      BY <2>1, AbsAccept DEF Owed
    <2>4. QED
      BY <1>0, <1>q, <2>1, <2>2, <2>3, UnjournalKept DEF FlushSound, NoSilentLoss
  <1>2. CASE \/ JournalBatchFails(t) \/ MarkStartedFails(t) \/ CompleteFails(t)
             \/ StartScript(t)
    <2>1. UNCHANGED Books
      BY <1>2, BooksUnchanged DEF JournalBatchFails, MarkStartedFails,
         CompleteFails, StartScript, store, history
    <2>2. task'[t].pc # "unjournal" /\ \A u \in Tasks \ {t} : task'[u] = task[u]
      BY <1>2, GotoOthers DEF JournalBatchFails, MarkStartedFails,
         CompleteFails, StartScript
    <2>3. QED
      BY <1>0, <1>q, <2>1, <2>2, UnjournalKept, AbsStutter
      DEF Books, FlushSound, NoSilentLoss, Owed
  <1>3. CASE MarkStarted(t)
    <2>1. UNCHANGED Books
      BY <1>3, <1>e DEF MarkStarted, Books, Journaled, Pending, Answered,
         history, TypeOK, StoreTypeOK
    <2>2. task'[t].pc # "unjournal" /\ \A u \in Tasks \ {t} : task'[u] = task[u]
      BY <1>3, GotoOthers DEF MarkStarted
    <2>3. QED
      BY <1>0, <1>q, <2>1, <2>2, UnjournalKept, AbsStutter
      DEF Books, FlushSound, NoSilentLoss, Owed
  <1>4. CASE Complete(t)
    <2>1. /\ Journaled' = Journaled \ {Entry(t)} /\ Pending' = Pending \cup {Entry(t)}
          /\ Answered' = Answered /\ shed' = shed /\ accepted' = accepted
      BY <1>4, <1>e, CompleteBooks DEF Complete, Answered
    <2>2. task'[t].pc # "unjournal" /\ \A u \in Tasks \ {t} : task'[u] = task[u]
      BY <1>4, GotoOthers DEF Complete
    <2>3. AbsStep
      BY <1>e, <2>1, AbsAccept DEF Owed
    <2>4. QED
      BY <1>0, <1>q, <2>1, <2>2, <2>3, UnjournalKept DEF FlushSound, NoSilentLoss
  <1>5. CASE Prune(t)
    <2>1. PICK V \in SUBSET Pending :
            /\ Journaled' = Journaled /\ Pending' = Pending \ V
            /\ shed' = shed \cup V
      BY <1>5, PruneBooks DEF Prune
    <2>2. Answered' = Answered /\ accepted' = accepted
      BY <1>5 DEF Prune, Answered
    <2>3. task'[t].pc # "unjournal" /\ \A u \in Tasks \ {t} : task'[u] = task[u]
      BY <1>5, NextScriptOthers DEF Prune
    <2>4. AbsStep
      BY <2>1, <2>2, AbsShed DEF Owed, Pending
    <2>5. QED
      BY <1>0, <1>q, <2>1, <2>2, <2>3, <2>4, UnjournalKept
      DEF FlushSound, NoSilentLoss
  <1>6. CASE PruneFails(t) \/ JournalRemoveFails(t)
    <2>1. UNCHANGED Books
      BY <1>6, BooksUnchanged DEF PruneFails, JournalRemoveFails, store, history
    <2>2. task'[t].pc # "unjournal" /\ \A u \in Tasks \ {t} : task'[u] = task[u]
      BY <1>6, NextScriptOthers DEF PruneFails, JournalRemoveFails
    <2>3. QED
      BY <1>0, <1>q, <2>1, <2>2, UnjournalKept, AbsStutter
      DEF Books, FlushSound, NoSilentLoss, Owed
  <1>7. CASE BestEffort(t)
    <2>1. Journaled' = Journaled /\ Pending' = Pending
          /\ shed' = shed /\ accepted' = accepted
      BY <1>7 DEF BestEffort, store, Journaled, Pending
    <2>2. CASE delivered' = delivered \cup {<<Entry(t), Outcome(t)>>}
               /\ Goto(t, "unjournal")
      <3>1. Answered' = Answered \cup {Entry(t)}
        BY <2>2, AnswerBooks
      <3>2. Entry(t)' = Entry(t) /\ \A u \in Tasks \ {t} : task'[u] = task[u]
        BY <2>2, GotoOthers
      <3>3. AbsStep
        BY <1>e, <2>1, <3>1, AbsAnswer DEF Owed
      <3>4. QED
        BY <1>0, <1>q, <2>1, <3>1, <3>2, <3>3, UnjournalKept
        DEF FlushSound, NoSilentLoss
    <2>3. CASE NextScript(t, "mark") /\ UNCHANGED delivered
      <3>1. Answered' = Answered
        BY <2>3 DEF Answered
      <3>2. task'[t].pc # "unjournal" /\ \A u \in Tasks \ {t} : task'[u] = task[u]
        BY <2>3, NextScriptOthers
      <3>3. QED
        BY <1>0, <1>q, <2>1, <3>1, <3>2, UnjournalKept, AbsStutter
        DEF FlushSound, NoSilentLoss, Owed
    <2>4. QED
      BY <1>7, <2>2, <2>3 DEF BestEffort
  <1>8. CASE JournalRemove(t)
    <2>1. /\ Journaled' = Journaled \ {Entry(t)} /\ Pending' = Pending
          /\ Answered' = Answered /\ shed' = shed /\ accepted' = accepted
      BY <1>8, <1>e DEF JournalRemove, Journaled, Pending, Answered, history,
         TypeOK, StoreTypeOK
    <2>2. Entry(t) \in Answered
      BY <1>8 DEF JournalRemove, UnjournalSound
    <2>3. task'[t].pc # "unjournal" /\ \A u \in Tasks \ {t} : task'[u] = task[u]
      BY <1>8, NextScriptOthers DEF JournalRemove
    <2>4. AbsStep
      BY <1>e, <2>1, <2>2, AbsDischarge DEF Owed
    <2>5. QED
      BY <1>0, <1>q, <2>1, <2>2, <2>3, <2>4, UnjournalKept
      DEF FlushSound, NoSilentLoss
  <1>9. CASE PublishDirectly(t)
    <2>1. Journaled' = Journaled /\ Pending' = Pending
          /\ shed' = shed /\ accepted' = accepted
      BY <1>9 DEF PublishDirectly, store, Journaled, Pending
    <2>2. Answered' = Answered \/ Answered' = Answered \cup {Entry(t)}
      BY <1>9, AnswerBooks DEF PublishDirectly, Answered
    <2>3. task'[t].pc # "unjournal" /\ \A u \in Tasks \ {t} : task'[u] = task[u]
      BY <1>9, NextScriptOthers DEF PublishDirectly
    <2>4. AbsStep
      BY <1>e, <2>1, <2>2, AbsAnswer, AbsStutter DEF Owed
    <2>5. QED
      BY <1>0, <1>q, <2>1, <2>2, <2>3, <2>4, UnjournalKept
      DEF FlushSound, NoSilentLoss
  <1>10. QED
    BY <1>1, <1>2, <1>3, <1>4, <1>5, <1>6, <1>7, <1>8, <1>9
    DEF HandlerStep, HandlerFault

LEMMA DeliveryFlusher ==
  ASSUME DeliveryInv,
         FlusherStep \/ FlushPublish \/ FlushPublishFails
           \/ FlushLoadFails \/ FlushRemoveFails
  PROVE  Quiet' /\ FlushSound' /\ UnjournalSound' /\ NoSilentLoss' /\ AbsStep
  <1> USE DEF DeliveryInv
  <1> TypeOK
    OBVIOUS
  <1>0. phase = "listening" /\ phase' = phase /\ task' = task
    BY DEF FlusherStep, FlushWake, FlushLoad, FlushSkip, FlushPublish,
           FlushPublishFails, FlushRemove, FlushLoadFails, FlushRemoveFails, Quiet, IdleFlusher
  <1>q. Quiet'
    BY <1>0 DEF Quiet
  <1>i. IdleFlusher.keys = {} /\ IdleFlusher.pc = "idle"
    BY DEF IdleFlusher
  <1>u. ASSUME Answered \subseteq Answered' PROVE UnjournalSound'
    BY <1>0, <1>u DEF UnjournalSound, Entry
  <1>1. CASE FlushWake
    <2>1. UNCHANGED Books
      BY <1>1, BooksUnchanged DEF FlushWake, store, history
    <2>2. flusher'.keys = Pending /\ flusher'.pc = "load"
      BY <1>1 DEF FlushWake, TypeOK, FlusherTypeOK
    <2>3. QED
      BY <1>q, <1>u, <2>1, <2>2, AbsStutter
      DEF Books, FlushSound, NoSilentLoss, Owed
  <1>2. CASE FlushLoad
    <2>1. UNCHANGED Books
      BY <1>2, BooksUnchanged DEF FlushLoad, store, history
    <2>2. PICK k \in flusher.keys :
            /\ flusher'.keys = flusher.keys \ {k} /\ flusher'.cur = k
            /\ flusher'.pc = "remove" => outbox[k] = NoResult
      BY <1>2 DEF FlushLoad
    <2>3. flusher'.pc = "remove" => k \in Answered \cup shed
      BY <2>2 DEF FlushSound, Pending
    <2>4. QED
      BY <1>q, <1>u, <2>1, <2>2, <2>3, AbsStutter
      DEF Books, FlushSound, NoSilentLoss, Owed
  <1>3. CASE FlushPublish
    <2>1. Journaled' = Journaled /\ Pending' = Pending
          /\ shed' = shed /\ accepted' = accepted
      BY <1>3 DEF FlushPublish, store, Journaled, Pending
    <2>2. Answered' = Answered \cup {flusher.cur}
      BY <1>3, AnswerBooks DEF FlushPublish
    <2>3. flusher'.keys = flusher.keys /\ flusher'.cur = flusher.cur
      BY <1>3 DEF FlushPublish, TypeOK, FlusherTypeOK
    <2>4. AbsStep
      BY <1>3, <2>1, <2>2, AbsAnswer DEF FlushPublish, TypeOK, FlusherTypeOK, Owed
    <2>5. QED
      BY <1>q, <1>u, <2>1, <2>2, <2>3, <2>4 DEF FlushSound, NoSilentLoss
  <1>4. CASE FlushPublishFails \/ FlushLoadFails
    <2>1. Journaled' = Journaled /\ Pending' = Pending
          /\ shed' = shed /\ accepted' = accepted /\ flusher' = IdleFlusher
      BY <1>4 DEF FlushPublishFails, FlushLoadFails, store, history, Journaled,
         Pending
    <2>2. \/ Answered' = Answered
          \/ flusher.cur \in Keys /\ Answered' = Answered \cup {flusher.cur}
      BY <1>4, AnswerBooks DEF FlushPublishFails, FlushLoadFails, history,
         Answered, TypeOK, FlusherTypeOK
    <2>3. AbsStep
      BY <2>1, <2>2, AbsStutter, AbsAnswer DEF Owed
    <2>4. QED
      BY <1>q, <1>u, <1>i, <2>1, <2>2, <2>3 DEF FlushSound, NoSilentLoss
  <1>5. ASSUME FlushRemove \/ FlushRemoveFails
        PROVE  flusher'.keys = flusher.keys /\ flusher'.pc # "remove"
    BY <1>5, <1>i DEF FlushRemove, FlushRemoveFails, FlushNext
  <1>6. CASE FlushRemove
    <2>1. flusher.cur \in Keys /\ flusher.cur \in Answered \cup shed
      BY <1>6 DEF FlushRemove, FlushSound, TypeOK, FlusherTypeOK
    <2>2. /\ Pending' = Pending \ {flusher.cur} /\ Journaled' = Journaled
          /\ Answered' = Answered /\ shed' = shed /\ accepted' = accepted
      BY <1>6, <2>1 DEF FlushRemove, Pending, Journaled, Answered, history,
         TypeOK, StoreTypeOK
    <2>3. AbsStep
      BY <2>1, <2>2, AbsDischarge DEF Owed
    <2>4. QED
      BY <1>q, <1>u, <1>5, <1>6, <2>1, <2>2, <2>3 DEF FlushSound, NoSilentLoss
  <1>7. CASE FlushRemoveFails
    <2>1. UNCHANGED Books
      BY <1>7, BooksUnchanged DEF FlushRemoveFails, store, history
    <2>2. QED
      BY <1>q, <1>u, <1>5, <1>7, <2>1, AbsStutter
      DEF Books, FlushSound, NoSilentLoss, Owed
  <1>8. CASE FlushSkip
    <2>1. UNCHANGED Books
      BY <1>8, BooksUnchanged DEF FlushSkip, store, history
    <2>2. flusher'.keys \subseteq flusher.keys /\ flusher'.pc # "remove"
      BY <1>8, <1>i DEF FlushSkip, TypeOK, FlusherTypeOK
    <2>3. QED
      BY <1>q, <1>u, <2>1, <2>2, AbsStutter
      DEF Books, FlushSound, NoSilentLoss, Owed
  <1>9. QED
    BY <1>1, <1>2, <1>3, <1>4, <1>6, <1>7, <1>8 DEF FlusherStep

LEMMA DeliveryStartUp ==
  ASSUME DeliveryInv,
         StartUpStep \/ OpenDegraded \/ RecoverPruneFails \/ RecoverFails
  PROVE  Quiet' /\ FlushSound' /\ UnjournalSound' /\ NoSilentLoss' /\ AbsStep
  <1> USE DEF DeliveryInv
  <1> TypeOK
    OBVIOUS
  <1>0. /\ phase # "listening" /\ task' = task /\ flusher' = flusher
        /\ accepted' = accepted /\ delivered' = delivered
    BY DEF StartUpStep, Open, OpenDegraded, RecoverEntry, RecoverPrune,
           RecoverPruneFails, StartListening, RecoverFails, history
  <1>1. Quiet' /\ FlushSound' /\ UnjournalSound' /\ Answered' = Answered
    BY <1>0 DEF Quiet, FlushSound, UnjournalSound, IdleFlusher, Answered
  <1>2. CASE Open \/ StartListening \/ RecoverPruneFails \/ RecoverFails
    <2>1. UNCHANGED Books
      BY <1>2, BooksUnchanged DEF Open, StartListening, RecoverPruneFails,
         RecoverFails, store, history
    <2>2. QED
      BY <1>1, <2>1, AbsStutter DEF Books, NoSilentLoss, Owed
  <1>3. CASE OpenDegraded
    <2>1. CASE UNCHANGED <<journal, outbox, shed>>
      <3>1. UNCHANGED Books
        BY <1>0, <2>1, BooksUnchanged
      <3>2. QED
        BY <1>1, <3>1, AbsStutter DEF Books, NoSilentLoss, Owed
    <2>2. CASE /\ journal' = [k \in Keys |-> "absent"]
               /\ outbox' = [k \in Keys |-> NoResult]
               /\ shed' = shed \cup Journaled \cup Pending
      <3>1. Owed' = {} /\ Owed \subseteq Keys /\ shed' = shed \cup Owed
        BY <2>2 DEF Owed, Journaled, Pending
      <3>2. AbsStep
        BY <1>1, <3>1, AbsShed
      <3>3. QED
        BY <1>0, <1>1, <3>1, <3>2 DEF NoSilentLoss, Owed
    <2>3. QED
      BY <1>3, <2>1, <2>2 DEF OpenDegraded
  <1>4. CASE RecoverPrune
    <2>1. PICK V \in SUBSET Pending :
            /\ Journaled' = Journaled /\ Pending' = Pending \ V
            /\ shed' = shed \cup V
      BY <1>4, PruneBooks DEF RecoverPrune
    <2>2. AbsStep
      BY <1>1, <2>1, AbsShed DEF Owed, Pending
    <2>3. QED
      BY <1>0, <1>1, <2>1, <2>2 DEF NoSilentLoss
  <1>5. ASSUME NEW k \in Keys, RecoverEntry(k)
        PROVE  NoSilentLoss' /\ AbsStep
    <2>1. [kind |-> IF journal[k] = "started" THEN "interrupted"
                    ELSE "not_started", run |-> runs[k]] \in Results
      BY DEF Results, Kinds, TypeOK, HistoryTypeOK
    <2>2. Journaled' = Journaled \ {k} /\ Pending' = Pending \cup {k}
      BY <1>5, <2>1, CompleteBooks DEF RecoverEntry
    <2>3. shed' = shed
      BY <1>5 DEF RecoverEntry
    <2>4. AbsStep
      BY <1>1, <2>2, <2>3, AbsAccept DEF Owed
    <2>5. QED
      BY <1>0, <1>1, <2>2, <2>3, <2>4 DEF NoSilentLoss
  <1>6. QED
    BY <1>1, <1>2, <1>3, <1>4, <1>5 DEF StartUpStep

LEMMA DeliveryOther ==
  ASSUME DeliveryInv,
         Crash \/ Tick \/ UNCHANGED vars
           \/ \E t \in Tasks, e \in Execs : Deliver(t, e)
  PROVE  Quiet' /\ FlushSound' /\ UnjournalSound' /\ NoSilentLoss' /\ AbsStep
  <1> USE DEF DeliveryInv
  <1>1. UNCHANGED Books
    BY BooksUnchanged DEF Crash, Tick, Deliver, vars, store, history
  <1>2. NoSilentLoss' /\ AbsStep
    BY <1>1, AbsStutter DEF Books, NoSilentLoss, Owed
  <1>3. CASE Crash
    BY <1>1, <1>2, <1>3, FreeTaskType
    DEF Crash, Books, Quiet, FlushSound, UnjournalSound, IdleFlusher
  <1>4. CASE Tick \/ UNCHANGED vars
    BY <1>1, <1>2, <1>4 DEF Tick, vars, Books, Quiet, FlushSound,
       UnjournalSound, Entry
  <1>5. ASSUME NEW t \in Tasks, NEW e \in Execs, Deliver(t, e)
        PROVE  Quiet' /\ FlushSound' /\ UnjournalSound'
    <2>1. phase = "listening" /\ phase' = phase /\ flusher' = flusher
      BY <1>5 DEF Deliver
    <2>2. task'[t].pc # "unjournal" /\ \A u \in Tasks \ {t} : task'[u] = task[u]
      BY <1>5 DEF Deliver, TypeOK, TaskTypeOK
    <2>3. QED
      BY <1>1, <2>1, <2>2, UnjournalKept DEF Books, Quiet, FlushSound
  <1>6. QED
    BY <1>2, <1>3, <1>4, <1>5

LEMMA DeliveryInductive == DeliveryInv /\ [Next]_vars => DeliveryInv' /\ AbsStep
  <1> SUFFICES ASSUME DeliveryInv, [Next]_vars PROVE DeliveryInv' /\ AbsStep
    OBVIOUS
  <1>1. TypeOK'
    BY TypeInductive DEF DeliveryInv
  <1>2. Quiet' /\ FlushSound' /\ UnjournalSound' /\ NoSilentLoss' /\ AbsStep
    BY DeliveryHandler, DeliveryFlusher, DeliveryStartUp, DeliveryOther DEF Next
  <1>3. QED
    BY <1>1, <1>2 DEF DeliveryInv

LEMMA DeliveryInit == Init => DeliveryInv
  BY TypeInit, FreeTaskType
  DEF Init, DeliveryInv, Quiet, FlushSound, UnjournalSound, NoSilentLoss,
      IdleFlusher

\* Whatever crashes, failing calls, flusher timeouts and redeliveries happen,
\* every script of an accepted batch is journaled, in the outbox, answered, or
\* given up by pruning or quarantine.
THEOREM NothingForgotten == Spec => []NoSilentLoss
  <1>1. DeliveryInv => NoSilentLoss
    BY DEF DeliveryInv
  <1>2. QED
    BY <1>1, DeliveryInit, DeliveryInductive, PTL DEF Spec

\* The durable result path implements ResultDelivery: an entry leaves the
\* disk only after a result for it went out or after it was declared shed.
THEOREM ImplementsResultDelivery == Spec => DeliversResults
  <1>1. Init => Abstract!AInit
    BY DEF Init, Abstract!AInit, Journaled, Pending, Answered
  <1>2. DeliveryInv /\ [Next]_vars => [Abstract!ANext]_(Abstract!avars)
    BY DeliveryInductive DEF AbsStep
  <1>3. QED
    BY <1>1, <1>2, DeliveryInit, DeliveryInductive, PTL
    DEF Spec, DeliversResults, Abstract!ASpec

-----------------------------------------------------------------------------
(* One handler per batch.  A durable handler owns the journal entries of   *)
(* the scripts it still has to run; journal_batch accepts a batch only     *)
(* when none of its entries is journaled, so no two handlers own the same. *)

\* The scripts of a batch have different ids: to_requests does not see to it,
\* and with repeated ids the requests of a batch share entries.
DistinctScripts ==
    \A e \in Execs : \A i, j \in 1..Len(Scripts[e]) :
        Scripts[e][i] = Scripts[e][j] => i = j

\* The first script handler t still has to run.
FirstLeft(t) == IF task[t].pc = "prune" THEN task[t].idx + 1 ELSE task[t].idx

Remaining(t) ==
    IF task[t].pc \in Executing \cup {"prune"}
    THEN {EntryKey(task[t].exec, j) :
            j \in FirstLeft(t)..Len(Scripts[task[t].exec])}
    ELSE {}

OwnInv ==
    /\ \A t \in Tasks : Remaining(t) \subseteq Journaled
    /\ \A t, u \in Tasks : t # u => Remaining(t) \cap Remaining(u) = {}

ExclusiveInv == DeliveryInv /\ OwnInv

\* A step that keeps the journal and gives its handler nothing it did not own
\* keeps the ownership.
LEMMA OwnKept ==
  ASSUME OwnInv, NEW t \in Tasks,
         \A u \in Tasks \ {t} : task'[u] = task[u],
         Remaining(t)' \subseteq Remaining(t),
         Journaled' = Journaled
  PROVE  OwnInv'
  <1>1. \A u \in Tasks \ {t} : Remaining(u)' = Remaining(u)
    BY DEF Remaining, FirstLeft
  <1>2. QED
    BY <1>1 DEF OwnInv

\* So does a step that removes an entry its handler gives up with it.
LEMMA OwnDropped ==
  ASSUME OwnInv, NEW t \in Tasks,
         \A u \in Tasks \ {t} : task'[u] = task[u],
         Remaining(t)' \subseteq Remaining(t),
         NEW k \in Remaining(t), k \notin Remaining(t)',
         Journaled' = Journaled \ {k}
  PROVE  OwnInv'
  <1>1. \A u \in Tasks \ {t} : Remaining(u)' = Remaining(u)
    BY DEF Remaining, FirstLeft
  <1>2. \A u \in Tasks \ {t} : k \notin Remaining(u)
    BY DEF OwnInv
  <1>3. QED
    BY <1>1, <1>2 DEF OwnInv

\* What the handlers own shrinks as they go through their batch.
LEMMA GotoRemaining ==
  ASSUME TypeOK, NEW t \in Tasks, NEW pc, Goto(t, pc),
         task[t].pc \in Executing, pc \in Executing
  PROVE  Remaining(t)' = Remaining(t)
  <1>1. task'[t].pc = pc /\ task'[t].exec = task[t].exec /\ task'[t].idx = task[t].idx
    BY DEF Goto, TypeOK, TaskTypeOK
  <1>2. QED
    BY <1>1 DEF Remaining, FirstLeft, Executing

LEMMA NextScriptRemaining ==
  ASSUME TypeOK, NEW t \in Tasks, NextScript(t, "mark"),
         task[t].pc \in Executing \cup {"prune"}
  PROVE  /\ Remaining(t)' \subseteq Remaining(t)
         /\ DistinctScripts => Entry(t) \notin Remaining(t)'
  <1>0. /\ task[t].exec \in Execs /\ task[t].idx \in 1..Len(Scripts[task[t].exec])
        /\ Len(Scripts[task[t].exec]) \in Nat
    BY EntryType, ScriptsAssumption DEF TypeOK, Executing
  <1>1. CASE task[t].idx < Len(Scripts[task[t].exec])
    <2>1. /\ task'[t].pc = "mark" /\ task'[t].exec = task[t].exec
          /\ task'[t].idx = task[t].idx + 1
      BY <1>1 DEF NextScript, TypeOK, TaskTypeOK
    <2>2. Remaining(t)' = {EntryKey(task[t].exec, j) :
                             j \in (task[t].idx + 1)..Len(Scripts[task[t].exec])}
      BY <2>1 DEF Remaining, FirstLeft, Executing
    <2>3. Remaining(t)' \subseteq Remaining(t)
      BY <1>0, <2>2 DEF Remaining, FirstLeft
    <2>4. DistinctScripts => Entry(t) \notin Remaining(t)'
      BY <1>0, <2>2 DEF DistinctScripts, Entry, EntryKey
    <2>5. QED
      BY <2>3, <2>4
  <1>2. CASE ~(task[t].idx < Len(Scripts[task[t].exec]))
    <2>1. task'[t].pc = "free"
      BY <1>2, FreeTaskType DEF NextScript, TypeOK, TaskTypeOK
    <2>2. Remaining(t)' = {}
      BY <2>1 DEF Remaining, Executing
    <2>3. QED
      BY <2>2
  <1>3. QED
    BY <1>1, <1>2

LEMMA CompleteRemaining ==
  ASSUME TypeOK, NEW t \in Tasks, Goto(t, "prune"), task[t].pc = "run"
  PROVE  /\ Remaining(t)' \subseteq Remaining(t)
         /\ Entry(t) \in Remaining(t)
         /\ DistinctScripts => Entry(t) \notin Remaining(t)'
  <1>0. /\ task[t].exec \in Execs /\ task[t].idx \in 1..Len(Scripts[task[t].exec])
        /\ Len(Scripts[task[t].exec]) \in Nat
    BY EntryType, ScriptsAssumption DEF TypeOK
  <1>1. task'[t].pc = "prune" /\ task'[t].exec = task[t].exec
        /\ task'[t].idx = task[t].idx
    BY DEF Goto, TypeOK, TaskTypeOK
  <1>2. Remaining(t)' = {EntryKey(task[t].exec, j) :
                           j \in (task[t].idx + 1)..Len(Scripts[task[t].exec])}
    BY <1>1 DEF Remaining, FirstLeft
  <1>3. Remaining(t) = {EntryKey(task[t].exec, j) :
                          j \in task[t].idx..Len(Scripts[task[t].exec])}
    BY DEF Remaining, FirstLeft, Executing
  <1>4. DistinctScripts => Entry(t) \notin Remaining(t)'
    BY <1>0, <1>2 DEF DistinctScripts, Entry, EntryKey
  <1>5. QED
    BY <1>0, <1>2, <1>3, <1>4 DEF Entry

LEMMA OwnHandler ==
  ASSUME DistinctScripts, ExclusiveInv, NEW t \in Tasks,
         HandlerStep(t) \/ HandlerFault(t)
  PROVE  OwnInv'
  <1> USE DEF ExclusiveInv, DeliveryInv
  <1> TypeOK
    OBVIOUS
  <1>1. CASE JournalBatch(t)
    <2>0. task[t].exec \in Execs /\ task[t].idx \in 1..Len(Scripts[task[t].exec])
      BY <1>1, EntryType DEF JournalBatch, TypeOK
    <2>1. CASE task' = [task EXCEPT ![t] = FreeTask] /\ journal' = journal
      <3>1. task'[t].pc = "free" /\ \A u \in Tasks \ {t} : task'[u] = task[u]
        BY <2>1, FreeTaskType DEF TypeOK, TaskTypeOK
      <3>2. Remaining(t)' = {} /\ Journaled' = Journaled
        BY <2>1, <3>1 DEF Remaining, Executing, Journaled
      <3>3. QED
        BY <3>1, <3>2, OwnKept
    <2>2. CASE /\ BatchKeys(task[t].exec) \cap Journaled = {}
               /\ journal' = [k \in Keys |-> IF k \in BatchKeys(task[t].exec)
                                             THEN "journaled" ELSE journal[k]]
               /\ Goto(t, "mark")
      <3>1. Journaled' = Journaled \cup BatchKeys(task[t].exec)
        BY <2>0, <2>2, BatchKeysType DEF Journaled
      <3>2. task'[t].exec = task[t].exec /\ task'[t].idx = task[t].idx
            /\ task'[t].pc = "mark" /\ \A u \in Tasks \ {t} : task'[u] = task[u]
        BY <2>2 DEF Goto, TypeOK, TaskTypeOK
      <3>3. Remaining(t)' \subseteq BatchKeys(task[t].exec)
        BY <2>0, <3>2, ScriptsAssumption
        DEF Remaining, FirstLeft, BatchKeys, Executing
      <3>4. \A u \in Tasks \ {t} : Remaining(u)' = Remaining(u)
        BY <3>2 DEF Remaining, FirstLeft
      <3>5. QED
        BY <2>2, <3>1, <3>3, <3>4 DEF OwnInv
    <2>3. QED
      BY <1>1, <2>1, <2>2 DEF JournalBatch
  <1>2. CASE JournalBatchFails(t) \/ PublishDirectly(t) \/ (StartScript(t) /\ task[t].pc = "direct_start")
    <2>1. \A u \in Tasks \ {t} : task'[u] = task[u]
      BY <1>2, GotoOthers, NextScriptOthers
      DEF JournalBatchFails, PublishDirectly, StartScript
    <2>2. task'[t].pc \in {"direct_start", "direct_run", "free"}
      BY <1>2, GotoOthers, NextScriptOthers
      DEF JournalBatchFails, PublishDirectly, StartScript
    <2>3. Remaining(t)' = {}
      BY <2>2 DEF Remaining, Executing
    <2>4. Journaled' = Journaled
      BY <1>2 DEF JournalBatchFails, PublishDirectly, StartScript, store, Journaled
    <2>5. QED
      BY <2>1, <2>3, <2>4, OwnKept
  <1>3. CASE \/ MarkStarted(t) \/ MarkStartedFails(t) \/ CompleteFails(t)
             \/ (StartScript(t) /\ task[t].pc = "start")
             \/ (BestEffort(t) /\ Goto(t, "unjournal"))
    <2>1. \A u \in Tasks \ {t} : task'[u] = task[u]
      BY <1>3, GotoOthers DEF MarkStarted, MarkStartedFails, CompleteFails,
         StartScript
    <2>2. Remaining(t)' = Remaining(t)
      BY <1>3, GotoRemaining DEF MarkStarted, MarkStartedFails, CompleteFails,
         StartScript, BestEffort, Executing
    <2>3. Journaled' = Journaled
      BY <1>3 DEF MarkStarted, MarkStartedFails, CompleteFails, StartScript,
         BestEffort, store, Journaled, TypeOK, StoreTypeOK
    <2>4. QED
      BY <2>1, <2>2, <2>3, OwnKept
  <1>4. CASE Complete(t)
    <2>1. \A u \in Tasks \ {t} : task'[u] = task[u]
      BY <1>4, GotoOthers DEF Complete
    <2>2. Journaled' = Journaled \ {Entry(t)}
      BY <1>4, EntryType, OutcomeType, CompleteBooks DEF Complete, TypeOK
    <2>3. /\ Remaining(t)' \subseteq Remaining(t) /\ Entry(t) \in Remaining(t)
          /\ Entry(t) \notin Remaining(t)'
      BY <1>4, CompleteRemaining DEF Complete
    <2>4. QED
      BY <2>1, <2>2, <2>3, OwnDropped
  <1>5. CASE \/ Prune(t) \/ PruneFails(t) \/ JournalRemoveFails(t)
             \/ (BestEffort(t) /\ NextScript(t, "mark"))
    <2>1. NextScript(t, "mark") /\ task[t].pc \in Executing \cup {"prune"}
      BY <1>5 DEF Prune, PruneFails, JournalRemoveFails, BestEffort, Executing
    <2>2. Journaled' = Journaled
      BY <1>5 DEF Prune, PruneFails, JournalRemoveFails, BestEffort, PruneTxn,
         store, Journaled
    <2>3. QED
      BY <2>1, <2>2, NextScriptOthers, NextScriptRemaining, OwnKept
  <1>6. CASE JournalRemove(t)
    <2>1. NextScript(t, "mark") /\ task[t].pc \in Executing
      BY <1>6 DEF JournalRemove, Executing
    <2>2. task[t].idx \in 1..Len(Scripts[task[t].exec]) /\ Entry(t) \in Keys
      BY <1>6, EntryType DEF JournalRemove, TypeOK
    <2>3. Journaled' = Journaled \ {Entry(t)}
      BY <1>6, <2>2 DEF JournalRemove, Journaled, TypeOK, StoreTypeOK
    <2>4. Entry(t) \in Remaining(t)
      BY <1>6, <2>2, <2>1 DEF JournalRemove, Remaining, FirstLeft, Entry
    <2>5. QED
      BY <2>1, <2>3, <2>4, NextScriptOthers, NextScriptRemaining, OwnDropped
  <1>7. QED
    BY <1>1, <1>2, <1>3, <1>4, <1>5, <1>6
    DEF HandlerStep, HandlerFault, StartScript, BestEffort

LEMMA OwnOther ==
  ASSUME ExclusiveInv, [Next]_vars,
         ~ \E t \in Tasks : HandlerStep(t) \/ HandlerFault(t)
  PROVE  OwnInv'
  <1> USE DEF ExclusiveInv, DeliveryInv
  <1> TypeOK
    OBVIOUS
  <1>1. CASE \/ FlusherStep \/ FlushPublish \/ FlushPublishFails
             \/ FlushLoadFails \/ FlushRemoveFails \/ Tick \/ UNCHANGED vars
    <2>1. task' = task /\ journal' = journal
      BY <1>1 DEF FlusherStep, FlushWake, FlushLoad, FlushSkip, FlushPublish,
         FlushRemove, FlushPublishFails, FlushLoadFails, FlushRemoveFails, Tick, vars, store
    <2>2. (\A t \in Tasks : Remaining(t)' = Remaining(t)) /\ Journaled' = Journaled
      BY <2>1 DEF Remaining, FirstLeft, Journaled
    <2>3. QED
      BY <2>2 DEF OwnInv
  <1>2. CASE StartUpStep \/ OpenDegraded \/ RecoverFails \/ RecoverPruneFails \/ Crash
    <2>1. \A t \in Tasks : task'[t].pc = "free"
      BY <1>2, FreeTaskType DEF Quiet, StartUpStep, Open, RecoverPrune,
         RecoverEntry, StartListening, OpenDegraded, RecoverFails,
         RecoverPruneFails, Crash
    <2>2. \A t \in Tasks : Remaining(t)' = {}
      BY <2>1 DEF Remaining, Executing
    <2>3. QED
      BY <2>2 DEF OwnInv
  <1>3. ASSUME NEW t \in Tasks, NEW e \in Execs, Deliver(t, e) PROVE OwnInv'
    <2>1. /\ task'[t].pc \in {"journal", "direct_start"} /\ journal' = journal
          /\ \A u \in Tasks \ {t} : task'[u] = task[u]
      BY <1>3 DEF Deliver, TypeOK, TaskTypeOK, store
    <2>2. Remaining(t)' = {} /\ Journaled' = Journaled
      BY <2>1 DEF Remaining, Executing, Journaled
    <2>3. QED
      BY <2>1, <2>2, OwnKept
  <1>4. QED
    BY <1>1, <1>2, <1>3 DEF Next

LEMMA OwnExclusive == ExclusiveInv => ExclusiveBatch
  <1> SUFFICES ASSUME ExclusiveInv, NEW t \in Tasks, NEW u \in Tasks, t # u,
                      task[t].pc \in Executing, task[u].pc \in Executing,
                      task[t].exec = task[u].exec
               PROVE  FALSE
    BY DEF ExclusiveBatch
  <1> DEFINE e == task[t].exec
  <1>1. \A v \in {t, u} : task[v].idx \in 1..Len(Scripts[e])
    BY EntryType DEF ExclusiveInv, DeliveryInv, TypeOK, Executing
  <1>2. e \in Execs /\ Len(Scripts[e]) \in Nat
    BY EntryType, ScriptsAssumption DEF ExclusiveInv, DeliveryInv, TypeOK, Executing
  <1>3. \A v \in {t, u} : EntryKey(e, Len(Scripts[e])) \in Remaining(v)
    BY <1>1, <1>2 DEF Remaining, FirstLeft, Executing
  <1>4. QED
    BY <1>3 DEF ExclusiveInv, OwnInv

\* No batch is run by two durable handlers at once: journal_batch turns a
\* redelivered batch away as long as a handler has scripts of it left to run.
THEOREM OneHandlerPerBatch ==
  ASSUME DistinctScripts PROVE Spec => []ExclusiveBatch
  <1>1. Init => ExclusiveInv
    <2>1. Init => OwnInv
      BY FreeTaskType DEF Init, OwnInv, Remaining, Executing
    <2>2. QED
      BY <2>1, DeliveryInit DEF ExclusiveInv
  <1>2. ExclusiveInv /\ [Next]_vars => ExclusiveInv'
    BY DeliveryInductive, OwnHandler, OwnOther DEF ExclusiveInv
  <1>3. QED
    BY <1>1, <1>2, OwnExclusive, PTL DEF Spec

-----------------------------------------------------------------------------
(* The write-ahead mark.  What recover() reads from the journal is honest  *)
(* because a handler at "start" has its mark in the journal; nobody else   *)
(* takes the record away, since handlers own different records.            *)

HonestInv ==
    faults = 0 =>
        /\ \A k \in Keys : journal[k] = "journaled" => k \notin begun
        /\ \A t \in Tasks : task[t].pc = "start" => journal[Entry(t)] = "started"

\* The script a handler is at is one that it still has to run.
LEMMA EntryOwned ==
  ASSUME TypeOK, NEW t \in Tasks, task[t].pc \in Executing
  PROVE  Entry(t) \in Remaining(t) /\ Entry(t) \in Keys
  <1>1. /\ task[t].exec \in Execs /\ task[t].idx \in 1..Len(Scripts[task[t].exec])
        /\ Len(Scripts[task[t].exec]) \in Nat /\ Entry(t) \in Keys
    BY EntryType, ScriptsAssumption DEF TypeOK, Executing
  <1>2. task[t].idx \in task[t].idx..Len(Scripts[task[t].exec])
    BY <1>1
  <1>3. QED
    BY <1>1, <1>2 DEF Remaining, FirstLeft, Executing, Entry

\* A step that starts no script and brings no handler before one.
LEMMA HonestKept ==
  ASSUME HonestInv, faults' = 0 => faults = 0,
         \A k \in Keys : journal'[k] = "journaled" => journal[k] = "journaled",
         begun' = begun,
         \A t \in Tasks : task'[t].pc = "start" =>
            task'[t] = task[t] /\ journal'[Entry(t)] = journal[Entry(t)]
  PROVE  HonestInv'
  BY DEF HonestInv, Entry

LEMMA HonestHandler ==
  ASSUME ExclusiveInv, HonestInv, NEW t \in Tasks, HandlerStep(t)
  PROVE  HonestInv'
  <1> USE DEF ExclusiveInv, DeliveryInv
  <1> TypeOK
    OBVIOUS
  <1>0. /\ task[t].pc # "free" /\ task[t].exec \in Execs /\ Entry(t) \in Keys
        /\ journal \in [Keys -> {"absent", "journaled", "started"}] /\ faults \in Nat
    <2>1. task[t].pc # "free"
      BY DEF HandlerStep, JournalBatch, MarkStarted, StartScript, Complete, Prune,
             BestEffort, JournalRemove, PublishDirectly
    <2>2. QED
      BY <2>1, EntryType DEF TypeOK, StoreTypeOK
  \* Another handler at a script has its mark on another record.
  <1>o. ASSUME NEW u \in Tasks \ {t}, task[t].pc \in Executing, task[u].pc = "start"
        PROVE  Entry(u) # Entry(t)
    BY <1>o, EntryOwned DEF OwnInv, Executing
  <1>1. CASE JournalBatch(t)
    <2>1. CASE task' = [task EXCEPT ![t] = FreeTask] /\ journal' = journal /\ begun' = begun
      <3>1. task'[t].pc = "free" /\ \A u \in Tasks \ {t} : task'[u] = task[u]
        BY <2>1, FreeTaskType DEF TypeOK, TaskTypeOK
      <3>2. faults' = faults
        BY <1>1 DEF JournalBatch, bounds
      <3>3. QED
        BY <2>1, <3>1, <3>2, HonestKept
    <2>2. CASE /\ BatchKeys(task[t].exec) \cap Journaled = {}
               /\ journal' = [k \in Keys |-> IF k \in BatchKeys(task[t].exec)
                                             THEN "journaled" ELSE journal[k]]
               /\ begun' = begun \ BatchKeys(task[t].exec)
               /\ Goto(t, "mark")
      <3>1. task'[t].pc = "mark" /\ \A u \in Tasks \ {t} : task'[u] = task[u]
        BY <2>2, GotoOthers
      <3>2. faults' = faults
        BY <1>1 DEF JournalBatch, bounds
      <3>3. ASSUME NEW u \in Tasks, task'[u].pc = "start", faults = 0
            PROVE  Entry(u)' = Entry(u) /\ journal'[Entry(u)] = "started"
        <4>1. u # t /\ task'[u] = task[u]
          BY <3>1, <3>3
        <4>2. journal[Entry(u)] = "started" /\ Entry(u) \in Keys
          BY <3>3, <4>1, EntryOwned DEF HonestInv, Executing
        <4>3. Entry(u) \notin BatchKeys(task[t].exec)
          BY <2>2, <4>2 DEF Journaled
        <4>4. QED
          BY <2>2, <4>1, <4>2, <4>3 DEF Entry
      <3>4. faults = 0 => \A k \in Keys : journal'[k] = "journaled" => k \notin begun'
        BY <2>2 DEF HonestInv
      <3>5. QED
        BY <3>2, <3>3, <3>4 DEF HonestInv
    <2>3. QED
      BY <1>1, <2>1, <2>2 DEF JournalBatch
  <1>2. CASE MarkStarted(t)
    <2>1. task'[t].pc = "start" /\ Entry(t)' = Entry(t)
          /\ \A u \in Tasks \ {t} : task'[u] = task[u]
      BY <1>2, GotoOthers DEF MarkStarted
    <2>2. faults' = faults /\ begun' = begun /\ task[t].pc = "mark"
      BY <1>2 DEF MarkStarted, bounds, history
    <2>3. journal[Entry(t)] # "absent"
      BY <2>2, EntryOwned DEF OwnInv, Journaled, Executing
    <2>4. journal' = [journal EXCEPT ![Entry(t)] = "started"]
      BY <1>2, <2>3 DEF MarkStarted
    <2>5. \A k \in Keys : journal'[k] \in {journal[k], "started"}
      BY <1>0, <2>4
    <2>6. journal'[Entry(t)] = "started"
      BY <1>0, <2>4
    <2>7. ASSUME NEW u \in Tasks \ {t}, task'[u].pc = "start", faults = 0
          PROVE  Entry(u)' = Entry(u) /\ journal'[Entry(u)] = "started"
      <3>1. task'[u] = task[u] /\ journal[Entry(u)] = "started" /\ Entry(u) \in Keys
        BY <2>1, <2>7, EntryOwned DEF HonestInv, Executing
      <3>2. QED
        BY <2>5, <3>1 DEF Entry
    <2>8. QED
      BY <2>1, <2>2, <2>5, <2>6, <2>7 DEF HonestInv
  <1>3. CASE StartScript(t) /\ task[t].pc = "start"
    <2>1. task'[t].pc = "run" /\ \A u \in Tasks \ {t} : task'[u] = task[u]
      BY <1>3, GotoOthers DEF StartScript
    <2>2. /\ faults' = faults /\ begun' = begun \cup {Entry(t)} /\ journal' = journal
      BY <1>3 DEF StartScript, bounds, store
    <2>3. faults = 0 => journal[Entry(t)] = "started"
      BY <1>3 DEF HonestInv
    <2>4. QED
      BY <2>1, <2>2, <2>3 DEF HonestInv, Entry
  <1>4. CASE StartScript(t) /\ task[t].pc = "direct_start"
    <2>1. task'[t].pc = "direct_run" /\ \A u \in Tasks \ {t} : task'[u] = task[u]
      BY <1>4, GotoOthers DEF StartScript
    <2>2. faults' = faults /\ begun' = begun /\ journal' = journal
      BY <1>4 DEF StartScript, bounds, store
    <2>3. QED
      BY <2>1, <2>2, HonestKept
  <1>5. CASE Complete(t) \/ JournalRemove(t)
    <2>1. task'[t].pc \in {"prune", "mark", "free"} /\ \A u \in Tasks \ {t} : task'[u] = task[u]
      BY <1>5, GotoOthers, NextScriptOthers DEF Complete, JournalRemove
    <2>2. /\ faults' = faults /\ begun' = begun /\ task[t].pc \in Executing
          /\ journal' = [journal EXCEPT ![Entry(t)] = "absent"]
      BY <1>5 DEF Complete, JournalRemove, CompleteTxn, bounds, history, Executing
    <2>3. ASSUME NEW u \in Tasks, task'[u].pc = "start"
          PROVE  task'[u] = task[u] /\ journal'[Entry(u)] = journal[Entry(u)]
      <3>1. u # t /\ task'[u] = task[u]
        BY <2>1, <2>3
      <3>2. Entry(u) # Entry(t) /\ Entry(u) \in Keys
        BY <1>o, <2>2, <2>3, <3>1, EntryOwned DEF Executing
      <3>3. QED
        BY <1>0, <2>2, <3>1, <3>2
    <2>4. \A k \in Keys : journal'[k] = "journaled" => journal[k] = "journaled"
      BY <1>0, <2>2
    <2>5. QED
      BY <2>2, <2>3, <2>4, HonestKept
  <1>6. CASE Prune(t) \/ BestEffort(t) \/ PublishDirectly(t)
    <2>1. task'[t].pc # "start" /\ \A u \in Tasks \ {t} : task'[u] = task[u]
      BY <1>6, GotoOthers, NextScriptOthers DEF Prune, BestEffort, PublishDirectly
    <2>2. faults' = faults /\ begun' = begun /\ journal' = journal
      BY <1>6 DEF Prune, PruneTxn, BestEffort, PublishDirectly, bounds, store
    <2>3. QED
      BY <2>1, <2>2, HonestKept
  <1>7. QED
    BY <1>1, <1>2, <1>3, <1>4, <1>5, <1>6 DEF HandlerStep, StartScript

LEMMA HonestOther ==
  ASSUME ExclusiveInv, HonestInv, [Next]_vars,
         ~ \E t \in Tasks : HandlerStep(t)
  PROVE  HonestInv'
  <1> USE DEF ExclusiveInv, DeliveryInv
  <1> TypeOK
    OBVIOUS
  <1>1. CASE Fault
    <2>1. faults' # 0
      BY <1>1 DEF Fault, TypeOK, StoreTypeOK
    <2>2. QED
      BY <2>1 DEF HonestInv
  <1>2. CASE \/ FlushWake \/ FlushLoad \/ FlushSkip \/ FlushRemove
             \/ FlushPublish \/ FlushPublishFails \/ Open \/ RecoverPrune \/ StartListening \/ Tick \/ UNCHANGED vars
    <2>1. task' = task /\ journal' = journal /\ begun' = begun /\ faults' = faults
      BY <1>2 DEF FlushWake, FlushLoad, FlushSkip, FlushPublish, FlushRemove, FlushPublishFails,
         Open, RecoverPrune, PruneTxn, StartListening, Tick, vars, store, bounds, history
    <2>2. QED
      BY <2>1, HonestKept
  <1>3. CASE Crash
    <2>1. \A t \in Tasks : task'[t].pc = "free"
      BY <1>3, FreeTaskType DEF Crash
    <2>2. journal' = journal /\ begun' = begun /\ faults' = faults
      BY <1>3 DEF Crash, store
    <2>3. QED
      BY <2>1, <2>2, HonestKept
  <1>4. ASSUME NEW k \in Keys, RecoverEntry(k) PROVE HonestInv'
    <2>1. \A t \in Tasks : task'[t].pc = "free"
      BY <1>4 DEF RecoverEntry, Quiet
    <2>2. /\ journal' = [journal EXCEPT ![k] = "absent"] /\ begun' = begun
          /\ faults' = faults
      BY <1>4 DEF RecoverEntry, CompleteTxn, bounds
    <2>3. \A j \in Keys : journal'[j] = "journaled" => journal[j] = "journaled"
      BY <2>2 DEF TypeOK, StoreTypeOK
    <2>4. QED
      BY <2>1, <2>2, <2>3, HonestKept
  <1>5. ASSUME NEW t \in Tasks, NEW e \in Execs, Deliver(t, e) PROVE HonestInv'
    <2>1. /\ task'[t].pc \in {"journal", "direct_start"}
          /\ \A u \in Tasks \ {t} : task'[u] = task[u]
      BY <1>5 DEF Deliver, TypeOK, TaskTypeOK
    <2>2. journal' = journal /\ begun' = begun /\ faults' = faults
      BY <1>5 DEF Deliver, store, history
    <2>3. QED
      BY <2>1, <2>2, HonestKept
  <1>6. ASSUME NEW t \in Tasks, HandlerFault(t) PROVE Fault
    BY <1>6 DEF HandlerFault, JournalBatchFails, MarkStartedFails, CompleteFails,
       PruneFails, JournalRemoveFails
  <1>7. CASE FlushLoadFails \/ FlushRemoveFails \/ OpenDegraded \/ RecoverFails \/ RecoverPruneFails
    BY <1>1, <1>7 DEF FlushLoadFails, FlushRemoveFails, OpenDegraded, RecoverFails,
       RecoverPruneFails
  <1>8. QED
    BY <1>1, <1>2, <1>3, <1>4, <1>5, <1>6, <1>7 DEF Next, FlusherStep, StartUpStep

\* As long as no database call fails, a record that recover() would report as "not
\* executed" is of a script that never began: journal_mark_started commits first, and
\* neither a redelivered batch nor another handler undoes the mark.
THEOREM MarkBeforeRun ==
  ASSUME DistinctScripts PROVE Spec => []HonestJournal
  <1>1. Init => ExclusiveInv /\ HonestInv
    <2>1. Init => OwnInv /\ HonestInv
      BY FreeTaskType DEF Init, OwnInv, HonestInv, Remaining, Executing
    <2>2. QED
      BY <2>1, DeliveryInit DEF ExclusiveInv
  <1>2. ExclusiveInv /\ HonestInv /\ [Next]_vars => (ExclusiveInv /\ HonestInv)'
    BY DeliveryInductive, OwnHandler, OwnOther, HonestHandler, HonestOther DEF ExclusiveInv
  <1>3. HonestInv => HonestJournal
    BY DEF HonestInv, HonestJournal
  <1>4. QED
    BY <1>1, <1>2, <1>3, PTL DEF Spec

-----------------------------------------------------------------------------
(* The outbox is bounded.  complete() adds an entry and is followed by one *)
(* prune, which may come late, fail or be cut off by a crash.              *)

BoundInv == IsFiniteSet(Pending) /\ OutboxBound

Pruning == {t \in Tasks : task[t].pc = "prune"}
RecPrune == IF phase = "rec_prune" THEN 1 ELSE 0

LEMMA PruningType ==
  /\ IsFiniteSet(Pruning) /\ Cardinality(Pruning) \in Nat
  /\ RecPrune \in {0, 1} /\ PrunesToCome = Cardinality(Pruning) + RecPrune
  BY TasksAssumption, FS_Subset, FS_CardinalityType DEF Pruning, RecPrune, PrunesToCome

\* The same in the next state.
LEMMA PruningTypeNext ==
  /\ Cardinality(Pruning)' \in Nat /\ RecPrune' \in {0, 1}
  /\ PrunesToCome' = Cardinality(Pruning)' + RecPrune'
  BY TasksAssumption, FS_Subset, FS_CardinalityType DEF Pruning, RecPrune, PrunesToCome

LEMMA SumOfThree ==
  ASSUME NEW c \in Nat, NEW p \in Nat, NEW u \in Nat
  PROVE  0 <= c + p + u
  OBVIOUS

LEMMA BoundArithmetic ==
  ASSUME NEW c \in Nat, NEW n \in Nat, NEW m \in Nat, NEW p \in Nat, NEW u \in Nat,
         NEW q \in Nat, NEW v \in Nat, n <= c + p + u
  PROVE  /\ m <= n /\ q + v = p + u => m <= c + q + v
         /\ m <= n + 1 /\ q + v = p + u + 1 => m <= c + q + v
  OBVIOUS

\* The outbox does not grow and no prune is lost from the count.
LEMMA BoundKept ==
  ASSUME TypeOK, TypeOK', BoundInv, Pending' \subseteq Pending,
         PrunesToCome' + unpruned' = PrunesToCome + unpruned
  PROVE  BoundInv'
  <1>1. /\ IsFiniteSet(Pending') /\ Cardinality(Pending)' <= Cardinality(Pending)
        /\ Cardinality(Pending) \in Nat /\ Cardinality(Pending)' \in Nat
    BY FS_Subset, FS_CardinalityType DEF BoundInv
  <1>2. /\ Cap \in Nat /\ unpruned \in Nat /\ PrunesToCome \in Nat
        /\ unpruned' \in Nat /\ PrunesToCome' \in Nat
    BY PruningType, PruningTypeNext, BoundsAssumption DEF TypeOK, HistoryTypeOK
  <1>3. Cardinality(Pending) <= Cap + PrunesToCome + unpruned
    BY DEF BoundInv, OutboxBound
  <1>4. Cardinality(Pending)' <= Cap + PrunesToCome' + unpruned'
    BY <1>1, <1>2, <1>3, BoundArithmetic
  <1>5. QED
    BY <1>1, <1>4 DEF BoundInv, OutboxBound

\* Pruning leaves no more than the cap.
LEMMA PruneBound ==
  ASSUME TypeOK, TypeOK', BoundInv, PruneTxn
  PROVE  BoundInv'
  <1>1. PICK V \in SUBSET Pending :
          /\ Victims(V) \/ (Cardinality(Pending) <= Cap /\ V = {})
          /\ outbox' = [k \in Keys |-> IF k \in V THEN NoResult ELSE outbox[k]]
    BY DEF PruneTxn
  <1>2. Pending' = Pending \ V
    BY <1>1 DEF Pending
  <1>3. /\ IsFiniteSet(Pending \ V) /\ Pending \cap V = V /\ Cardinality(Pending) \in Nat
        /\ Cardinality(Pending \ V) = Cardinality(Pending) - Cardinality(Pending \cap V)
    BY FS_Difference, FS_CardinalityType DEF BoundInv
  <1>4. Cardinality(Pending \ V) <= Cap
    <2>1. CASE Victims(V)
      <3>1. Cardinality(V) = Cardinality(Pending) - Cap /\ Cap \in Nat
        BY <2>1, BoundsAssumption DEF Victims
      <3>2. Cardinality(Pending \ V) = Cardinality(Pending) - Cardinality(V)
        BY <1>3
      <3>3. QED
        BY <1>3, <3>1, <3>2
    <2>2. CASE Cardinality(Pending) <= Cap /\ V = {}
      <3>1. Pending \ V = Pending
        BY <2>2
      <3>2. QED
        BY <2>2, <3>1
    <2>3. QED
      BY <1>1, <2>1, <2>2
  <1>5. PrunesToCome' \in Nat /\ unpruned' \in Nat /\ Cardinality(Pending)' \in Nat /\ Cap \in Nat
    <2>1. PrunesToCome' \in Nat
      BY PruningTypeNext
    <2>2. QED
      BY <2>1, <1>2, <1>3, FS_CardinalityType, BoundsAssumption DEF TypeOK, HistoryTypeOK
  <1>6. Cardinality(Pending)' <= Cap + PrunesToCome' + unpruned'
    <2>1. Cardinality(Pending)' <= Cap
      BY <1>2, <1>4
    <2>2. QED
      BY <1>5, <2>1
  <1>7. QED
    BY <1>2, <1>3, <1>6 DEF BoundInv, OutboxBound

\* A completion adds at most its key, and its prune to those to come.
LEMMA CompleteBound ==
  ASSUME TypeOK, TypeOK', BoundInv, NEW k \in Keys, NEW r \in Results, CompleteTxn(k, r),
         PrunesToCome' + unpruned' = PrunesToCome + unpruned + 1
  PROVE  BoundInv'
  <1>1. Pending' = Pending \cup {k}
    BY DEF CompleteTxn, Pending, TypeOK, StoreTypeOK, Results, NoResult, Kinds
  <1>2. /\ IsFiniteSet(Pending') /\ Cardinality(Pending)' \in Nat /\ Cardinality(Pending) \in Nat
        /\ Cardinality(Pending)' <= Cardinality(Pending) + 1
    <2>1. IsFiniteSet(Pending) /\ Cardinality(Pending) \in Nat
      BY FS_CardinalityType DEF BoundInv
    <2>2. /\ IsFiniteSet(Pending \cup {k})
          /\ Cardinality(Pending \cup {k}) \in {Cardinality(Pending), Cardinality(Pending) + 1}
      BY <2>1, FS_AddElement
    <2>3. QED
      BY <1>1, <2>1, <2>2
  <1>3. /\ Cap \in Nat /\ unpruned \in Nat /\ PrunesToCome \in Nat
        /\ unpruned' \in Nat /\ PrunesToCome' \in Nat
    BY PruningType, PruningTypeNext, BoundsAssumption DEF TypeOK, HistoryTypeOK
  <1>4. Cardinality(Pending) <= Cap + PrunesToCome + unpruned
    BY DEF BoundInv, OutboxBound
  <1>5. Cardinality(Pending)' <= Cap + PrunesToCome' + unpruned'
    BY <1>2, <1>3, <1>4, BoundArithmetic
  <1>6. QED
    BY <1>2, <1>5 DEF BoundInv, OutboxBound

LEMMA PruningMoved ==
  ASSUME TypeOK, NEW t \in Tasks, \A u \in Tasks \ {t} : task'[u] = task[u]
  PROVE  /\ task[t].pc = "prune" /\ task'[t].pc # "prune" =>
              Cardinality(Pruning') = Cardinality(Pruning) - 1
         /\ task[t].pc # "prune" /\ task'[t].pc = "prune" =>
              Cardinality(Pruning') = Cardinality(Pruning) + 1
         /\ task[t].pc # "prune" /\ task'[t].pc # "prune" => Pruning' = Pruning
  <1>1. IsFiniteSet(Pruning)
    BY PruningType
  <1>2. ASSUME task[t].pc = "prune", task'[t].pc # "prune"
        PROVE  Pruning' = Pruning \ {t} /\ t \in Pruning
    BY <1>2 DEF Pruning
  <1>3. ASSUME task[t].pc # "prune", task'[t].pc = "prune"
        PROVE  Pruning' = Pruning \cup {t} /\ t \notin Pruning
    BY <1>3 DEF Pruning
  <1>4. ASSUME task[t].pc # "prune", task'[t].pc # "prune" PROVE Pruning' = Pruning
    BY <1>4 DEF Pruning
  <1>5. QED
    BY <1>1, <1>2, <1>3, <1>4, FS_AddElement, FS_RemoveElement

LEMMA BoundHandler ==
  ASSUME DeliveryInv, TypeOK', BoundInv, NEW t \in Tasks, HandlerStep(t) \/ HandlerFault(t)
  PROVE  BoundInv'
  <1> USE DEF DeliveryInv
  <1>0. TypeOK
    OBVIOUS
  <1>c. unpruned \in Nat /\ Cardinality(Pruning) \in Nat /\ RecPrune \in {0, 1}
        /\ PrunesToCome = Cardinality(Pruning) + RecPrune
    BY <1>0, PruningType DEF TypeOK, HistoryTypeOK
  <1>d. Cardinality(Pruning)' \in Nat /\ PrunesToCome' = Cardinality(Pruning)' + RecPrune'
    BY PruningTypeNext
  <1>1. CASE Prune(t)
    BY <1>0, <1>1, PruneBound DEF Prune
  <1>2. CASE PruneFails(t)
    <2>1. /\ task[t].pc = "prune" /\ task'[t].pc # "prune"
          /\ \A u \in Tasks \ {t} : task'[u] = task[u]
      BY <1>0, <1>2, NextScriptOthers DEF PruneFails
    <2>2. unpruned' = unpruned + 1 /\ RecPrune' = RecPrune /\ Pending' = Pending
      BY <1>2 DEF PruneFails, RecPrune, Pending, store
    <2>3. Cardinality(Pruning)' = Cardinality(Pruning) - 1
      BY <1>0, <2>1, PruningMoved
    <2>4. QED
      BY <1>0, <1>c, <1>d, <2>2, <2>3, BoundKept
  <1>3. CASE Complete(t)
    <2>1. /\ task[t].pc # "prune" /\ task'[t].pc = "prune"
          /\ \A u \in Tasks \ {t} : task'[u] = task[u]
      BY <1>0, <1>3, GotoOthers DEF Complete
    <2>2. unpruned' = unpruned /\ RecPrune' = RecPrune
      BY <1>3 DEF Complete, RecPrune
    <2>3. Cardinality(Pruning)' = Cardinality(Pruning) + 1
      BY <1>0, <2>1, PruningMoved
    <2>4. Entry(t) \in Keys /\ Outcome(t) \in Results /\ CompleteTxn(Entry(t), Outcome(t))
      BY <1>0, <1>3, EntryType, OutcomeType DEF Complete, TypeOK
    <2>5. PrunesToCome' + unpruned' = PrunesToCome + unpruned + 1
      BY <1>c, <1>d, <2>2, <2>3
    <2>6. QED
      BY <1>0, <2>4, <2>5, CompleteBound
  <1>4. CASE ~(Prune(t) \/ PruneFails(t) \/ Complete(t))
    <2>1. /\ task[t].pc # "prune" /\ task'[t].pc # "prune"
          /\ \A u \in Tasks \ {t} : task'[u] = task[u]
      BY <1>0, <1>4, GotoOthers, NextScriptOthers, FreeTaskType DEF HandlerStep, HandlerFault,
         JournalBatch, JournalBatchFails, MarkStarted, MarkStartedFails, StartScript,
         CompleteFails, BestEffort, JournalRemove, JournalRemoveFails, PublishDirectly,
         TypeOK, TaskTypeOK
    <2>2. unpruned' = unpruned /\ RecPrune' = RecPrune /\ Pending' = Pending
      BY <1>4 DEF HandlerStep, HandlerFault,
         JournalBatch, JournalBatchFails, MarkStarted, MarkStartedFails, StartScript,
         CompleteFails, BestEffort, JournalRemove, JournalRemoveFails, PublishDirectly,
         store, history, RecPrune, Pending
    <2>3. Pruning' = Pruning
      BY <1>0, <2>1, PruningMoved
    <2>4. QED
      BY <1>0, <1>c, <1>d, <2>2, <2>3, BoundKept
  <1>5. QED
    BY <1>1, <1>2, <1>3, <1>4

LEMMA BoundOther ==
  ASSUME DeliveryInv, TypeOK', BoundInv, [Next]_vars,
         ~ \E t \in Tasks : HandlerStep(t) \/ HandlerFault(t)
  PROVE  BoundInv'
  <1> USE DEF DeliveryInv
  <1>0. TypeOK
    OBVIOUS
  <1>c. unpruned \in Nat /\ Cardinality(Pruning) \in Nat /\ RecPrune \in {0, 1}
        /\ PrunesToCome = Cardinality(Pruning) + RecPrune
    BY <1>0, PruningType DEF TypeOK, HistoryTypeOK
  <1>d. Cardinality(Pruning)' \in Nat /\ PrunesToCome' = Cardinality(Pruning)' + RecPrune'
    BY PruningTypeNext
  <1>1. CASE \/ FlushWake \/ FlushLoad \/ FlushSkip \/ FlushPublish \/ FlushPublishFails
             \/ FlushRemove \/ FlushLoadFails \/ FlushRemoveFails \/ Open \/ StartListening \/ RecoverFails
             \/ Tick \/ UNCHANGED vars
    <2>1. task' = task /\ unpruned' = unpruned
      BY <1>1 DEF FlushWake, FlushLoad, FlushSkip, FlushPublish, FlushPublishFails, FlushRemove,
         FlushLoadFails, FlushRemoveFails, Open, StartListening, RecoverFails, Tick, vars,
         history
    <2>2. RecPrune' = RecPrune
      BY <1>1 DEF FlushWake, FlushLoad, FlushSkip, FlushPublish, FlushPublishFails, FlushRemove,
         FlushLoadFails, FlushRemoveFails, Open, StartListening, RecoverFails, Tick, vars,
         RecPrune
    <2>3. outbox' = outbox \/ outbox' = [outbox EXCEPT ![flusher.cur] = NoResult]
      BY <1>1 DEF FlushWake, FlushLoad, FlushSkip, FlushPublish, FlushPublishFails, FlushRemove,
         FlushLoadFails, FlushRemoveFails, Open, StartListening, RecoverFails, Tick, vars,
         store
    <2>4. Pending' \subseteq Pending
      BY <1>0, <2>3 DEF Pending, TypeOK, StoreTypeOK
    <2>5. Pruning' = Pruning
      BY <2>1 DEF Pruning
    <2>6. QED
      BY <1>0, <1>c, <1>d, <2>1, <2>2, <2>4, <2>5, BoundKept
  <1>2. CASE RecoverPrune
    BY <1>0, <1>2, PruneBound DEF RecoverPrune
  <1>3. CASE RecoverPruneFails
    <2>1. RecPrune = 1 /\ RecPrune' = 0 /\ unpruned' = unpruned + 1
      BY <1>3 DEF RecoverPruneFails, RecPrune
    <2>2. Pruning' = Pruning /\ Pending' = Pending
      BY <1>3 DEF RecoverPruneFails, Pruning, Pending, store
    <2>3. QED
      BY <1>0, <1>c, <1>d, <2>1, <2>2, BoundKept
  <1>4. ASSUME NEW k \in Keys, RecoverEntry(k) PROVE BoundInv'
    <2>1. RecPrune = 0 /\ RecPrune' = 1 /\ unpruned' = unpruned /\ Pruning' = Pruning
      BY <1>4 DEF RecoverEntry, RecPrune, Pruning
    <2>2. PICK r \in Results : CompleteTxn(k, r)
      BY <1>0, <1>4 DEF RecoverEntry, Results, Kinds, TypeOK, HistoryTypeOK
    <2>3. PrunesToCome' + unpruned' = PrunesToCome + unpruned + 1
      BY <1>c, <1>d, <2>1
    <2>4. QED
      BY <1>0, <2>2, <2>3, CompleteBound
  <1>5. CASE Crash
    <2>1. Pruning' = {} /\ RecPrune' = 0 /\ Pending' = Pending
      BY <1>5, FreeTaskType DEF Crash, Pruning, RecPrune, Pending, store
    <2>2. unpruned' = unpruned + PrunesToCome /\ PrunesToCome' = 0
      BY <1>5, <1>d, <2>1, FS_EmptySet DEF Crash
    <2>3. QED
      BY <1>0, <1>c, <2>1, <2>2, BoundKept
  <1>6. CASE OpenDegraded
    <2>1. task' = task /\ RecPrune' = 0 /\ RecPrune = 0
      BY <1>6 DEF OpenDegraded, RecPrune
    <2>2. CASE outbox' = outbox /\ unpruned' = unpruned
      <3>1. Pending' = Pending /\ Pruning' = Pruning
        BY <2>1, <2>2 DEF Pending, Pruning
      <3>2. QED
        BY <1>0, <1>c, <1>d, <2>1, <2>2, <3>1, BoundKept
    <2>3. CASE outbox' = [k \in Keys |-> NoResult]
      <3>1. Pending' = {}
        BY <2>3 DEF Pending
      <3>2. Cap \in Nat /\ unpruned' \in Nat /\ PrunesToCome' \in Nat
        BY PruningTypeNext, BoundsAssumption DEF TypeOK, HistoryTypeOK
      <3>3. Cardinality(Pending)' = 0 /\ IsFiniteSet(Pending)'
        BY <3>1, FS_EmptySet
      <3>4. 0 <= Cap + PrunesToCome' + unpruned'
        BY <3>2, SumOfThree
      <3>5. QED
        BY <3>3, <3>4 DEF BoundInv, OutboxBound
    <2>4. QED
      BY <1>6, <2>2, <2>3 DEF OpenDegraded
  <1>7. ASSUME NEW t \in Tasks, NEW e \in Execs, Deliver(t, e) PROVE BoundInv'
    <2>1. /\ task[t].pc # "prune" /\ task'[t].pc # "prune"
          /\ \A u \in Tasks \ {t} : task'[u] = task[u]
      BY <1>0, <1>7 DEF Deliver, TypeOK, TaskTypeOK
    <2>2. RecPrune' = RecPrune /\ Pending' = Pending /\ unpruned' = unpruned
      BY <1>7 DEF Deliver, RecPrune, Pending, store, history
    <2>3. Pruning' = Pruning
      BY <1>0, <2>1, PruningMoved
    <2>4. QED
      BY <1>0, <1>c, <1>d, <2>2, <2>3, BoundKept
  <1>8. QED
    BY <1>1, <1>2, <1>3, <1>4, <1>5, <1>6, <1>7 DEF Next, FlusherStep, StartUpStep

\* The outbox exceeds OUTBOX_MAX_ENTRIES only by the completions whose prune is still to
\* come, was cut off by a crash or failed; and it is finite, whatever the batches.
THEOREM OutboxBounded == Spec => []OutboxBound
  <1>1. Init => BoundInv
    <2> SUFFICES ASSUME Init PROVE BoundInv
      OBVIOUS
    <2>1. Pending = {}
      BY DEF Init, Pending
    <2>2. Cap \in Nat /\ unpruned = 0 /\ PrunesToCome \in Nat
      BY PruningType, BoundsAssumption DEF Init
    <2>3. QED
      BY <2>1, <2>2, FS_EmptySet DEF BoundInv, OutboxBound
  <1>2. DeliveryInv /\ BoundInv /\ [Next]_vars => (DeliveryInv /\ BoundInv)'
    <2> SUFFICES ASSUME DeliveryInv, BoundInv, [Next]_vars PROVE DeliveryInv' /\ BoundInv'
      OBVIOUS
    <2>1. DeliveryInv' /\ TypeOK'
      BY DeliveryInductive DEF DeliveryInv
    <2>2. QED
      BY <2>1, BoundHandler, BoundOther
  <1>3. BoundInv => OutboxBound
    BY DEF BoundInv
  <1>4. QED
    BY <1>1, <1>2, <1>3, DeliveryInit, PTL DEF Spec
=============================================================================
