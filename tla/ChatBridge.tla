----------------------------- MODULE ChatBridge -----------------------------
(***************************************************************************)
(* The chat application's NATS bridge for one open dialog: the connection, *)
(* the tasks that create its JetStream consumer, the routers that hand the *)
(* chunks to the WebView's channel, and the page that subscribes.          *)
(*                                                                         *)
(* A chunk is its stream sequence number.  A task is aborted at its next   *)
(* await, so an aborted router may go on for a while before it dies.  Time *)
(* appears only as a step that may come late: back-offs are not counted.   *)
(***************************************************************************)
EXTENDS Integers, FiniteSets, FiniteSetsExt

CONSTANTS
    Attempts,     \* MAX_ATTEMPTS of schedule_consumer_recreate
    MaxCreators,  \* bound: tasks that create a consumer at the same time
    MaxRouters,   \* bound: routers at the same time
    MaxChunks,    \* bound: chunks published; a replay point leaves at least one
    MaxSubs,      \* bound: subscribe commands
    MaxFaults     \* bound: lost connections, failed requests or sends, unreadable chunks,
                  \* broken streams, reloads

ASSUME ChatAssumption ==
    {Attempts, MaxCreators, MaxRouters, MaxChunks, MaxSubs, MaxFaults} \subseteq Nat

VARIABLES
    tail,       \* the stream's last sequence number
    connected,  \* the WebSocket is up (state)
    client,     \* run() has stored the client
    dialog,     \* the dialog's entry of Inner.dialogs, or NoDialog
    creators,   \* the tasks inside recreate_dialog_consumer
    routers,    \* the tasks inside dialog_router
    channel,    \* the page whose channel is registered, 0 for none
    page,       \* the WebView: its load, the dialog open, its command
    subs, faults,
    got,        \* history: the chunks the page got for this subscription
    base,       \* history: the last chunk the page does not ask for
    lost,       \* history: the chunks of this subscription that the bridge passed over
                \* with no more than a line in its log
    mixed,      \* history: a task that had read an earlier subscription or page has
                \* touched this one
    gaveUp      \* history: a creating task ended without a consumer

None == -1
NoDialog == [open |-> FALSE]

link == <<connected, client>>
tasks == <<creators, routers>>
history == <<got, base, lost, mixed, gaveUp>>
vars == <<tail, link, dialog, tasks, channel, page, subs, faults, history>>

Fault == faults < MaxFaults /\ faults' = faults + 1

-----------------------------------------------------------------------------
(* Tasks *)

\* A creating task at pc; left counts its attempts, load is the page whose command
\* it is, entry the subscription it read.
Task(pc, left, load) ==
    [pc |-> pc, left |-> left, load |-> load, entry |-> 0,
     initial |-> None, last |-> None, start |-> 0, tail_floor |-> None, cut |-> FALSE]

Spawn(t) ==
    /\ Cardinality(creators) < MaxCreators
    /\ creators' = creators \cup {t}

\* A retry sleeps, that is, waits before it looks at the dialog.
schedule_consumer_recreate == Task("snapshot", Attempts, 0)

Replaced(set, old, new) == (set \ {old}) \cup {new}

\* A router that waits for its stream has nothing to run on and ends with the abort.
Suspended(r) == r.pc = "next" /\ ~r.cut /\ r.pos > tail

\* The handle in the entry is that of the router of the entry's last generation.
abort(rs) ==
    LET mine == {r \in rs : /\ dialog.open /\ dialog.task
                            /\ r.entry = dialog.entry /\ r.generation = dialog.generation}
    IN (rs \ mine) \cup {[r EXCEPT !.aborted = TRUE] : r \in {q \in mine : ~Suspended(q)}}

\* Mutant: one past the chunk that is next.
compute_start_seq_PastNext(initial, last) ==
    IF initial = None /\ last = None THEN None ELSE Max({initial, last + 1}) + 1

\* Mutant: the replay point itself is asked for again.
compute_start_seq_AtReplay(initial, last) ==
    IF initial = None /\ last = None THEN None ELSE Max({initial, last + 1})

\* The next chunk after the replay point and the last one delivered; None without both.
compute_start_seq(initial, last) ==
    IF initial = None /\ last = None THEN None ELSE Max({initial, last}) + 1

-----------------------------------------------------------------------------
(* The connection *)

\* run(): connect() returned the client, before or after the first Connected.
StoreClient ==
    /\ ~client /\ client' = TRUE
    /\ UNCHANGED <<tail, connected, dialog, tasks, channel, page, subs, faults, history>>

\* handle_nats_event: Connected spawns the task that resubscribes.
Connected ==
    /\ ~connected /\ connected' = TRUE
    /\ Spawn(Task("wait", 0, 0))
    /\ gaveUp' = FALSE
    /\ UNCHANGED <<tail, client, dialog, routers, channel, page, subs, faults, got, base,
                   lost, mixed>>

\* Disconnected: the streams that exist may end from now on.
Disconnected ==
    /\ connected /\ connected' = FALSE /\ Fault
    /\ routers' = {[r EXCEPT !.cut = TRUE] : r \in routers}
    /\ creators' = {[c EXCEPT !.cut = (c.pc = "store")] : c \in creators}
    /\ UNCHANGED <<tail, client, dialog, channel, page, subs, history>>

Publish ==
    /\ tail < MaxChunks /\ tail' = tail + 1
    /\ UNCHANGED <<link, dialog, tasks, channel, page, subs, faults, history>>

-----------------------------------------------------------------------------
(* The page: dialogOps runs one command at a time *)

\* init(): the page's channel replaces the one before.
register_event_channel ==
    /\ channel # page.load /\ channel' = page.load
    /\ UNCHANGED <<tail, link, dialog, tasks, page, subs, faults, history>>

\* A reload forgets the page's queue of commands; the bridge sees nothing of it.
\* (Without an open dialog it only changes the channel.)
Reload ==
    /\ page.open /\ Fault
    /\ page' = [load |-> page.load + 1, open |-> FALSE, busy |-> FALSE]
    /\ got' = {} /\ base' = None /\ lost' = {} /\ mixed' = dialog.open
    /\ UNCHANGED <<tail, link, dialog, tasks, channel, subs, gaveUp>>

\* subscribe_dialog with the replay point of the history fetch, or none.  An entry
\* with a live consumer is confirmed as it is; otherwise creation is tried.
subscribe_dialog(seq) ==
    /\ channel = page.load /\ ~page.busy /\ ~page.open
    /\ subs < MaxSubs /\ subs' = subs + 1
    /\ \/ /\ dialog.open /\ dialog.task
          /\ dialog' = [dialog EXCEPT !.initial = seq]
          /\ page' = [page EXCEPT !.open = TRUE]
          /\ UNCHANGED <<creators, gaveUp>>
       \/ /\ dialog.open /\ ~dialog.task
          /\ dialog' = [dialog EXCEPT !.initial = seq]
          /\ page' = [page EXCEPT !.open = TRUE, !.busy = TRUE]
          /\ Spawn(Task("snapshot", 0, page.load)) /\ gaveUp' = (gaveUp /\ ~client)
       \/ /\ ~dialog.open
          /\ dialog' = [open |-> TRUE, entry |-> subs', initial |-> seq, last |-> None,
                        task |-> FALSE, generation |-> 0]
          /\ page' = [page EXCEPT !.open = TRUE, !.busy = TRUE]
          /\ Spawn(Task("snapshot", 0, page.load)) /\ gaveUp' = (gaveUp /\ ~client)
    /\ got' = {} /\ base' = (IF dialog.open THEN None ELSE seq) /\ lost' = {}
    /\ mixed' = dialog.open
    /\ UNCHANGED <<tail, link, routers, channel, faults>>

\* unsubscribe_dialog: remove the entry, abort its router.
unsubscribe_dialog ==
    /\ page.open /\ ~page.busy
    /\ page' = [page EXCEPT !.open = FALSE]
    /\ dialog' = NoDialog
    /\ routers' = abort(routers)
    /\ got' = {} /\ base' = None /\ lost' = {} /\ mixed' = FALSE
    /\ UNCHANGED <<tail, link, creators, channel, subs, faults, gaveUp>>

-----------------------------------------------------------------------------
(* Creating a consumer *)

\* The page's queue goes on when its own command returns.
Returns(c) == page' = [page EXCEPT !.busy = @ /\ c.load # page.load]

Done(c) == creators' = creators \ {c} /\ Returns(c)

\* Mutant: the failure of a subscribe or a resubscribe is the end of it.
Failed_NoRetry(c) ==
    \/ /\ c.left > 1
       /\ creators' = Replaced(creators, c, Task("snapshot", c.left - 1, 0))
       /\ Returns(c) /\ UNCHANGED gaveUp
    \/ /\ c.left <= 1
       /\ Done(c) /\ gaveUp' = (gaveUp \/ c.left = 1)

\* Creation failed: the first failure schedules the retries, the last one ends them.
Failed(c) ==
    LET retries == IF c.left = 0 THEN schedule_consumer_recreate.left ELSE c.left - 1 IN
    \/ /\ retries > 0
       /\ creators' = Replaced(creators, c, Task("snapshot", retries, 0))
       /\ Returns(c) /\ UNCHANGED gaveUp
    \/ /\ retries = 0
       /\ Done(c) /\ gaveUp' = TRUE

\* The task of a Connected event waits for the client, then resubscribe_all_dialogs
\* aborts the old router; fifty polls without a client end the wait all the same.
resubscribe_all_dialogs(c) ==
    /\ c.pc = "wait"
    /\ dialog' = IF dialog.open THEN [dialog EXCEPT !.task = FALSE] ELSE dialog
    /\ routers' = abort(routers)
    /\ \/ /\ dialog.open /\ client
          /\ creators' = Replaced(creators, c, Task("snapshot", 0, 0))
          /\ UNCHANGED <<page, gaveUp>>
       \/ /\ ~(dialog.open /\ client)
          /\ Done(c) /\ gaveUp' = (gaveUp \/ ~client)
    /\ UNCHANGED <<tail, link, channel, subs, faults, got, base, lost, mixed>>

\* recreate_dialog_consumer: read the resume point, unless there is nothing to do.
recreate_dialog_consumer(c) ==
    /\ c.pc = "snapshot"
    /\ \/ /\ dialog.open /\ ~dialog.task /\ client
          /\ creators' = Replaced(creators, c,
               [c EXCEPT !.pc = "stream", !.entry = dialog.entry,
                         !.initial = dialog.initial, !.last = dialog.last])
          /\ UNCHANGED page
       \/ ~(dialog.open /\ ~dialog.task /\ client) /\ Done(c)
    /\ UNCHANGED <<tail, link, dialog, routers, channel, subs, faults, history>>

\* A JetStream request fails: while the connection is down, or for its own reasons.
RequestFails(c) ==
    /\ c.pc = "stream"
    /\ Failed(c)
    /\ \/ ~connected /\ UNCHANGED faults
       \/ connected /\ Fault
    /\ UNCHANGED <<tail, link, dialog, routers, channel, subs, got, base, lost, mixed>>

\* get_stream, create_consumer and messages(): a subscription without a resume point
\* starts behind the stream's tail.
get_stream(c) ==
    LET start == compute_start_seq(c.initial, c.last) IN
    /\ c.pc = "stream" /\ connected
    /\ creators' = Replaced(creators, c,
         [c EXCEPT !.pc = "store", !.initial = None, !.last = None,
                   !.start = IF start = None THEN tail + 1 ELSE start,
                   !.tail_floor = IF start = None THEN tail ELSE None])
    /\ UNCHANGED <<tail, link, dialog, routers, channel, page, subs, faults, history>>

\* Everything up to chunk n that was neither given nor passed over so far.
UpTo(n) == (Max({base, dialog.last}) + 1)..n

\* Under the lock: the tail becomes the resume point when there is none, the router
\* that is replaced is aborted, the new one gets the next generation.  When another
\* task has stored an earlier tail, what was published in between is passed over.
Store(c) ==
    LET floor == c.tail_floor # None /\ dialog.last = None
        late == c.tail_floor # None /\ ~floor
    IN
    /\ dialog' = [dialog EXCEPT !.last = IF floor THEN c.tail_floor ELSE @,
                                !.task = TRUE, !.generation = @ + 1]
    /\ routers' = abort(routers) \cup
         {[pc |-> "next", pos |-> c.start, entry |-> dialog.entry,
           generation |-> dialog.generation + 1, held |-> 0, chan |-> 0,
           aborted |-> FALSE, cut |-> c.cut]}
    /\ base' = IF floor /\ base = None THEN c.tail_floor ELSE base
    /\ lost' = IF late /\ ~mixed THEN lost \cup UpTo(c.tail_floor) ELSE lost
    /\ mixed' = (mixed \/ c.entry # dialog.entry)

\* The lock, whatever has become of the connection; the dialog may be gone by now.
create_and_store_consumer(c) ==
    /\ c.pc = "store"
    /\ \/ ~dialog.open /\ UNCHANGED <<dialog, routers, base, lost, mixed>>
       \/ dialog.open /\ Cardinality(routers) < MaxRouters /\ Store(c)
    /\ Done(c)
    /\ UNCHANGED <<tail, link, channel, subs, faults, got, gaveUp>>

Create(c) ==
    \/ resubscribe_all_dialogs(c)
    \/ recreate_dialog_consumer(c)
    \/ RequestFails(c)
    \/ get_stream(c)
    \/ create_and_store_consumer(c)

-----------------------------------------------------------------------------
(* dialog_router *)

\* The next chunk of the stream, and the channel as it is now.
Take(r) ==
    /\ r.pc = "next" /\ connected /\ r.pos <= tail
    /\ routers' = Replaced(routers, r,
         [r EXCEPT !.pc = "deliver", !.held = r.pos, !.pos = @ + 1, !.chan = channel])
    /\ UNCHANGED <<tail, link, dialog, creators, channel, page, subs, faults, history>>

\* A chunk that cannot be read as one is passed over.
Skip(r) ==
    /\ r.pc = "next" /\ connected /\ r.pos <= tail /\ Fault
    /\ routers' = Replaced(routers, r, [r EXCEPT !.pos = @ + 1])
    /\ lost' = IF dialog.open /\ r.entry = dialog.entry /\ ~mixed THEN lost \cup {r.pos} ELSE lost
    /\ UNCHANGED <<tail, link, dialog, creators, channel, page, subs, got, base, mixed, gaveUp>>

\* The chunk counts as delivered before it is sent; a failing send is only logged.
Sent(r) ==
    /\ dialog' = [dialog EXCEPT !.last = r.held]
    /\ \/ /\ r.chan = page.load /\ page.open
          /\ got' = got \cup {r.held} /\ mixed' = (mixed \/ r.entry # dialog.entry)
          /\ UNCHANGED <<lost, faults>>
       \/ /\ r.chan = page.load /\ page.open /\ Fault
          /\ lost' = lost \cup {r.held} /\ mixed' = (mixed \/ r.entry # dialog.entry)
          /\ UNCHANGED got
       \/ /\ ~(r.chan = page.load /\ page.open)
          /\ mixed' = TRUE /\ UNCHANGED <<got, lost, faults>>

\* Mutant: two routers that overlap are not told apart.
Handed_NoDedup(r) == Sent(r)

\* Under the lock: a chunk at or below the last one is dropped, another is sent.
Handed(r) ==
    \/ dialog.last >= r.held /\ UNCHANGED <<dialog, got, lost, mixed, faults>>
    \/ dialog.last < r.held /\ Sent(r)

\* A router whose dialog is gone leaves.
Deliver(r) ==
    /\ r.pc = "deliver"
    /\ \/ /\ dialog.open /\ Handed(r)
          /\ routers' = Replaced(routers, r,
               [r EXCEPT !.pc = "next", !.held = 0, !.chan = 0])
       \/ /\ ~dialog.open /\ routers' = routers \ {r}
          /\ UNCHANGED <<dialog, got, lost, mixed, faults>>
    /\ UNCHANGED <<tail, link, creators, channel, page, subs, base, gaveUp>>

\* The current router clears the task and has the consumer created again.
Leave(r) ==
    /\ routers' = routers \ {r}
    /\ \/ /\ dialog.open /\ dialog.generation = r.generation
          /\ dialog' = [dialog EXCEPT !.task = FALSE] /\ Spawn(schedule_consumer_recreate)
       \/ /\ ~(dialog.open /\ dialog.generation = r.generation)
          /\ UNCHANGED <<dialog, creators>>

\* The stream ends: after a lost connection, or for its own reasons.
StreamEnds(r) ==
    /\ r.pc = "next"
    /\ \/ r.cut /\ UNCHANGED faults
       \/ ~r.cut /\ Fault
    /\ Leave(r)
    /\ UNCHANGED <<tail, link, channel, page, subs, history>>

\* An aborted task reaches an await.
Dies(r) ==
    /\ r.aborted /\ routers' = routers \ {r}
    /\ UNCHANGED <<tail, link, dialog, creators, channel, page, subs, faults, history>>

Route(r) == Take(r) \/ Deliver(r)

-----------------------------------------------------------------------------
(* The specification *)

Init ==
    /\ tail = 0 /\ connected = FALSE /\ client = FALSE /\ dialog = NoDialog
    /\ creators = {} /\ routers = {}
    /\ channel = 0 /\ page = [load |-> 1, open |-> FALSE, busy |-> FALSE]
    /\ subs = 0 /\ faults = 0
    /\ got = {} /\ base = None /\ lost = {} /\ mixed = FALSE /\ gaveUp = FALSE

Next ==
    \/ StoreClient \/ Connected \/ Disconnected \/ Publish
    \/ register_event_channel \/ Reload \/ unsubscribe_dialog
    \/ \E seq \in {None} \cup 0..tail : seq < MaxChunks /\ subscribe_dialog(seq)
    \/ \E c \in creators : Create(c)
    \/ \E r \in routers : Route(r) \/ Skip(r) \/ StreamEnds(r) \/ Dies(r)

Progress ==
    \/ StoreClient \/ Connected
    \/ \E c \in creators : Create(c)
    \/ \E r \in routers : Route(r) \/ Dies(r)

\* The connector dials until it is connected, and the runtime does not stop while
\* some task can go on.
Fairness == WF_vars(Progress)

Spec == Init /\ [][Next]_vars /\ Fairness

-----------------------------------------------------------------------------
(* Properties *)

\* Every chunk the page gets is newer than all it got before for this
\* subscription, whichever routers overlap: dedup and send share one lock.
InOrder ==
    [][got # {} /\ got \subseteq got' => \A n \in got' \ got : n > Max(got)]_vars

\* The page follows a subscription that no task of another one has touched.
Clean == dialog.open /\ page.open /\ ~mixed

\* Every chunk is accounted for: beyond the replay point of the subscription, or the
\* stream's tail when it had none, everything at or below the number the bridge
\* will not deliver again was given to the page, or its send failed, or it could not be
\* read, or it was published between the tails that two creating tasks started from:
\* no reconnect, failed request or replaced router skips another.  Left out is what
\* "mixed" records.
NoGap == Clean /\ base # None => (base + 1)..dialog.last \subseteq got \cup lost

\* What dialogs.rs:161-163 and 249-254 are careful about, and the code does not have:
\* no chunk is lost for good.
NoChunkLost == Clean /\ base # None => (base + 1)..dialog.last \subseteq got

\* To the page, a subscription is one run of consecutive chunks: it begins behind the
\* replay point, or the tail the stream had, and every chunk from there on is given once
\* and in its turn or passed over as NoGap says, whatever is reconnected, retried or
\* replaced meanwhile.
Stream == INSTANCE ChunkStream WITH
    open <- Clean,
    from <- IF Clean THEN base ELSE None,
    given <- IF Clean THEN got ELSE {},
    missed <- IF Clean THEN lost ELSE {}
ConsecutiveRun == Stream!SSpec

\* The dialog's own consumer is live and has handed over the whole stream.
CaughtUp ==
    /\ dialog.open /\ dialog.task
    /\ \E r \in routers : /\ r.entry = dialog.entry /\ r.generation = dialog.generation
                           /\ ~r.aborted /\ r.pc = "next" /\ r.pos > tail

\* An open dialog has a live consumer that catches up with the stream in the end,
\* unless it is closed or a task that would have created one ran out of attempts:
\* no failure of a request, a stream or the connection leaves it silent.
Served == page.open ~> ~page.open \/ gaveUp \/ CaughtUp
=============================================================================
