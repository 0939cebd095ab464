-------------------------- MODULE ChatBridgeProofs --------------------------
(***************************************************************************)
(* Theorems about the chunks that the chat page gets, for any number of    *)
(* chunks, subscriptions, creating tasks, routers and failures.            *)
(***************************************************************************)
EXTENDS ChatBridge, TLAPS

Dialogs == [open : {TRUE}, entry : Nat, initial : {None} \cup Nat, last : {None} \cup Nat,
            task : BOOLEAN, generation : Nat]
Creators == [pc : {"wait", "snapshot", "stream", "store"}, left : Nat, load : Nat, entry : Nat,
             initial : {None} \cup Nat, last : {None} \cup Nat, start : Nat,
             tail_floor : {None} \cup Nat, cut : BOOLEAN]
Routers == [pc : {"next", "deliver"}, pos : Nat, entry : Nat, generation : Nat, held : Nat,
            chan : Nat, aborted : BOOLEAN, cut : BOOLEAN]

-----------------------------------------------------------------------------
(* The inductive invariant *)

\* The types of the state that the resume points and the chunks depend on.
TypeOK ==
  /\ tail \in Nat /\ subs \in Nat /\ channel \in Nat
  /\ dialog \in {NoDialog} \cup Dialogs
  /\ creators \subseteq Creators /\ routers \subseteq Routers
  /\ page \in [load : Nat, open : BOOLEAN, busy : BOOLEAN]
  /\ got \subseteq Nat /\ lost \subseteq Nat /\ base \in {None} \cup Nat

\* A subscription is younger than every task that has read an earlier one.
Entries ==
  /\ dialog.open => dialog.entry \in 1..subs
  /\ \A c \in creators : c.entry <= subs
  /\ \A r \in routers : r.entry <= subs

\* The last chunk given is the newest the page has.
Newest ==
  got # {} =>
    /\ dialog.open /\ \A n \in got : n <= dialog.last
    /\ \E m \in got : \A n \in got : n <= m

\* The chunk is not beyond the one that comes next, but for chunks that were passed over.
Near(n) == \A m \in Nat : base < m /\ dialog.last < m /\ m < n => m \in lost

Origin ==
  Clean => /\ dialog.initial # None => base = dialog.initial
           /\ base = None <=> dialog.initial = None /\ dialog.last = None

\* A creator of the subscription resumes no later than at the next chunk.
CreatorOK(c) ==
  Clean /\ c.entry = dialog.entry =>
    /\ c.pc = "stream" => c.initial = dialog.initial /\ c.last <= dialog.last
    /\ c.pc = "store" /\ c.tail_floor = None => base # None /\ Near(c.start)
    /\ c.pc = "store" /\ c.tail_floor # None =>
         c.start = c.tail_floor + 1 /\ dialog.initial = None

\* A router of the subscription is no further than at the next chunk.
RouterOK(r) ==
  Clean /\ r.entry = dialog.entry =>
    /\ base # None
    /\ r.pc = "next" => Near(r.pos)
    /\ r.pc = "deliver" => Near(r.held) /\ r.pos = r.held + 1

Followed == (\A c \in creators : CreatorOK(c)) /\ (\A r \in routers : RouterOK(r))

-----------------------------------------------------------------------------
(* Operators *)

LEMMA DialogType ==
  ASSUME TypeOK
  PROVE  /\ dialog.open \in BOOLEAN
         /\ dialog.open => dialog \in Dialogs
         /\ ~dialog.open => dialog = NoDialog
  <1>1. CASE dialog \in Dialogs
    BY <1>1 DEF Dialogs
  <1>2. CASE dialog = NoDialog
    BY <1>2 DEF NoDialog
  <1>3. QED
    BY <1>1, <1>2 DEF TypeOK

LEMMA MaxOfTwo ==
  ASSUME NEW a \in {None} \cup Nat, NEW b \in {None} \cup Nat
  PROVE  Max({a, b}) \in {a, b} /\ Max({a, b}) >= a /\ Max({a, b}) >= b
  <1> DEFINE S == {a, b}
  <1>1. \E x \in S : \A y \in S : x >= y
    BY DEF None
  <1>2. Max(S) = CHOOSE x \in S : \A y \in S : x >= y
    BY DEF Max
  <1>3. Max(S) \in S /\ \A y \in S : Max(S) >= y
    BY <1>1, <1>2
  <1>4. QED
    BY <1>3

LEMMA UpToType ==
  ASSUME TypeOK, dialog.open, NEW n \in {None} \cup Nat
  PROVE  /\ UpTo(n) \subseteq Nat
         /\ \A m \in Nat : base < m /\ dialog.last < m /\ m <= n => m \in UpTo(n)
  <1>1. base \in {None} \cup Nat /\ dialog.last \in {None} \cup Nat
    BY DialogType DEF TypeOK, Dialogs
  <1> DEFINE top == Max({base, dialog.last})
  <1>2. top \in {base, dialog.last} /\ top >= base /\ top >= dialog.last
    BY <1>1, MaxOfTwo
  <1> HIDE DEF top
  <1>3. top \in {-1} \cup Nat /\ UpTo(n) = (top + 1)..n
    BY <1>1, <1>2 DEF UpTo, None, top
  <1>4. n \in Int
    BY DEF None
  <1>5. QED
    BY <1>1, <1>2, <1>3, <1>4

\* A new task has read nothing yet.
LEMMA TaskType ==
  ASSUME NEW pc \in {"wait", "snapshot"}, NEW left \in Nat, NEW load \in Nat
  PROVE  /\ Task(pc, left, load) \in Creators
         /\ Task(pc, left, load).pc = pc /\ Task(pc, left, load).entry = 0
  BY DEF Task, Creators, None

\* What an abort leaves of a router.
Same(r, q) ==
  r.pc = q.pc /\ r.pos = q.pos /\ r.held = q.held /\ r.entry = q.entry

LEMMA AbortEffect ==
  ASSUME NEW rs \in SUBSET Routers
  PROVE  \A r \in abort(rs) : r \in Routers /\ \E q \in rs : Same(r, q)
  <1>1. ASSUME NEW q \in Routers
        PROVE  [q EXCEPT !.aborted = TRUE] \in Routers /\ Same([q EXCEPT !.aborted = TRUE], q)
               /\ Same(q, q)
    BY DEF Routers, Same
  <1>2. ASSUME NEW r \in abort(rs) PROVE \E q \in rs : r \in {q, [q EXCEPT !.aborted = TRUE]}
    BY DEF abort
  <1>3. QED
    BY <1>1, <1>2

-----------------------------------------------------------------------------
(* What the actions do *)

\* A task whose connection was lost knows the same as before.
SameTask(c, d) ==
  /\ c.pc = d.pc /\ c.entry = d.entry /\ c.initial = d.initial /\ c.last = d.last
  /\ c.start = d.start /\ c.tail_floor = d.tail_floor

\* A creating task starts over, or is new.
Fresh(c) == c \in Creators /\ c.pc \in {"wait", "snapshot"} /\ c.entry = 0
OldCreators ==
  \A c \in creators' : \/ c \in creators \/ Fresh(c)
                       \/ c \in Creators /\ \E d \in creators : SameTask(c, d)
OldRouters == \A r \in routers' : r \in Routers /\ \E q \in routers : Same(r, q)

\* The subscription, its resume point and what the page has stay.
Quiet ==
  /\ UNCHANGED <<base, got, lost, mixed, subs>> /\ page'.open = page.open
  /\ dialog' \in {NoDialog} \cup Dialogs
  /\ dialog'.open = dialog.open /\ dialog'.entry = dialog.entry
  /\ dialog'.initial = dialog.initial /\ dialog'.last = dialog.last

RoutersResult ==
  \/ OldRouters
  \/ \E t \in creators : create_and_store_consumer(t) /\ dialog.open
  \/ \E q \in routers : Take(q) \/ Skip(q) \/ Deliver(q)

Gives(q) == Deliver(q) /\ dialog.open /\ dialog.last < q.held /\ Sent(q)
SubscriptionResult ==
  \/ Quiet \/ Reload \/ unsubscribe_dialog
  \/ \E s \in {None} \cup 0..tail : subscribe_dialog(s)
  \/ \E t \in creators : create_and_store_consumer(t) /\ dialog.open
  \/ \E q \in routers : Gives(q) \/ Skip(q)

LEMMA RetryType ==
  ASSUME TypeOK, NEW c \in creators, Failed(c)
  PROVE  OldCreators
  <1>1. c \in Creators /\ c.left \in Nat
    BY DEF TypeOK, Creators
  <1>2. Attempts \in Nat
    BY ChatAssumption
  <1>3. schedule_consumer_recreate.left = Attempts
    BY DEF schedule_consumer_recreate, Task
  <1> DEFINE retries == IF c.left = 0 THEN schedule_consumer_recreate.left ELSE c.left - 1
  <1>4. retries \in Nat
    BY <1>1, <1>2, <1>3
  <1>5. \/ creators' = Replaced(creators, c, Task("snapshot", retries, 0))
        \/ creators' = creators \ {c}
    BY DEF Failed, Done
  <1> HIDE DEF retries
  <1>6. QED
    BY <1>4, <1>5, TaskType DEF OldCreators, Replaced, Fresh

\* Only two actions take a creating task further.
CreatorsAdvance == OldCreators \/ \E t \in creators : recreate_dialog_consumer(t) \/ get_stream(t)
LEMMA CreatorsStep ==
  ASSUME TypeOK, [Next]_vars
  PROVE  CreatorsAdvance
  <1> USE DEF CreatorsAdvance, OldCreators
  <1>1. CASE StoreClient
    BY <1>1 DEF StoreClient, Fault, link, tasks, history
  <1>2. CASE Connected
    BY <1>2, TaskType DEF Connected, Spawn, OldCreators, Fresh, tasks
  <1>3. CASE Disconnected
    <2>1. ASSUME NEW d \in creators
          PROVE  LET c == [d EXCEPT !.cut = (d.pc = "store")]
                 IN  c \in Creators /\ SameTask(c, d)
      BY DEF TypeOK, Creators, SameTask
    <2>2. creators' = {[d EXCEPT !.cut = (d.pc = "store")] : d \in creators}
      BY <1>3 DEF Disconnected
    <2>3. QED
      BY <2>1, <2>2
  <1>4. CASE Publish
    BY <1>4 DEF Publish, Fault, link, tasks, history
  <1>5. CASE register_event_channel
    BY <1>5 DEF register_event_channel, Fault, link, tasks, history
  <1>6. CASE Reload
    BY <1>6 DEF Reload, Fault, link, tasks, history
  <1>7. CASE unsubscribe_dialog
    BY <1>7 DEF unsubscribe_dialog, Fault, link, tasks, history
  <1>8. ASSUME NEW seq \in {None} \cup 0..tail, subscribe_dialog(seq) PROVE CreatorsAdvance
    <2>1. page.load \in Nat
      BY DEF TypeOK
    <2>2. Fresh(Task("snapshot", 0, page.load))
      BY <2>1, TaskType DEF Fresh
    <2>3. creators' \in {creators, creators \cup {Task("snapshot", 0, page.load)}}
      BY <1>8 DEF subscribe_dialog, Spawn
    <2>4. QED
      BY <2>2, <2>3 DEF OldCreators
  <1>9. ASSUME NEW c \in creators, resubscribe_all_dialogs(c) PROVE CreatorsAdvance
    <2>1. creators' \in {creators \ {c}, Replaced(creators, c, Task("snapshot", 0, 0))}
      BY <1>9 DEF resubscribe_all_dialogs, Done
    <2>2. QED
      BY <2>1, TaskType DEF OldCreators, Fresh, Replaced
  <1>10. ASSUME NEW c \in creators, recreate_dialog_consumer(c) PROVE CreatorsAdvance
    BY <1>10
  <1>11. ASSUME NEW c \in creators, RequestFails(c) PROVE CreatorsAdvance
    BY <1>11, RetryType DEF RequestFails
  <1>12. ASSUME NEW c \in creators, get_stream(c) PROVE CreatorsAdvance
    BY <1>12
  <1>13. ASSUME NEW c \in creators, create_and_store_consumer(c) PROVE CreatorsAdvance
    BY <1>13 DEF create_and_store_consumer, Done, OldCreators
  <1>14. ASSUME NEW r \in routers, Take(r) PROVE CreatorsAdvance
    BY <1>14 DEF Take, Fault, link, tasks, history
  <1>15. ASSUME NEW r \in routers, Deliver(r) PROVE CreatorsAdvance
    BY <1>15 DEF Deliver, Fault, link, tasks, history
  <1>16. ASSUME NEW r \in routers, StreamEnds(r) PROVE CreatorsAdvance
    <2>1. creators' \in {creators, creators \cup {schedule_consumer_recreate}}
      BY <1>16 DEF StreamEnds, Leave, Spawn
    <2>2. QED
      BY <2>1, TaskType, ChatAssumption DEF OldCreators, Fresh, schedule_consumer_recreate
  <1>17. ASSUME NEW r \in routers, Dies(r) PROVE CreatorsAdvance
    BY <1>17 DEF Dies, Fault, link, tasks, history
  <1>18. CASE UNCHANGED vars
    BY <1>18 DEF vars, link, tasks, history
  <1>19. ASSUME NEW r \in routers, Skip(r) PROVE CreatorsAdvance
    BY <1>19 DEF Skip
  <1>20. QED
    BY <1>1, <1>2, <1>3, <1>4, <1>5, <1>6, <1>7, <1>8, <1>9, <1>10, <1>11, <1>12,
       <1>13, <1>14, <1>15, <1>16, <1>17, <1>18, <1>19 DEF Next, Create, Route

LEMMA RoutersStay ==
  ASSUME TypeOK, routers' \subseteq routers
  PROVE  OldRouters
  BY DEF TypeOK, OldRouters, Same

\* Only four actions start a router or take it further.
LEMMA RoutersStep ==
  ASSUME TypeOK, [Next]_vars
  PROVE  RoutersResult
  <1> USE DEF RoutersResult
  <1>1. CASE StoreClient
    BY <1>1, RoutersStay DEF StoreClient, link, tasks, history
  <1>2. CASE Connected
    BY <1>2, RoutersStay DEF Connected, link, tasks, history
  <1>3. CASE Disconnected
    <2>1. ASSUME NEW q \in routers
          PROVE  [q EXCEPT !.cut = TRUE] \in Routers /\ Same([q EXCEPT !.cut = TRUE], q)
      BY DEF TypeOK, Routers, Same
    <2>2. routers' = {[r EXCEPT !.cut = TRUE] : r \in routers}
      BY <1>3 DEF Disconnected
    <2>3. QED
      BY <2>1, <2>2 DEF OldRouters
  <1>4. CASE Publish
    BY <1>4, RoutersStay DEF Publish, link, tasks, history
  <1>5. CASE register_event_channel
    BY <1>5, RoutersStay DEF register_event_channel, link, tasks, history
  <1>6. CASE Reload
    BY <1>6, RoutersStay DEF Reload, link, tasks, history
  <1>7. CASE unsubscribe_dialog
    BY <1>7, AbortEffect DEF unsubscribe_dialog, TypeOK, OldRouters
  <1>8. ASSUME NEW seq \in {None} \cup 0..tail, subscribe_dialog(seq) PROVE RoutersResult
    BY <1>8, RoutersStay DEF subscribe_dialog, link, tasks, history
  <1>9. ASSUME NEW c \in creators, resubscribe_all_dialogs(c) PROVE RoutersResult
    BY <1>9, AbortEffect DEF resubscribe_all_dialogs, TypeOK, OldRouters
  <1>10. ASSUME NEW c \in creators, recreate_dialog_consumer(c) PROVE RoutersResult
    BY <1>10, RoutersStay DEF recreate_dialog_consumer, link, tasks, history
  <1>11. ASSUME NEW c \in creators, RequestFails(c) PROVE RoutersResult
    BY <1>11, RoutersStay DEF RequestFails, link, tasks, history
  <1>12. ASSUME NEW c \in creators, get_stream(c) PROVE RoutersResult
    BY <1>12, RoutersStay DEF get_stream, link, tasks, history
  <1>13. ASSUME NEW c \in creators, create_and_store_consumer(c) PROVE RoutersResult
    BY <1>13, RoutersStay DEF create_and_store_consumer
  <1>14. ASSUME NEW r \in routers, Take(r) PROVE RoutersResult
    BY <1>14
  <1>15. ASSUME NEW r \in routers, Deliver(r) PROVE RoutersResult
    BY <1>15
  <1>16. ASSUME NEW r \in routers, StreamEnds(r) PROVE RoutersResult
    BY <1>16, RoutersStay DEF StreamEnds, Leave
  <1>17. ASSUME NEW r \in routers, Dies(r) PROVE RoutersResult
    BY <1>17, RoutersStay DEF Dies
  <1>18. CASE UNCHANGED vars
    BY <1>18, RoutersStay DEF vars, link, tasks, history
  <1>19. ASSUME NEW r \in routers, Skip(r) PROVE RoutersResult
    BY <1>19
  <1>20. QED
    BY <1>1, <1>2, <1>3, <1>4, <1>5, <1>6, <1>7, <1>8, <1>9, <1>10, <1>11, <1>12,
       <1>13, <1>14, <1>15, <1>16, <1>17, <1>18, <1>19 DEF Next, Create, Route

\* Only six actions change the subscription or what the page has of it.
LEMMA SubscriptionStep ==
  ASSUME TypeOK, [Next]_vars
  PROVE  SubscriptionResult
  <1> USE DEF SubscriptionResult
  <1>1. CASE StoreClient
    BY <1>1 DEF StoreClient, Quiet, TypeOK, link, tasks, history
  <1>2. CASE Connected
    BY <1>2 DEF Connected, Quiet, TypeOK, link, tasks, history
  <1>3. CASE Disconnected
    BY <1>3 DEF Disconnected, Quiet, TypeOK, link, tasks, history
  <1>4. CASE Publish
    BY <1>4 DEF Publish, Quiet, TypeOK, link, tasks, history
  <1>5. CASE register_event_channel
    BY <1>5 DEF register_event_channel, Quiet, TypeOK, link, tasks, history
  <1>6. CASE Reload
    BY <1>6
  <1>7. CASE unsubscribe_dialog
    BY <1>7
  <1>8. ASSUME NEW seq \in {None} \cup 0..tail, subscribe_dialog(seq) PROVE SubscriptionResult
    BY <1>8
  <1>9. ASSUME NEW c \in creators, resubscribe_all_dialogs(c) PROVE SubscriptionResult
    <2>1. dialog' \in {dialog, [dialog EXCEPT !.task = FALSE]} /\ (dialog' # dialog => dialog.open)
      BY <1>9 DEF resubscribe_all_dialogs
    <2>2. UNCHANGED <<base, got, lost, mixed, subs>> /\ page'.open = page.open
      BY <1>9 DEF resubscribe_all_dialogs, Done, Returns, TypeOK
    <2>3. QED
      BY <2>1, <2>2, DialogType DEF Quiet, Dialogs, TypeOK
  <1>10. ASSUME NEW c \in creators, recreate_dialog_consumer(c) PROVE SubscriptionResult
    BY <1>10 DEF recreate_dialog_consumer, Failed, Done, Returns, Quiet, TypeOK, history
  <1>11. ASSUME NEW c \in creators, RequestFails(c) PROVE SubscriptionResult
    BY <1>11 DEF RequestFails, Failed, Done, Returns, Quiet, TypeOK, history
  <1>12. ASSUME NEW c \in creators, get_stream(c) PROVE SubscriptionResult
    BY <1>12 DEF get_stream, Failed, Done, Returns, Quiet, TypeOK, history
  <1>13. ASSUME NEW c \in creators, create_and_store_consumer(c) PROVE SubscriptionResult
    BY <1>13 DEF create_and_store_consumer, Done, Returns, Quiet, TypeOK
  <1>14. ASSUME NEW r \in routers, Take(r) PROVE SubscriptionResult
    BY <1>14 DEF Take, Quiet, TypeOK, link, tasks, history
  <1>15. ASSUME NEW r \in routers, Deliver(r) PROVE SubscriptionResult
    <2>1. CASE Quiet
      BY <2>1
    <2>2. CASE ~Quiet
      <3>1. Gives(r)
        BY <1>15, <2>2 DEF Gives, Deliver, Handed, Quiet, TypeOK
      <3>2. QED
        BY <3>1
    <2>3. QED
      BY <2>1, <2>2
  <1>16. ASSUME NEW r \in routers, StreamEnds(r) PROVE SubscriptionResult
    <2>1. dialog' \in {dialog, [dialog EXCEPT !.task = FALSE]} /\ (dialog' # dialog => dialog.open)
      BY <1>16 DEF StreamEnds, Leave
    <2>2. UNCHANGED <<base, got, lost, mixed, subs, page>>
      BY <1>16 DEF StreamEnds, history
    <2>3. QED
      BY <2>1, <2>2, DialogType DEF Quiet, Dialogs, TypeOK
  <1>17. ASSUME NEW r \in routers, Dies(r) PROVE SubscriptionResult
    BY <1>17 DEF Dies, Quiet, TypeOK, link, tasks, history
  <1>18. CASE UNCHANGED vars
    BY <1>18 DEF vars, history, Quiet, TypeOK
  <1>19. ASSUME NEW r \in routers, Skip(r) PROVE SubscriptionResult
    BY <1>19
  <1>20. QED
    BY <1>1, <1>2, <1>3, <1>4, <1>5, <1>6, <1>7, <1>8, <1>9, <1>10, <1>11, <1>12,
       <1>13, <1>14, <1>15, <1>16, <1>17, <1>18, <1>19 DEF Next, Create, Route

\* The chunk after the replay point or after the last one read, the later of the two.
LEMMA StartEffect ==
  ASSUME NEW initial \in {None} \cup Nat, NEW last \in {None} \cup Nat
  PROVE  LET start == compute_start_seq(initial, last)
         IN  /\ initial = None /\ last = None => start = None
             /\ initial # None \/ last # None =>
                  start \in Nat /\ initial < start /\ last < start
                  /\ ((initial # None /\ start = initial + 1)
                      \/ (last # None /\ start = last + 1))
  <1>1. CASE initial = None /\ last = None
    BY <1>1 DEF compute_start_seq
  <1>2. CASE initial # None \/ last # None
    <2>1. compute_start_seq(initial, last) = Max({initial, last}) + 1
      BY <1>2 DEF compute_start_seq
    <2>2. Max({initial, last}) \in {initial, last} /\ Max({initial, last}) >= initial
          /\ Max({initial, last}) >= last
      BY MaxOfTwo
    <2>3. Max({initial, last}) \in Nat /\ (Max({initial, last}) = initial => initial # None)
          /\ (Max({initial, last}) = last => last # None) /\ initial \in Int /\ last \in Int
      BY <1>2, <2>2 DEF None
    <2>4. QED
      BY <1>2, <2>1, <2>2, <2>3
  <1>3. QED
    BY <1>1, <1>2

\* A task that has read the resume point, and one that has asked for the stream.
Read(c) ==
  /\ c \in Creators /\ c.pc = "stream" /\ dialog.open
  /\ c.entry = dialog.entry /\ c.initial = dialog.initial /\ c.last = dialog.last
Asked(c, t) ==
  /\ c \in Creators /\ c.pc = "store" /\ t.pc = "stream" /\ c.entry = t.entry
  /\ t.initial = None /\ t.last = None => c.tail_floor # None /\ c.start = c.tail_floor + 1
  /\ t.initial # None \/ t.last # None =>
       /\ c.tail_floor = None /\ t.initial < c.start /\ t.last < c.start
       /\ (t.initial # None /\ c.start = t.initial + 1) \/ (t.last # None /\ c.start = t.last + 1)

LEMMA ReadEffect ==
  ASSUME TypeOK, NEW t \in creators, recreate_dialog_consumer(t)
  PROVE  Quiet /\ \A c \in creators' : c \in creators \/ Read(c)
  <1>1. Quiet
    BY DEF recreate_dialog_consumer, Done, Returns, Quiet, TypeOK, history
  <1>2. CASE creators' = creators \ {t}
    BY <1>1, <1>2
  <1>3. CASE creators' # creators \ {t}
    <2> DEFINE new == [t EXCEPT !.pc = "stream", !.entry = dialog.entry,
                                !.initial = dialog.initial, !.last = dialog.last]
    <2>1. dialog.open /\ creators' = Replaced(creators, t, new)
      BY <1>3 DEF recreate_dialog_consumer, Done
    <2>2. t \in Creators /\ dialog \in Dialogs
      BY <2>1, DialogType DEF TypeOK
    <2>3. Read(new)
      BY <2>1, <2>2 DEF Read, Creators, Dialogs
    <2>4. QED
      BY <1>1, <2>1, <2>3 DEF Replaced
  <1>4. QED
    BY <1>2, <1>3

LEMMA AskedEffect ==
  ASSUME TypeOK, NEW t \in creators, get_stream(t)
  PROVE  Quiet /\ \A c \in creators' : c \in creators \/ Asked(c, t)
  <1>1. Quiet
    BY DEF get_stream, Quiet, TypeOK, history
  <1> DEFINE start == compute_start_seq(t.initial, t.last)
             new == [t EXCEPT !.pc = "store", !.initial = None, !.last = None,
                              !.start = IF start = None THEN tail + 1 ELSE start,
                              !.tail_floor = IF start = None THEN tail ELSE None]
  <1>2. t.pc = "stream" /\ creators' = Replaced(creators, t, new)
    BY DEF get_stream
  <1>3. /\ t \in Creators /\ tail \in Nat
        /\ t.initial \in {None} \cup Nat /\ t.last \in {None} \cup Nat
    BY DEF TypeOK, Creators
  <1>4. /\ t.initial = None /\ t.last = None => start = None
        /\ t.initial # None \/ t.last # None =>
             start \in Nat /\ t.initial < start /\ t.last < start
             /\ ((t.initial # None /\ start = t.initial + 1)
                 \/ (t.last # None /\ start = t.last + 1))
    BY <1>3, StartEffect
  <1> HIDE DEF start
  <1>5. /\ new.pc = "store" /\ new.entry = t.entry
        /\ new.start = (IF start = None THEN tail + 1 ELSE start)
        /\ new.tail_floor = (IF start = None THEN tail ELSE None)
    BY <1>3 DEF Creators
  <1>6. (start = None \/ start \in Nat) /\ tail # None /\ (start \in Nat => start # None)
    BY <1>3, <1>4 DEF None
  <1>7. new \in Creators
    <2>1. (IF start = None THEN tail + 1 ELSE start) \in Nat
          /\ (IF start = None THEN tail ELSE None) \in {None} \cup Nat
      BY <1>3, <1>6
    <2>2. QED
      BY <1>3, <2>1, Zenon DEF Creators
  <1> HIDE DEF new
  <1>8. Asked(new, t)
    BY <1>2, <1>4, <1>5, <1>6, <1>7 DEF Asked
  <1>9. QED
    BY <1>1, <1>2, <1>8 DEF Replaced

\* A router holds the chunk it took, and goes on with the next one.
LEMMA TakeEffect ==
  ASSUME TypeOK, NEW q \in routers, Take(q)
  PROVE  /\ Quiet /\ q.pc = "next"
         /\ \A r \in routers' : \/ r \in routers
                                \/ /\ r \in Routers /\ r.pc = "deliver" /\ r.held = q.pos
                                   /\ r.pos = q.pos + 1 /\ r.entry = q.entry
  <1>1. Quiet /\ q.pc = "next"
    BY DEF Take, Quiet, TypeOK, history
  <1> DEFINE new == [q EXCEPT !.pc = "deliver", !.held = q.pos, !.pos = q.pos + 1,
                              !.chan = channel]
  <1>2. routers' = Replaced(routers, q, new)
    BY DEF Take
  <1>3. q \in Routers /\ channel \in Nat
    BY DEF TypeOK
  <1>4. new \in Routers /\ new.pc = "deliver" /\ new.held = q.pos /\ new.pos = q.pos + 1
        /\ new.entry = q.entry
    <2>1. q.pos \in Nat /\ q.pos + 1 \in Nat
      BY <1>3 DEF Routers
    <2>2. QED
      BY <1>3, <2>1 DEF Routers
  <1>5. QED
    BY <1>1, <1>2, <1>4 DEF Replaced

\* A router passes over the chunk it should have taken.
LEMMA SkipEffect ==
  ASSUME TypeOK, NEW q \in routers, Skip(q)
  PROVE  /\ UNCHANGED <<dialog, page, base, got, mixed, subs>> /\ q.pc = "next"
         /\ q.pos \in Nat /\ lost' \in {lost, lost \cup {q.pos}}
         /\ Clean /\ q.entry = dialog.entry => lost' = lost \cup {q.pos}
         /\ \A r \in routers' : \/ r \in routers
                                \/ /\ r \in Routers /\ r.pc = "next" /\ r.pos = q.pos + 1
                                   /\ r.entry = q.entry
  <1>1. /\ UNCHANGED <<dialog, page, base, got, mixed, subs>> /\ q.pc = "next"
        /\ lost' \in {lost, lost \cup {q.pos}}
        /\ Clean /\ q.entry = dialog.entry => lost' = lost \cup {q.pos}
    BY DEF Skip, Clean
  <1>2. routers' = Replaced(routers, q, [q EXCEPT !.pos = q.pos + 1])
    BY DEF Skip
  <1>3. q \in Routers /\ q.pos \in Nat
    BY DEF TypeOK, Routers
  <1>4. [q EXCEPT !.pos = q.pos + 1] \in Routers
        /\ [q EXCEPT !.pos = q.pos + 1].pc = q.pc /\ [q EXCEPT !.pos = q.pos + 1].pos = q.pos + 1
        /\ [q EXCEPT !.pos = q.pos + 1].entry = q.entry
    BY <1>3 DEF Routers
  <1>5. QED
    BY <1>1, <1>2, <1>3, <1>4 DEF Replaced

LEMMA DeliverEffect ==
  ASSUME TypeOK, NEW q \in routers, Deliver(q)
  PROVE  /\ q.pc = "deliver"
         /\ \A r \in routers' : \/ r \in routers
                                \/ /\ r \in Routers /\ r.pc = "next" /\ r.pos = q.pos
                                   /\ r.entry = q.entry /\ dialog.open
  <1> DEFINE new == [q EXCEPT !.pc = "next", !.held = 0, !.chan = 0]
  <1>1. /\ q.pc = "deliver"
        /\ \/ routers' = routers \ {q}
           \/ dialog.open /\ routers' = Replaced(routers, q, new)
    BY DEF Deliver
  <1>2. q \in Routers
    BY DEF TypeOK
  <1>3. new \in Routers /\ new.pc = "next" /\ new.pos = q.pos /\ new.entry = q.entry
    BY <1>2 DEF Routers
  <1>4. QED
    BY <1>1, <1>3 DEF Replaced

\* The dialog's last chunk is the one just given, to the page or to nobody.
Given1(q) == got' = got \cup {q.held} /\ lost' = lost
Missed1(q) == got' = got /\ lost' = lost \cup {q.held}
LEMMA GivesEffect ==
  ASSUME TypeOK, NEW q \in routers, Gives(q)
  PROVE  /\ dialog' \in Dialogs /\ dialog'.open = dialog.open /\ dialog'.entry = dialog.entry
         /\ dialog'.initial = dialog.initial /\ dialog'.last = q.held /\ dialog.last < q.held
         /\ UNCHANGED <<page, base, subs>> /\ q.held \in Nat /\ q.pc = "deliver" /\ dialog.open
         /\ got' \in {got, got \cup {q.held}} /\ lost' \in {lost, lost \cup {q.held}}
         /\ ~mixed' => /\ ~mixed /\ page.open /\ q.entry = dialog.entry
                       /\ Given1(q) \/ Missed1(q)
  <1>1. q \in Routers /\ dialog \in Dialogs
    BY DialogType DEF TypeOK, Gives
  <1>2. dialog' = [dialog EXCEPT !.last = q.held] /\ q.held \in Nat
    BY <1>1 DEF Gives, Sent, Routers
  <1>3. dialog' \in Dialogs /\ dialog'.open = dialog.open /\ dialog'.entry = dialog.entry
        /\ dialog'.initial = dialog.initial /\ dialog'.last = q.held
    BY <1>1, <1>2 DEF Dialogs
  <1>4. UNCHANGED <<page, base, subs>> /\ dialog.last < q.held /\ q.pc = "deliver" /\ dialog.open
    BY DEF Gives, Deliver
  <1>5. /\ got' \in {got, got \cup {q.held}} /\ lost' \in {lost, lost \cup {q.held}}
        /\ ~mixed' => ~mixed /\ page.open /\ q.entry = dialog.entry /\ (Given1(q) \/ Missed1(q))
    BY DEF Gives, Sent, Given1, Missed1
  <1>6. QED
    BY <1>2, <1>3, <1>4, <1>5

\* A consumer is stored: with a resume point at the tail it asked for, if there is none.
Floors(t) == t.tail_floor # None /\ dialog.last = None
Late(t) == t.tail_floor # None /\ ~Floors(t)
LEMMA StoreEffect ==
  ASSUME TypeOK, NEW t \in creators, create_and_store_consumer(t), dialog.open
  PROVE  /\ dialog' \in Dialogs /\ dialog'.open = dialog.open /\ dialog'.entry = dialog.entry
         /\ dialog'.initial = dialog.initial /\ t.pc = "store" /\ t \in Creators
         /\ got' = got /\ subs' = subs /\ page'.open = page.open
         /\ Floors(t) => /\ dialog'.last = t.tail_floor
                         /\ base' = IF base = None THEN t.tail_floor ELSE base
         /\ ~Floors(t) => dialog'.last = dialog.last /\ base' = base
         /\ ~mixed' => ~mixed /\ t.entry = dialog.entry
         /\ lost' = IF ~mixed /\ Late(t) THEN lost \cup UpTo(t.tail_floor) ELSE lost
         /\ \A r \in routers' :
              /\ r \in Routers
              /\ \/ \E q \in routers : Same(r, q)
                 \/ r.pc = "next" /\ r.pos = t.start /\ r.entry = dialog.entry
  <1>1. t \in Creators /\ dialog \in Dialogs
    BY DialogType DEF TypeOK
  <1>2. t.pc = "store" /\ Store(t) /\ got' = got /\ subs' = subs /\ page'.open = page.open
    BY DEF create_and_store_consumer, Done, Returns, TypeOK
  <1>3. dialog' = [dialog EXCEPT !.last = IF Floors(t) THEN t.tail_floor ELSE @,
                                 !.task = TRUE, !.generation = @ + 1]
    BY <1>2 DEF Store, Floors
  <1>4. dialog' \in Dialogs /\ dialog'.open = dialog.open /\ dialog'.entry = dialog.entry
        /\ dialog'.initial = dialog.initial
        /\ dialog'.last = IF Floors(t) THEN t.tail_floor ELSE dialog.last
    <2> DEFINE last == IF Floors(t) THEN t.tail_floor ELSE dialog.last
    <2>1. last \in {None} \cup Nat /\ dialog.generation + 1 \in Nat
      BY <1>1 DEF Dialogs, Creators
    <2>2. dialog' = [dialog EXCEPT !.last = last, !.task = TRUE,
                                   !.generation = dialog.generation + 1]
      BY <1>3
    <2> HIDE DEF last
    <2>3. dialog' \in Dialogs /\ dialog'.open = dialog.open /\ dialog'.entry = dialog.entry
          /\ dialog'.initial = dialog.initial /\ dialog'.last = last
      BY <1>1, <2>1, <2>2 DEF Dialogs
    <2>4. QED
      BY <2>3 DEF last
  <1>5. base' = IF Floors(t) /\ base = None THEN t.tail_floor ELSE base
    BY <1>2 DEF Store, Floors
  <1>6. /\ ~mixed' => ~mixed /\ t.entry = dialog.entry
        /\ lost' = IF ~mixed /\ Late(t) THEN lost \cup UpTo(t.tail_floor) ELSE lost
    BY <1>2 DEF Store, Floors, Late
  <1> DEFINE new == [pc |-> "next", pos |-> t.start, entry |-> dialog.entry,
                     generation |-> dialog.generation + 1, held |-> 0, chan |-> 0,
                     aborted |-> FALSE, cut |-> t.cut]
  <1>7. routers' = abort(routers) \cup {new}
    BY <1>2 DEF Store
  <1>8. new \in Routers /\ new.pc = "next" /\ new.pos = t.start /\ new.entry = dialog.entry
    BY <1>1 DEF Routers, Creators, Dialogs
  <1>9. \A r \in abort(routers) : r \in Routers /\ \E q \in routers : Same(r, q)
    BY AbortEffect DEF TypeOK
  <1>10. QED
    BY <1>1, <1>2, <1>4, <1>5, <1>6, <1>7, <1>8, <1>9

\* A new subscription, or a page that finds one.
LEMMA SubscribeEffect ==
  ASSUME TypeOK, NEW seq \in {None} \cup 0..tail, subscribe_dialog(seq)
  PROVE  /\ dialog' \in Dialogs /\ dialog'.open /\ got' = {} /\ lost' = {} /\ subs' = subs + 1
         /\ mixed' = dialog.open /\ base' \in {None} \cup Nat
         /\ base' = IF dialog.open THEN None ELSE seq
         /\ dialog.open => dialog'.entry = dialog.entry
         /\ ~dialog.open => dialog'.entry = subs + 1 /\ dialog'.initial = seq /\ dialog'.last = None
  <1>1. seq \in {None} \cup Nat /\ subs + 1 \in Nat
    BY DEF TypeOK
  <1>2. /\ got' = {} /\ lost' = {} /\ subs' = subs + 1 /\ mixed' = dialog.open
        /\ base' = IF dialog.open THEN None ELSE seq
    BY DEF subscribe_dialog
  <1>3. CASE dialog.open
    <2>1. dialog \in Dialogs /\ dialog' = [dialog EXCEPT !.initial = seq]
      BY <1>3, DialogType DEF subscribe_dialog
    <2>2. QED
      BY <1>1, <1>2, <1>3, <2>1 DEF Dialogs
  <1>4. CASE ~dialog.open
    <2>1. dialog' = [open |-> TRUE, entry |-> subs + 1, initial |-> seq, last |-> None,
                     task |-> FALSE, generation |-> 0]
      BY <1>2, <1>4 DEF subscribe_dialog
    <2>2. QED
      BY <1>1, <1>2, <1>4, <2>1 DEF Dialogs
  <1>5. QED
    BY <1>3, <1>4, DialogType

-----------------------------------------------------------------------------
(* Types *)

CreatorsResult ==
  \/ OldCreators
  \/ Quiet /\ \A c \in creators' : c \in creators \/ Read(c)
  \/ Quiet /\ \E t \in creators : \A c \in creators' : c \in creators \/ Asked(c, t)

LEMMA CreatorsKnown ==
  ASSUME TypeOK, [Next]_vars
  PROVE  CreatorsResult
  BY CreatorsStep, ReadEffect, AskedEffect DEF CreatorsResult, CreatorsAdvance

\* The page, its channel and the stream.
PageTypeOK ==
  /\ tail \in Nat /\ subs \in Nat /\ channel \in Nat
  /\ page \in [load : Nat, open : BOOLEAN, busy : BOOLEAN]
LEMMA PageTypeStep ==
  ASSUME TypeOK, [Next]_vars
  PROVE  PageTypeOK'
  <1> USE DEF TypeOK, PageTypeOK, Done, Returns, Failed, link, tasks, history
  <1>1. CASE StoreClient
    BY <1>1 DEF StoreClient
  <1>2. CASE Connected
    BY <1>2 DEF Connected
  <1>3. CASE Disconnected
    BY <1>3 DEF Disconnected
  <1>4. CASE Publish
    BY <1>4 DEF Publish
  <1>5. CASE register_event_channel
    BY <1>5 DEF register_event_channel
  <1>6. CASE Reload
    <2>1. page.load \in Nat /\ page.load + 1 \in Nat
      OBVIOUS
    <2>2. QED
      BY <1>6, <2>1 DEF Reload
  <1>7. CASE unsubscribe_dialog
    BY <1>7 DEF unsubscribe_dialog
  <1>8. ASSUME NEW seq \in {None} \cup 0..tail, subscribe_dialog(seq) PROVE PageTypeOK'
    <2>1. page' \in {[page EXCEPT !.open = TRUE], [page EXCEPT !.open = TRUE, !.busy = TRUE]}
          /\ subs' = subs + 1 /\ UNCHANGED <<tail, channel>>
      BY <1>8 DEF subscribe_dialog
    <2>2. subs + 1 \in Nat
      OBVIOUS
    <2>3. QED
      BY <2>1, <2>2
  <1>9. ASSUME NEW c \in creators, resubscribe_all_dialogs(c) PROVE PageTypeOK'
    BY <1>9 DEF resubscribe_all_dialogs
  <1>10. ASSUME NEW c \in creators, recreate_dialog_consumer(c) PROVE PageTypeOK'
    BY <1>10 DEF recreate_dialog_consumer
  <1>11. ASSUME NEW c \in creators, RequestFails(c) PROVE PageTypeOK'
    BY <1>11 DEF RequestFails
  <1>12. ASSUME NEW c \in creators, get_stream(c) PROVE PageTypeOK'
    BY <1>12 DEF get_stream
  <1>13. ASSUME NEW c \in creators, create_and_store_consumer(c) PROVE PageTypeOK'
    BY <1>13 DEF create_and_store_consumer
  <1>14. ASSUME NEW r \in routers, Take(r) PROVE PageTypeOK'
    BY <1>14 DEF Take
  <1>15. ASSUME NEW r \in routers, Deliver(r) PROVE PageTypeOK'
    BY <1>15 DEF Deliver
  <1>16. ASSUME NEW r \in routers, StreamEnds(r) PROVE PageTypeOK'
    BY <1>16 DEF StreamEnds
  <1>17. ASSUME NEW r \in routers, Dies(r) PROVE PageTypeOK'
    BY <1>17 DEF Dies
  <1>18. CASE UNCHANGED vars
    BY <1>18 DEF vars, link, tasks, history
  <1>19. ASSUME NEW r \in routers, Skip(r) PROVE PageTypeOK'
    BY <1>19 DEF Skip
  <1>20. QED
    BY <1>1, <1>2, <1>3, <1>4, <1>5, <1>6, <1>7, <1>8, <1>9, <1>10, <1>11, <1>12,
       <1>13, <1>14, <1>15, <1>16, <1>17, <1>18, <1>19 DEF Next, Create, Route

LEMMA TypeStep ==
  ASSUME TypeOK, [Next]_vars
  PROVE  TypeOK'
  <1>1. PageTypeOK'
    BY PageTypeStep
  <1>2. creators' \subseteq Creators
    BY CreatorsKnown DEF CreatorsResult, OldCreators, Fresh, Read, Asked, TypeOK
  <1>3. routers' \subseteq Routers
    <2>1. CASE OldRouters
      BY <2>1 DEF OldRouters
    <2>2. ASSUME NEW t \in creators, create_and_store_consumer(t), dialog.open
          PROVE  routers' \subseteq Routers
      BY <2>2, StoreEffect
    <2>3. ASSUME NEW q \in routers, Take(q) \/ Skip(q) \/ Deliver(q)
          PROVE  routers' \subseteq Routers
      BY <2>3, TakeEffect, SkipEffect, DeliverEffect DEF TypeOK
    <2>4. QED
      BY <2>1, <2>2, <2>3, RoutersStep DEF RoutersResult
  <1>4. /\ dialog' \in {NoDialog} \cup Dialogs /\ got' \subseteq Nat /\ lost' \subseteq Nat
        /\ base' \in {None} \cup Nat
    <2>1. CASE Quiet
      BY <2>1 DEF Quiet, TypeOK
    <2>2. CASE Reload \/ unsubscribe_dialog
      BY <2>2 DEF Reload, unsubscribe_dialog, TypeOK
    <2>3. ASSUME NEW s \in {None} \cup 0..tail, subscribe_dialog(s)
          PROVE  dialog' \in Dialogs /\ got' = {} /\ lost' = {} /\ base' \in {None} \cup Nat
      BY <2>3, SubscribeEffect
    <2>4. ASSUME NEW t \in creators, create_and_store_consumer(t), dialog.open
          PROVE  /\ dialog' \in Dialogs /\ got' = got /\ lost' \subseteq Nat
                 /\ base' \in {None} \cup Nat
      <3>1. t.tail_floor \in {None} \cup Nat
        BY DEF TypeOK, Creators
      <3>2. base' \in {base, t.tail_floor}
        BY <2>4, StoreEffect
      <3>3. UpTo(t.tail_floor) \subseteq Nat
        BY <2>4, <3>1, UpToType
      <3>4. QED
        BY <2>4, <3>1, <3>2, <3>3, StoreEffect DEF TypeOK
    <2>5. ASSUME NEW q \in routers, Gives(q)
          PROVE  dialog' \in Dialogs /\ got' \subseteq Nat /\ lost' \subseteq Nat /\ base' = base
      BY <2>5, GivesEffect DEF TypeOK
    <2>6. ASSUME NEW q \in routers, Skip(q)
          PROVE  dialog' = dialog /\ got' = got /\ lost' \subseteq Nat /\ base' = base
      BY <2>6, SkipEffect DEF TypeOK
    <2>7. QED
      BY <2>1, <2>2, <2>3, <2>4, <2>5, <2>6, SubscriptionStep DEF SubscriptionResult, TypeOK
  <1>5. QED
    BY <1>1, <1>2, <1>3, <1>4 DEF TypeOK, PageTypeOK

-----------------------------------------------------------------------------
(* The invariant is preserved *)

\* Every task is as old as the subscription it has read.
LEMMA TasksKnown ==
  ASSUME TypeOK, Entries, [Next]_vars
  PROVE  (\A c \in creators' : c.entry <= subs) /\ (\A r \in routers' : r.entry <= subs)
  <1>1. \A c \in creators' : c.entry <= subs
    <2>1. CASE OldCreators
      BY <2>1 DEF OldCreators, Fresh, SameTask, Entries, TypeOK
    <2>2. CASE \A c \in creators' : c \in creators \/ Read(c)
      BY <2>2 DEF Read, Entries, TypeOK
    <2>3. ASSUME NEW t \in creators, \A c \in creators' : c \in creators \/ Asked(c, t)
          PROVE  \A c \in creators' : c.entry <= subs
      BY <2>3 DEF Asked, Entries
    <2>4. QED
      BY <2>1, <2>2, <2>3, CreatorsKnown DEF CreatorsResult
  <1>2. \A r \in routers' : r.entry <= subs
    <2>1. CASE OldRouters
      BY <2>1 DEF OldRouters, Same, Entries
    <2>2. ASSUME NEW t \in creators, create_and_store_consumer(t), dialog.open
          PROVE  \A r \in routers' : r.entry <= subs
      <3>1. \A r \in routers' : (\E q \in routers : Same(r, q)) \/ r.entry = dialog.entry
        BY <2>2, StoreEffect
      <3>2. dialog.entry \in 1..subs /\ subs \in Nat
        BY <2>2 DEF Entries, TypeOK
      <3>3. dialog.entry <= subs
        BY <3>2
      <3>4. QED
        BY <3>1, <3>3 DEF Same, Entries
    <2>3. ASSUME NEW q \in routers, Take(q) \/ Skip(q) \/ Deliver(q)
          PROVE  \A r \in routers' : r.entry <= subs
      BY <2>3, TakeEffect, SkipEffect, DeliverEffect DEF Entries
    <2>4. QED
      BY <2>1, <2>2, <2>3, RoutersStep DEF RoutersResult
  <1>3. QED
    BY <1>1, <1>2

LEMMA EntriesStep ==
  ASSUME TypeOK, Entries, [Next]_vars
  PROVE  Entries'
  <1>1. subs' \in Nat /\ subs' >= subs /\ (dialog'.open => dialog'.entry \in 1..subs')
    <2>1. CASE Quiet
      BY <2>1 DEF Quiet, Entries, TypeOK
    <2>2. CASE Reload \/ unsubscribe_dialog
      BY <2>2 DEF Reload, unsubscribe_dialog, NoDialog, Entries, TypeOK
    <2>3. ASSUME NEW s \in {None} \cup 0..tail, subscribe_dialog(s)
          PROVE  subs' \in Nat /\ subs' >= subs /\ dialog'.entry \in 1..subs'
      BY <2>3, SubscribeEffect DEF Entries, TypeOK
    <2>4. ASSUME NEW t \in creators, create_and_store_consumer(t), dialog.open
          PROVE  subs' = subs /\ dialog'.entry \in 1..subs
      BY <2>4, StoreEffect DEF Entries
    <2>5. ASSUME NEW q \in routers, Gives(q) PROVE subs' = subs /\ dialog'.entry \in 1..subs
      BY <2>5, GivesEffect DEF Entries
    <2>6. ASSUME NEW q \in routers, Skip(q) PROVE subs' = subs /\ dialog' = dialog
      BY <2>6, SkipEffect
    <2>7. QED
      BY <2>1, <2>2, <2>3, <2>4, <2>5, <2>6, SubscriptionStep DEF SubscriptionResult, Entries, TypeOK
  <1>2. \A c \in creators' : c.entry \in Nat /\ c.entry <= subs
    BY TasksKnown, TypeStep DEF TypeOK, Creators
  <1>3. \A r \in routers' : r.entry \in Nat /\ r.entry <= subs
    BY TasksKnown, TypeStep DEF TypeOK, Routers
  <1>4. QED
    BY <1>1, <1>2, <1>3 DEF Entries, TypeOK

LEMMA NewestStep ==
  ASSUME TypeOK, Newest, [Next]_vars
  PROVE  Newest'
  <1>1. CASE Quiet
    BY <1>1 DEF Quiet, Newest
  <1>2. CASE Reload \/ unsubscribe_dialog
    BY <1>2 DEF Reload, unsubscribe_dialog, Newest
  <1>3. ASSUME NEW s \in {None} \cup 0..tail, subscribe_dialog(s) PROVE Newest'
    BY <1>3, SubscribeEffect DEF Newest
  <1>4. ASSUME NEW t \in creators, create_and_store_consumer(t), dialog.open PROVE Newest'
    <2>1. got # {} => dialog.last # None
      BY DEF Newest, TypeOK, None
    <2>2. QED
      BY <1>4, <2>1, StoreEffect DEF Newest, Floors
  <1>5. ASSUME NEW q \in routers, Gives(q) PROVE Newest'
    <2>1. /\ dialog'.open /\ dialog'.last = q.held /\ dialog.last < q.held /\ q.held \in Nat
          /\ got' \in {got, got \cup {q.held}} /\ dialog.last \in {-1} \cup Nat /\ got \subseteq Nat
      BY <1>5, GivesEffect, DialogType DEF Dialogs, None, TypeOK
    <2>2. \A n \in got : n < q.held
      BY <2>1 DEF Newest
    <2>3. \A n \in got' : n <= q.held
      BY <2>1, <2>2
    <2>4. got' # {} => \E m \in got' : \A n \in got' : n <= m
      BY <2>1, <2>3 DEF Newest
    <2>5. QED
      BY <2>1, <2>3, <2>4 DEF Newest
  <1>6. ASSUME NEW q \in routers, Skip(q) PROVE Newest'
    BY <1>6, SkipEffect DEF Newest
  <1>7. QED
    BY <1>1, <1>2, <1>3, <1>4, <1>5, <1>6, SubscriptionStep DEF SubscriptionResult

\* What was read of the subscription stays true of it: the last chunk only grows.
Holds ==
  Clean' =>
    /\ Clean /\ dialog'.entry = dialog.entry /\ dialog'.initial = dialog.initial
    /\ base # None => base' = base
    /\ dialog.last <= dialog'.last /\ lost \subseteq lost'
Opens == ~dialog.open /\ dialog'.entry = subs + 1

LEMMA SubscriptionKept ==
  ASSUME TypeOK, Origin, Followed, [Next]_vars
  PROVE  Origin' /\ (Holds \/ Opens)
  <1>1. CASE Quiet
    <2>1. Clean' <=> Clean
      BY <1>1 DEF Quiet, Clean
    <2>2. Clean => dialog.last \in {-1} \cup Nat
      BY DialogType DEF Clean, Dialogs, None
    <2>3. Clean => dialog.last <= dialog'.last
      BY <1>1, <2>2 DEF Quiet
    <2>4. Origin'
      BY <1>1, <2>1 DEF Quiet, Origin
    <2>5. QED
      BY <1>1, <2>1, <2>3, <2>4 DEF Quiet, Holds
  <1>2. CASE Reload \/ unsubscribe_dialog
    <2>1. ~Clean'
      BY <1>2 DEF Reload, unsubscribe_dialog, Clean, NoDialog
    <2>2. QED
      BY <2>1 DEF Origin, Holds
  <1>3. ASSUME NEW s \in {None} \cup 0..tail, subscribe_dialog(s) PROVE Origin' /\ (Holds \/ Opens)
    <2>1. CASE dialog.open
      BY <1>3, <2>1, SubscribeEffect DEF Clean, Origin, Holds
    <2>2. CASE ~dialog.open
      BY <1>3, <2>2, SubscribeEffect DEF Origin, Opens
    <2>3. QED
      BY <2>1, <2>2
  <1>4. ASSUME NEW t \in creators, create_and_store_consumer(t), dialog.open
        PROVE  Origin' /\ (Holds \/ Opens)
    <2>1. SUFFICES ASSUME Clean' PROVE Origin' /\ Holds
      BY DEF Origin, Holds
    <2>2. /\ Clean /\ t.entry = dialog.entry /\ lost \subseteq lost'
          /\ dialog'.entry = dialog.entry /\ dialog'.initial = dialog.initial /\ t.pc = "store"
      BY <1>4, <2>1, StoreEffect DEF Clean
    <2>3. dialog.last \in {-1} \cup Nat /\ t.tail_floor \in {-1} \cup Nat
      BY <1>4, DialogType DEF Dialogs, Creators, TypeOK, None
    <2>4. CASE Floors(t)
      <3>1. dialog.initial = None /\ base = None
        BY <2>2, <2>4 DEF Followed, CreatorOK, Origin, Floors
      <3>2. dialog'.last = t.tail_floor /\ base' = t.tail_floor /\ t.tail_floor # None
        BY <1>4, <2>4, <3>1, StoreEffect DEF Floors
      <3>3. QED
        BY <2>2, <2>3, <2>4, <3>1, <3>2 DEF Origin, Holds, Floors, None
    <2>5. CASE ~Floors(t)
      <3>1. dialog'.last = dialog.last /\ base' = base
        BY <1>4, <2>5, StoreEffect
      <3>2. QED
        BY <2>2, <2>3, <3>1 DEF Origin, Holds
    <2>6. QED
      BY <2>4, <2>5
  <1>5. ASSUME NEW q \in routers, Gives(q) PROVE Origin' /\ (Holds \/ Opens)
    <2>1. SUFFICES ASSUME Clean' PROVE Origin' /\ Holds
      BY DEF Origin, Holds
    <2>2. /\ Clean /\ q.entry = dialog.entry /\ base' = base
          /\ dialog'.entry = dialog.entry /\ dialog'.initial = dialog.initial
          /\ dialog'.last = q.held /\ dialog.last < q.held /\ q.held \in Nat
          /\ lost \subseteq lost'
      BY <1>5, <2>1, GivesEffect DEF Clean
    <2>3. dialog.last \in {-1} \cup Nat
      BY <1>5, DialogType DEF Gives, Dialogs, None
    <2>4. base # None
      BY <2>2 DEF Followed, RouterOK
    <2>5. QED
      BY <2>2, <2>3, <2>4 DEF Origin, Holds, None
  <1>6. ASSUME NEW q \in routers, Skip(q) PROVE Origin' /\ (Holds \/ Opens)
    <2>1. UNCHANGED <<dialog, page, base, mixed>> /\ lost \subseteq lost'
      BY <1>6, SkipEffect
    <2>2. Clean => dialog.last \in Int
      BY DialogType DEF Clean, Dialogs, None
    <2>3. QED
      BY <2>1, <2>2 DEF Clean, Origin, Holds
  <1>7. QED
    BY <1>1, <1>2, <1>3, <1>4, <1>5, <1>6, SubscriptionStep DEF SubscriptionResult

LEMMA LastType ==
  ASSUME TypeOK, TypeOK', Clean, Clean'
  PROVE  dialog.last \in Int /\ dialog'.last \in Int /\ base \in Int
  <1>1. \A d \in {NoDialog} \cup Dialogs : d.open => d.last \in Int
    <2>1. {None} \cup Nat \subseteq Int /\ ~NoDialog.open
      BY DEF None, NoDialog
    <2>2. QED
      BY <2>1 DEF Dialogs
  <1>2. dialog \in {NoDialog} \cup Dialogs /\ dialog' \in {NoDialog} \cup Dialogs
        /\ dialog.open /\ dialog'.open /\ base \in Int
    BY DEF TypeOK, Clean, None
  <1>3. QED
    BY <1>1, <1>2

\* What a task holds of the subscription survives every step that leaves it open.
LEMMA CreatorKept ==
  ASSUME TypeOK, TypeOK', Holds, NEW c \in Creators, CreatorOK(c)
  PROVE  CreatorOK(c)'
  <1> SUFFICES ASSUME Clean', c.entry = dialog'.entry
               PROVE  /\ c.pc = "stream" => c.initial = dialog'.initial /\ c.last <= dialog'.last
                      /\ c.pc = "store" /\ c.tail_floor = None => base' # None /\ Near(c.start)'
                      /\ c.pc = "store" /\ c.tail_floor # None =>
                           c.start = c.tail_floor + 1 /\ dialog'.initial = None
    BY DEF CreatorOK
  <1>1. /\ Clean /\ c.entry = dialog.entry /\ dialog'.initial = dialog.initial
        /\ (base # None => base' = base) /\ dialog.last <= dialog'.last
        /\ lost \subseteq lost'
    BY DEF Holds
  <1>2. dialog.last \in Int /\ dialog'.last \in Int /\ base \in Int
    BY <1>1, LastType
  <1>3. c.last \in Int /\ c.start \in Int
    BY DEF Creators, None
  <1>4. Near(c.start) /\ base # None => Near(c.start)'
    BY <1>1, <1>2, <1>3 DEF Near
  <1>5. QED
    BY <1>1, <1>2, <1>3, <1>4 DEF CreatorOK

LEMMA RouterKept ==
  ASSUME TypeOK, TypeOK', Holds, NEW r \in Routers, RouterOK(r)
  PROVE  RouterOK(r)'
  <1> SUFFICES ASSUME Clean', r.entry = dialog'.entry
               PROVE  /\ base' # None
                      /\ r.pc = "next" => Near(r.pos)'
                      /\ r.pc = "deliver" => Near(r.held)' /\ r.pos = r.held + 1
    BY DEF RouterOK
  <1>1. /\ Clean /\ r.entry = dialog.entry /\ (base # None => base' = base)
        /\ dialog.last <= dialog'.last /\ lost \subseteq lost'
    BY DEF Holds
  <1>2. dialog.last \in Int /\ dialog'.last \in Int /\ base \in Int
    BY <1>1, LastType
  <1>3. r.pos \in Int /\ r.held \in Int
    BY DEF Routers
  <1>4. /\ Near(r.pos) /\ base # None => Near(r.pos)'
        /\ Near(r.held) /\ base # None => Near(r.held)'
    BY <1>1, <1>2, <1>3 DEF Near
  <1>5. QED
    BY <1>1, <1>4 DEF RouterOK

\* The request asks for the chunk after the replay point or after the last one given.
LEMMA AskedFollows ==
  ASSUME TypeOK, Origin, NEW t \in creators, CreatorOK(t), NEW c, Asked(c, t)
  PROVE  CreatorOK(c)
  <1> SUFFICES ASSUME Clean, c.entry = dialog.entry
               PROVE  /\ c.tail_floor = None => base # None /\ Near(c.start)
                      /\ c.tail_floor # None =>
                           c.start = c.tail_floor + 1 /\ dialog.initial = None
    BY DEF CreatorOK, Asked
  <1>1. dialog.last \in {-1} \cup Nat /\ t.last \in {-1} \cup Nat
    BY DialogType DEF Clean, Dialogs, Creators, TypeOK, None
  <1>2. t.initial = dialog.initial /\ t.last <= dialog.last
    BY DEF Asked, CreatorOK
  <1>3. CASE t.initial = None /\ t.last = None
    BY <1>2, <1>3 DEF Asked
  <1>4. CASE t.initial # None \/ t.last # None
    <2>1. t.last # None => dialog.last # None
      BY <1>1, <1>2 DEF None
    <2>2. base # None /\ (dialog.initial # None => base = dialog.initial)
      BY <1>2, <1>4, <2>1 DEF Origin
    <2>3. c.start = t.last + 1 => Near(c.start)
      BY <1>1, <1>2 DEF Near
    <2>4. t.initial # None /\ c.start = t.initial + 1 => Near(c.start)
      <3>1. base \in Int
        BY DEF TypeOK, None
      <3>2. t.initial # None /\ c.start = t.initial + 1 => c.start = base + 1
        BY <1>2, <2>2
      <3>3. QED
        BY <3>1, <3>2 DEF Near
    <2>5. QED
      BY <1>4, <2>2, <2>3, <2>4 DEF Asked
  <1>5. QED
    BY <1>3, <1>4

LEMMA CreatorsFollow ==
  ASSUME TypeOK, TypeOK', Origin, Followed, Holds, [Next]_vars
  PROVE  \A c \in creators' : CreatorOK(c)'
  <1>1. \A c \in creators' : CreatorOK(c)
    <2>1. CASE OldCreators
      BY <2>1 DEF OldCreators, Fresh, SameTask, Followed, CreatorOK
    <2>2. ASSUME NEW c \in creators', Read(c) PROVE CreatorOK(c)
      <3>1. Clean => dialog.last \in {-1} \cup Nat
        BY DialogType DEF Clean, Dialogs, None
      <3>2. Clean => c.last <= dialog.last
        BY <2>2, <3>1 DEF Read
      <3>3. QED
        BY <2>2, <3>2 DEF Read, CreatorOK
    <2>3. CASE \A c \in creators' : c \in creators \/ Read(c)
      BY <2>2, <2>3 DEF Followed
    <2>4. ASSUME NEW t \in creators, \A c \in creators' : c \in creators \/ Asked(c, t)
          PROVE  \A c \in creators' : CreatorOK(c)
      BY <2>4, AskedFollows DEF Followed
    <2>5. QED
      BY <2>1, <2>3, <2>4, CreatorsKnown DEF CreatorsResult
  <1>2. creators' \subseteq Creators
    BY DEF TypeOK
  <1>3. QED
    BY <1>1, <1>2, CreatorKept

\* A new consumer starts at the resume point of the dialog, at the tail that becomes the
\* resume point, or behind the chunks that a late tail passes over.
LEMMA StoreFollows ==
  ASSUME TypeOK, TypeOK', Origin, Followed, Holds,
         NEW t \in creators, create_and_store_consumer(t), dialog.open,
         NEW r \in Routers, r.pc = "next", r.pos = t.start, r.entry = dialog.entry
  PROVE  RouterOK(r)'
  <1> SUFFICES ASSUME Clean' PROVE base' # None /\ Near(r.pos)'
    BY DEF RouterOK
  <1>1. Clean /\ t.entry = dialog.entry /\ t.pc = "store" /\ t \in Creators
    BY StoreEffect DEF Clean
  <1>2. dialog.last \in Int /\ dialog'.last \in Int /\ base \in Int
    BY <1>1, LastType
  <1>3. CASE Floors(t)
    <2>1. t.start = t.tail_floor + 1 /\ dialog.initial = None /\ t.tail_floor # None
      BY <1>1, <1>3 DEF Followed, CreatorOK, Floors
    <2>2. base = None
      BY <1>1, <1>3, <2>1 DEF Origin, Floors
    <2>3. base' = t.tail_floor
      BY <1>3, <2>2, StoreEffect
    <2>4. r.pos = base' + 1 /\ r.pos \in Int
      BY <2>1, <2>3 DEF Routers
    <2>5. Near(r.pos)'
      <3>1. base' \in Int /\ \A m \in Nat : base' < m => ~(m < base' + 1)
        BY <1>1, <2>3 DEF Creators, None
      <3>2. QED
        BY <2>4, <3>1 DEF Near
    <2>6. QED
      BY <2>1, <2>3, <2>5
  <1>4. CASE t.tail_floor = None
    <2>1. base # None /\ Near(t.start)
      BY <1>1, <1>4 DEF Followed, CreatorOK
    <2>2. base' = base /\ dialog'.last = dialog.last /\ lost' = lost
      BY <1>4, StoreEffect DEF Floors, Late
    <2>3. QED
      BY <2>1, <2>2 DEF Near
  <1>5. CASE Late(t)
    <2>1. base # None
      BY <1>1, <1>5 DEF Origin, Late, Floors
    <2>2. base' = base /\ dialog'.last = dialog.last /\ lost' = lost \cup UpTo(t.tail_floor)
      BY <1>1, <1>5, StoreEffect DEF Late, Clean
    <2>3. t.start = t.tail_floor + 1 /\ t.tail_floor \in Nat
      BY <1>1, <1>5 DEF Followed, CreatorOK, Late, Creators
    <2>4. \A m \in Nat : base < m /\ dialog.last < m /\ m <= t.tail_floor =>
                           m \in UpTo(t.tail_floor)
      BY <2>3, UpToType
    <2>5. QED
      BY <2>1, <2>2, <2>3, <2>4 DEF Near
  <1>6. QED
    BY <1>3, <1>4, <1>5 DEF Late

\* A router that has handed over its chunk goes on with the next one.
LEMMA DeliverFollows ==
  ASSUME TypeOK, TypeOK', Followed, Holds, NEW q \in routers, Deliver(q), dialog.open,
         NEW r \in Routers, r.pc = "next", r.pos = q.pos, r.entry = q.entry
  PROVE  RouterOK(r)'
  <1> SUFFICES ASSUME Clean', r.entry = dialog'.entry PROVE base' # None /\ Near(r.pos)'
    BY DEF RouterOK
  <1>1. Clean /\ q.entry = dialog.entry /\ (base # None => base' = base)
    BY DEF Holds
  <1>2. base # None /\ q.pos = q.held + 1 /\ q.held \in Nat
    BY <1>1, DeliverEffect DEF Followed, RouterOK, TypeOK, Routers
  <1>3. dialog'.last >= q.held /\ dialog'.last \in Int
    <2>1. dialog \in Dialogs /\ dialog.last \in Int /\ dialog'.last \in Int
      BY <1>1, DialogType, LastType
    <2>2. (dialog' = dialog /\ dialog.last >= q.held) \/ dialog' = [dialog EXCEPT !.last = q.held]
      BY DEF Deliver, Handed, Sent
    <2>3. dialog' = [dialog EXCEPT !.last = q.held] => dialog'.last = q.held
      BY <2>1 DEF Dialogs
    <2>4. QED
      BY <1>2, <2>1, <2>2, <2>3
  <1>4. Near(r.pos)'
    BY <1>2, <1>3 DEF Near
  <1>5. QED
    BY <1>1, <1>2, <1>4

\* The chunk that a router passes over is accounted for.
LEMMA SkipFollows ==
  ASSUME TypeOK, TypeOK', Followed, Holds, NEW q \in routers, Skip(q),
         NEW r, r.pc = "next", r.pos = q.pos + 1, r.entry = q.entry
  PROVE  RouterOK(r)'
  <1> SUFFICES ASSUME Clean', r.entry = dialog'.entry PROVE base' # None /\ Near(r.pos)'
    BY DEF RouterOK
  <1>1. /\ Clean /\ q.entry = dialog.entry /\ UNCHANGED <<dialog, base>>
        /\ lost' = lost \cup {q.pos} /\ q.pos \in Nat /\ q.pc = "next"
    BY SkipEffect DEF Holds
  <1>2. base # None /\ Near(q.pos)
    BY <1>1 DEF Followed, RouterOK
  <1>3. \A m \in Nat : m < q.pos + 1 => m < q.pos \/ m = q.pos
    BY <1>1
  <1>4. QED
    BY <1>1, <1>2, <1>3 DEF Near

LEMMA RoutersFollow ==
  ASSUME TypeOK, TypeOK', Origin, Followed, Holds, [Next]_vars
  PROVE  \A r \in routers' : RouterOK(r)'
  <1> SUFFICES ASSUME NEW r \in routers' PROVE RouterOK(r)'
    OBVIOUS
  <1>1. r \in Routers
    BY DEF TypeOK
  <1>2. ASSUME NEW q \in routers, Same(r, q) PROVE RouterOK(r)'
    <2>1. RouterOK(r)
      BY <1>2 DEF Same, Followed, RouterOK
    <2>2. QED
      BY <1>1, <2>1, RouterKept
  <1>3. ASSUME r \in routers PROVE RouterOK(r)'
    BY <1>1, <1>3, RouterKept DEF Followed
  <1>4. CASE OldRouters
    BY <1>2, <1>4 DEF OldRouters
  <1>5. ASSUME NEW t \in creators, create_and_store_consumer(t), dialog.open PROVE RouterOK(r)'
    BY <1>1, <1>2, <1>5, StoreEffect, StoreFollows
  <1>6. ASSUME NEW q \in routers, Take(q) PROVE RouterOK(r)'
    <2>1. CASE r \in routers
      BY <1>3, <2>1
    <2>2. CASE r.pc = "deliver" /\ r.held = q.pos /\ r.pos = q.pos + 1 /\ r.entry = q.entry
      <3>1. q.pc = "next"
        BY <1>6, TakeEffect
      <3>2. RouterOK(r)
        BY <2>2, <3>1 DEF Followed, RouterOK
      <3>3. QED
        BY <1>1, <3>2, RouterKept
    <2>3. QED
      BY <1>6, <2>1, <2>2, TakeEffect
  <1>7. ASSUME NEW q \in routers, Deliver(q) PROVE RouterOK(r)'
    <2>1. CASE r \in routers
      BY <1>3, <2>1
    <2>2. CASE r.pc = "next" /\ r.pos = q.pos /\ r.entry = q.entry /\ dialog.open
      BY <1>1, <1>7, <2>2, DeliverFollows
    <2>3. QED
      BY <1>7, <2>1, <2>2, DeliverEffect
  <1>8. ASSUME NEW q \in routers, Skip(q) PROVE RouterOK(r)'
    <2>1. CASE r \in routers
      BY <1>3, <2>1
    <2>2. CASE r.pc = "next" /\ r.pos = q.pos + 1 /\ r.entry = q.entry
      BY <1>8, <2>2, SkipFollows
    <2>3. QED
      BY <1>8, <2>1, <2>2, SkipEffect
  <1>9. QED
    BY <1>4, <1>5, <1>6, <1>7, <1>8, RoutersStep DEF RoutersResult

\* A subscription that opens is younger than all the tasks there are.
LEMMA FollowedStep ==
  ASSUME TypeOK, TypeOK', Entries, Origin, Followed, [Next]_vars
  PROVE  Followed'
  <1>1. CASE Holds
    BY <1>1, CreatorsFollow, RoutersFollow DEF Followed
  <1>2. CASE Opens
    <2>1. \A n \in Nat : n <= subs => n # dialog'.entry
      BY <1>2 DEF Opens, TypeOK
    <2>2. \A c \in creators' : c.entry # dialog'.entry
      BY <2>1, TasksKnown DEF TypeOK, Creators
    <2>3. \A r \in routers' : r.entry # dialog'.entry
      BY <2>1, TasksKnown DEF TypeOK, Routers
    <2>4. QED
      BY <2>2, <2>3 DEF Followed, CreatorOK, RouterOK
  <1>3. QED
    BY <1>1, <1>2, SubscriptionKept

-----------------------------------------------------------------------------
(* Nothing that precedes the run is given *)

\* What a task of the subscription asks for lies behind the replay point, or is not given
\* because the last chunk does.
CreatorAbove(c) ==
  Clean /\ c.entry = dialog.entry =>
    /\ c.pc = "stream" /\ dialog.initial = None /\ c.last # None => base <= c.last
    /\ c.pc = "store" /\ c.tail_floor = None => base < c.start
Beyond(n) == base < n \/ base <= dialog.last
RouterAbove(r) ==
  Clean /\ r.entry = dialog.entry =>
    /\ r.pc = "next" => Beyond(r.pos)
    /\ r.pc = "deliver" => Beyond(r.held)

LastAbove == Clean /\ dialog.initial = None /\ dialog.last # None => base <= dialog.last
GotAbove == Clean => \A n \in got : base < n
TasksAbove == (\A c \in creators : CreatorAbove(c)) /\ (\A r \in routers : RouterAbove(r))

Above == LastAbove /\ GotAbove /\ TasksAbove

\* While there is no replay point, nothing was given and no task of the subscription
\* asks for anything.
LEMMA NoBase ==
  ASSUME TypeOK, Newest, Origin, Followed, Clean, base = None
  PROVE  /\ got = {} /\ dialog.initial = None /\ dialog.last = None
         /\ \A r \in routers : r.entry # dialog.entry
         /\ \A c \in creators : c.entry = dialog.entry =>
              /\ c.pc = "store" => c.tail_floor # None
              /\ c.pc = "stream" => c.last = None
  <1>1. dialog.initial = None /\ dialog.last = None
    BY DEF Origin
  <1>2. got = {}
    BY <1>1 DEF Newest, TypeOK, None
  <1>3. \A r \in routers : r.entry # dialog.entry
    BY DEF Followed, RouterOK
  <1>4. ASSUME NEW c \in creators, c.entry = dialog.entry
        PROVE  /\ c.pc = "store" => c.tail_floor # None
               /\ c.pc = "stream" => c.last = None
    <2>1. c.last \in {None} \cup Nat
      BY DEF TypeOK, Creators
    <2>2. c.pc = "stream" => c.last <= -1
      BY <1>1, <1>4 DEF Followed, CreatorOK, None
    <2>3. QED
      BY <1>4, <2>1, <2>2 DEF Followed, CreatorOK, None
  <1>5. QED
    BY <1>1, <1>2, <1>3, <1>4

\* A consumer that gives the subscription its replay point is the first to do so.
LEMMA FloorsFirst ==
  ASSUME TypeOK, Origin, Followed, NEW t \in creators, create_and_store_consumer(t),
         dialog.open, Clean', Floors(t)
  PROVE  /\ Clean /\ base = None /\ base' = t.tail_floor /\ base' \in Nat
         /\ t.start = t.tail_floor + 1 /\ dialog'.last = t.tail_floor
  <1>1. /\ Clean /\ t.entry = dialog.entry /\ t.pc = "store" /\ t \in Creators
        /\ dialog'.last = t.tail_floor
    BY StoreEffect DEF Clean
  <1>2. t.start = t.tail_floor + 1 /\ dialog.initial = None
    BY <1>1 DEF Followed, CreatorOK, Floors
  <1>3. base = None
    BY <1>1, <1>2 DEF Origin, Floors
  <1>4. base' = t.tail_floor /\ t.tail_floor \in Nat
    BY <1>1, <1>3, StoreEffect DEF Creators, Floors
  <1>5. QED
    BY <1>1, <1>2, <1>3, <1>4

\* A chunk that reaches the page comes from a router of its subscription.
LEMMA GivesClean ==
  ASSUME TypeOK, Followed, TasksAbove, NEW q \in routers, Gives(q), Clean'
  PROVE  /\ Clean /\ base' = base /\ base \in Nat /\ (Given1(q) \/ Missed1(q))
         /\ dialog.last \in Int /\ dialog'.last = q.held /\ dialog.last < q.held
         /\ q.held \in Nat /\ base < q.held /\ Near(q.held)
         /\ dialog'.initial = dialog.initial
  <1>1. /\ Clean /\ q.entry = dialog.entry /\ q.pc = "deliver" /\ base' = base
        /\ Given1(q) \/ Missed1(q)
        /\ dialog'.last = q.held /\ dialog.last < q.held
        /\ q.held \in Nat /\ dialog'.initial = dialog.initial
    BY GivesEffect DEF Clean
  <1>2. base # None /\ Near(q.held) /\ Beyond(q.held)
    BY <1>1 DEF Followed, RouterOK, TasksAbove, RouterAbove
  <1>3. base \in Nat
    BY <1>2 DEF TypeOK
  <1>4. dialog.last \in Int
    BY <1>1, DialogType DEF Clean, Dialogs, None
  <1>5. base < q.held
    BY <1>1, <1>2, <1>3, <1>4 DEF Beyond
  <1>6. QED
    BY <1>1, <1>2, <1>3, <1>4, <1>5

LEMMA GivenAboveStep ==
  ASSUME TypeOK, Newest, Origin, Followed, Above, [Next]_vars
  PROVE  LastAbove' /\ GotAbove'
  <1> SUFFICES ASSUME Clean'
               PROVE  /\ dialog'.initial = None /\ dialog'.last # None => base' <= dialog'.last
                      /\ \A n \in got' : base' < n
    BY DEF LastAbove, GotAbove
  <1>1. CASE Quiet
    BY <1>1 DEF Quiet, Clean, Above, LastAbove, GotAbove
  <1>2. CASE Reload \/ unsubscribe_dialog
    BY <1>2 DEF Reload, unsubscribe_dialog, Clean, NoDialog
  <1>3. ASSUME NEW s \in {None} \cup 0..tail, subscribe_dialog(s)
        PROVE  got' = {} /\ dialog'.last = None
    BY <1>3, SubscribeEffect DEF Clean
  <1>4. ASSUME NEW t \in creators, create_and_store_consumer(t), dialog.open
        PROVE  /\ dialog'.initial = None /\ dialog'.last # None => base' <= dialog'.last
               /\ \A n \in got' : base' < n
    <2>1. Clean /\ got' = got /\ dialog'.initial = dialog.initial
      BY <1>4, StoreEffect DEF Clean
    <2>2. CASE Floors(t)
      <3>1. base = None /\ base' = dialog'.last /\ base' \in Nat
        BY <1>4, <2>2, FloorsFirst
      <3>2. got = {}
        BY <2>1, <3>1, NoBase
      <3>3. QED
        BY <2>1, <3>1, <3>2
    <2>3. CASE ~Floors(t)
      <3>1. base' = base /\ dialog'.last = dialog.last
        BY <1>4, <2>3, StoreEffect
      <3>2. QED
        BY <2>1, <3>1 DEF Above, LastAbove, GotAbove
    <2>4. QED
      BY <2>2, <2>3
  <1>5. ASSUME NEW q \in routers, Gives(q)
        PROVE  base' <= dialog'.last /\ \A n \in got' : base' < n
    <2>1. /\ Clean /\ base' = base /\ base < q.held /\ dialog'.last = q.held
          /\ base \in Nat /\ q.held \in Nat /\ got' \in {got, got \cup {q.held}}
      BY <1>5, GivesClean DEF Above, Given1, Missed1
    <2>2. QED
      BY <2>1 DEF Above, GotAbove
  <1>6. ASSUME NEW q \in routers, Skip(q)
        PROVE  /\ dialog'.initial = None /\ dialog'.last # None => base' <= dialog'.last
               /\ \A n \in got' : base' < n
    BY <1>6, SkipEffect DEF Clean, Above, LastAbove, GotAbove
  <1>7. QED
    BY <1>1, <1>2, <1>3, <1>4, <1>5, <1>6, SubscriptionStep DEF SubscriptionResult

\* A task that knows where to go on knows it of a subscription with a replay point.
LEMMA CreatorStaysAbove ==
  ASSUME TypeOK, Newest, Origin, Holds, NEW c \in Creators, CreatorOK(c), CreatorAbove(c)
  PROVE  CreatorAbove(c)'
  <1> SUFFICES ASSUME Clean', c.entry = dialog'.entry
               PROVE  /\ c.pc = "stream" /\ dialog'.initial = None /\ c.last # None =>
                           base' <= c.last
                      /\ c.pc = "store" /\ c.tail_floor = None => base' < c.start
    BY DEF CreatorAbove
  <1>1. /\ Clean /\ c.entry = dialog.entry /\ dialog'.initial = dialog.initial
        /\ base # None => base' = base
    BY DEF Holds
  <1>2. c.pc = "store" /\ c.tail_floor = None => base' = base
    BY <1>1 DEF CreatorOK
  <1>3. c.pc = "stream" /\ c.last # None => base' = base
    <2>1. dialog.last \in {-1} \cup Nat /\ c.last \in {-1} \cup Nat
      BY <1>1, DialogType DEF Clean, Dialogs, Creators, None
    <2>2. c.pc = "stream" /\ c.last # None => dialog.last # None
      BY <1>1, <2>1 DEF CreatorOK, None
    <2>3. QED
      BY <1>1, <2>2 DEF Origin
  <1>4. QED
    BY <1>1, <1>2, <1>3 DEF CreatorAbove

\* Behind the replay point, or behind a chunk that was given after it.
LEMMA AskedAbove ==
  ASSUME TypeOK, Origin, NEW t \in creators, CreatorOK(t), CreatorAbove(t), NEW c, Asked(c, t)
  PROVE  CreatorAbove(c)
  <1> SUFFICES ASSUME Clean, c.entry = dialog.entry, c.tail_floor = None
               PROVE  base < c.start
    BY DEF CreatorAbove, Asked
  <1>1. /\ t.pc = "stream" /\ t.entry = dialog.entry /\ t.initial = dialog.initial
        /\ t.initial < c.start /\ t.last < c.start /\ (t.initial # None \/ t.last # None)
    BY DEF Asked, CreatorOK
  <1>2. base \in Int /\ t.last \in Int /\ c.start \in Int
    BY DEF TypeOK, Creators, Asked, None
  <1>3. CASE t.initial # None
    BY <1>1, <1>3 DEF Origin
  <1>4. CASE t.initial = None
    <2>1. base <= t.last
      BY <1>1, <1>4 DEF CreatorAbove
    <2>2. QED
      BY <1>1, <1>2, <2>1
  <1>5. QED
    BY <1>3, <1>4

LEMMA CreatorsAbove ==
  ASSUME TypeOK, TypeOK', Newest, Origin, Followed, Above, Holds, [Next]_vars
  PROVE  \A c \in creators' : CreatorAbove(c)'
  <1>1. \A c \in creators' : CreatorAbove(c) /\ CreatorOK(c)
    <2>1. CASE OldCreators
      BY <2>1 DEF OldCreators, Fresh, SameTask, Followed, CreatorOK, Above, TasksAbove,
         CreatorAbove
    <2>2. ASSUME NEW c \in creators', Read(c) PROVE CreatorAbove(c) /\ CreatorOK(c)
      <3>1. Clean => dialog.last \in {-1} \cup Nat
        BY DialogType DEF Clean, Dialogs, None
      <3>2. Clean => c.last <= dialog.last
        BY <2>2, <3>1 DEF Read
      <3>3. QED
        BY <2>2, <3>2 DEF Read, CreatorOK, CreatorAbove, Above, LastAbove
    <2>3. CASE \A c \in creators' : c \in creators \/ Read(c)
      BY <2>2, <2>3 DEF Followed, Above, TasksAbove
    <2>4. ASSUME NEW t \in creators, \A c \in creators' : c \in creators \/ Asked(c, t)
          PROVE  \A c \in creators' : CreatorAbove(c) /\ CreatorOK(c)
      BY <2>4, AskedFollows, AskedAbove DEF Followed, Above, TasksAbove
    <2>5. QED
      BY <2>1, <2>3, <2>4, CreatorsKnown DEF CreatorsResult
  <1>2. creators' \subseteq Creators
    BY DEF TypeOK
  <1>3. QED
    BY <1>1, <1>2, CreatorStaysAbove

LEMMA RoutersAbove ==
  ASSUME TypeOK, TypeOK', Origin, Followed, Above, Holds, [Next]_vars
  PROVE  \A r \in routers' : RouterAbove(r)'
  <1> SUFFICES ASSUME NEW r \in routers', Clean', r.entry = dialog'.entry
               PROVE  /\ r.pc = "next" => Beyond(r.pos)'
                      /\ r.pc = "deliver" => Beyond(r.held)'
    BY DEF RouterAbove
  <1>1. /\ Clean /\ r.entry = dialog.entry /\ (base # None => base' = base)
        /\ dialog.last <= dialog'.last
    BY DEF Holds
  <1>2. dialog.last \in Int /\ dialog'.last \in Int /\ base \in Int
    BY <1>1, LastType
  <1>3. ASSUME NEW q \in routers, q.entry = r.entry PROVE base' = base /\ RouterAbove(q)
    BY <1>1, <1>3 DEF Followed, RouterOK, Above, TasksAbove
  <1>4. ASSUME NEW n \in Nat, base' = base, Beyond(n) PROVE Beyond(n)'
    BY <1>1, <1>2, <1>4 DEF Beyond
  <1>5. r.pos \in Nat /\ r.held \in Nat
    BY DEF TypeOK, Routers
  <1>6. ASSUME NEW q \in routers, Same(r, q)
        PROVE  (r.pc = "next" => Beyond(r.pos)') /\ (r.pc = "deliver" => Beyond(r.held)')
    BY <1>1, <1>3, <1>4, <1>5, <1>6 DEF Same, RouterAbove
  <1>7. CASE r \in routers
    BY <1>6, <1>7 DEF Same
  <1>8. CASE OldRouters
    BY <1>6, <1>8 DEF OldRouters
  <1>9. ASSUME NEW t \in creators, create_and_store_consumer(t), dialog.open,
               r.pc = "next", r.pos = t.start
        PROVE  Beyond(r.pos)'
    <2>1. CASE Floors(t)
      <3>1. base' \in Nat /\ r.pos = base' + 1
        BY <1>9, <2>1, FloorsFirst
      <3>2. \A n \in Nat : n < n + 1
        OBVIOUS
      <3>3. QED
        BY <3>1, <3>2 DEF Beyond
    <2>2. CASE t.tail_floor = None
      <3>1. t.entry = dialog.entry /\ t.pc = "store" /\ base' = base
        BY <1>9, <2>2, StoreEffect DEF Floors, Clean
      <3>2. base < t.start
        BY <1>1, <2>2, <3>1 DEF Above, TasksAbove, CreatorAbove
      <3>3. QED
        BY <1>9, <3>1, <3>2 DEF Beyond
    <2>3. CASE Late(t)
      <3>1. t.entry = dialog.entry /\ t.pc = "store" /\ base' = base /\ dialog'.last = dialog.last
        BY <1>9, <2>3, StoreEffect DEF Late, Clean
      <3>2. dialog.initial = None /\ dialog.last # None
        BY <1>1, <2>3, <3>1 DEF Followed, CreatorOK, Late, Floors
      <3>3. QED
        BY <1>1, <3>1, <3>2 DEF Above, LastAbove, Beyond
    <2>4. QED
      BY <2>1, <2>2, <2>3 DEF Late
  <1>10. ASSUME NEW q \in routers, Take(q)
         PROVE  (r.pc = "next" => Beyond(r.pos)') /\ (r.pc = "deliver" => Beyond(r.held)')
    <2>1. CASE r.pc = "deliver" /\ r.held = q.pos /\ r.entry = q.entry
      BY <1>1, <1>3, <1>4, <1>5, <1>10, <2>1, TakeEffect DEF RouterAbove
    <2>2. QED
      BY <1>7, <1>10, <2>1, TakeEffect
  <1>11. ASSUME NEW q \in routers, Deliver(q) \/ Skip(q)
         PROVE  (r.pc = "next" => Beyond(r.pos)') /\ (r.pc = "deliver" => Beyond(r.held)')
    <2>1. ASSUME r.pc = "next", r.entry = q.entry, NEW n \in Nat, Beyond(n),
                 r.pos = n \/ r.pos = n + 1
          PROVE  Beyond(r.pos)'
      <3>1. base < n => base < n + 1
        BY <1>2
      <3>2. Beyond(r.pos)
        BY <2>1, <3>1 DEF Beyond
      <3>3. QED
        BY <1>3, <1>4, <1>5, <2>1, <3>2
    <2>2. CASE Deliver(q) /\ r \notin routers
      <3>1. /\ r.pc = "next" /\ r.pos = q.held + 1 /\ r.entry = q.entry
            /\ q.pc = "deliver" /\ q.held \in Nat
        BY <1>1, <2>2, DeliverEffect DEF Followed, RouterOK, TypeOK, Routers
      <3>2. Beyond(q.held)
        BY <1>1, <1>3, <3>1 DEF RouterAbove
      <3>3. QED
        BY <2>1, <3>1, <3>2
    <2>3. CASE Skip(q) /\ r \notin routers
      <3>1. /\ r.pc = "next" /\ r.pos = q.pos + 1 /\ r.entry = q.entry
            /\ q.pc = "next" /\ q.pos \in Nat
        BY <2>3, SkipEffect
      <3>2. Beyond(q.pos)
        BY <1>1, <1>3, <3>1 DEF RouterAbove
      <3>3. QED
        BY <2>1, <3>1, <3>2
    <2>4. QED
      BY <1>7, <1>11, <2>2, <2>3
  <1>12. QED
    BY <1>6, <1>8, <1>9, <1>10, <1>11, StoreEffect, RoutersStep DEF RoutersResult

LEMMA AboveStep ==
  ASSUME TypeOK, TypeOK', Entries, Newest, Origin, Followed, Above, [Next]_vars
  PROVE  Above'
  <1>1. CASE Holds
    BY <1>1, CreatorsAbove, RoutersAbove, GivenAboveStep DEF Above, TasksAbove
  <1>2. CASE Opens
    <2>1. \A n \in Nat : n <= subs => n # dialog'.entry
      BY <1>2 DEF Opens, TypeOK
    <2>2. \A c \in creators' : c.entry # dialog'.entry
      BY <2>1, TasksKnown DEF TypeOK, Creators
    <2>3. \A r \in routers' : r.entry # dialog'.entry
      BY <2>1, TasksKnown DEF TypeOK, Routers
    <2>4. QED
      BY <2>2, <2>3, GivenAboveStep DEF Above, TasksAbove, CreatorAbove, RouterAbove
  <1>3. QED
    BY <1>1, <1>2, SubscriptionKept

-----------------------------------------------------------------------------
(* The theorems *)

\* Every chunk between the replay point and the last one was given or passed over.
Given ==
  Clean /\ base # None => \A n \in Nat : base < n /\ n <= dialog.last => n \in got \cup lost

LEMMA GivenStep ==
  ASSUME TypeOK, TypeOK', Origin, Followed, Given, [Next]_vars
  PROVE  Given'
  <1> SUFFICES ASSUME Clean', base' # None, NEW n \in Nat, base' < n, n <= dialog'.last
               PROVE  n \in got' \cup lost'
    BY DEF Given
  <1>1. CASE Quiet
    BY <1>1 DEF Quiet, Clean, Given
  <1>2. CASE Reload \/ unsubscribe_dialog
    BY <1>2 DEF Reload, unsubscribe_dialog, Clean, NoDialog
  <1>3. ASSUME NEW s \in {None} \cup 0..tail, subscribe_dialog(s) PROVE FALSE
    BY <1>3, SubscribeEffect DEF Clean, None
  <1>4. ASSUME NEW t \in creators, create_and_store_consumer(t), dialog.open PROVE n \in got' \cup lost'
    <2>1. Clean /\ t.entry = dialog.entry /\ t.pc = "store" /\ t \in Creators
      BY <1>4, StoreEffect DEF Clean
    <2>2. CASE Floors(t)
      <3>1. dialog.initial = None
        BY <2>1, <2>2, <1>4 DEF Followed, CreatorOK, Floors
      <3>2. base = None
        BY <2>1, <2>2, <3>1 DEF Origin, Floors
      <3>3. base' = t.tail_floor /\ dialog'.last = t.tail_floor
        BY <1>4, <2>2, <3>2, StoreEffect
      <3>4. t.tail_floor \in Int
        BY <2>1 DEF Creators, None
      <3>5. QED
        BY <3>3, <3>4
    <2>3. CASE ~Floors(t)
      <3>1. base' = base /\ dialog'.last = dialog.last /\ got' = got /\ lost \subseteq lost'
        BY <1>4, <2>3, StoreEffect
      <3>2. QED
        BY <2>1, <3>1 DEF Given
    <2>4. QED
      BY <2>2, <2>3
  <1>5. ASSUME NEW q \in routers, Gives(q) PROVE n \in got' \cup lost'
    <2>1. /\ Clean /\ q.entry = dialog.entry /\ base' = base /\ q.pc = "deliver"
          /\ dialog'.last = q.held /\ q.held \in Nat /\ (Given1(q) \/ Missed1(q))
      BY <1>5, GivesEffect DEF Clean
    <2>2. Near(q.held)
      BY <2>1 DEF Followed, RouterOK
    <2>3. dialog.last \in Int /\ base \in Int
      BY <2>1, LastType
    <2>4. n = q.held \/ n <= dialog.last \/ (dialog.last < n /\ n < q.held)
      BY <2>1, <2>3
    <2>5. n = q.held \/ n \in got \cup lost
      BY <2>1, <2>2, <2>4 DEF Near, Given
    <2>6. QED
      BY <2>1, <2>5 DEF Given1, Missed1
  <1>6. ASSUME NEW q \in routers, Skip(q) PROVE n \in got' \cup lost'
    BY <1>6, SkipEffect DEF Clean, Given
  <1>7. QED
    BY <1>1, <1>2, <1>3, <1>4, <1>5, <1>6, SubscriptionStep DEF SubscriptionResult

Invariant == TypeOK /\ Entries /\ Newest /\ Origin /\ Followed /\ Given /\ Above

LEMMA InvariantInit ==
  ASSUME Init
  PROVE  Invariant
  <1>1. TypeOK
    BY DEF Init, TypeOK, None
  <1>2. ~dialog.open /\ got = {} /\ creators = {} /\ routers = {}
    BY DEF Init, NoDialog
  <1>3. QED
    BY <1>1, <1>2 DEF Invariant, Entries, Newest, Origin, Followed, Given, Clean, Above,
       LastAbove, GotAbove, TasksAbove

LEMMA InvariantStep ==
  ASSUME Invariant, [Next]_vars
  PROVE  Invariant'
  <1>1. TypeOK'
    BY TypeStep DEF Invariant
  <1>2. QED
    BY <1>1, EntriesStep, NewestStep, SubscriptionKept, FollowedStep, GivenStep, AboveStep
       DEF Invariant

LEMMA InvariantHolds == Spec => []Invariant
  BY InvariantInit, InvariantStep, PTL DEF Spec

\* The entry, the tasks and what the page has stay what the bridge declares them to be.
THEOREM ChatTypeCorrect == Spec => []TypeOK
  <1>1. Invariant => TypeOK
    BY DEF Invariant
  <1>2. QED
    BY <1>1, InvariantHolds, PTL

\* Whatever reconnects, retries and replaced routers do: at or below the number that the
\* bridge will not deliver again, no chunk beyond the replay point is missing on the page
\* but one whose send failed, one that could not be read, and those between two tails.
THEOREM NothingSkipped == Spec => []NoGap
  <1>1. Invariant => NoGap
    <2> SUFFICES ASSUME Invariant, Clean, base # None, NEW n \in (base + 1)..dialog.last
                 PROVE  n \in got \cup lost
      BY DEF NoGap, Clean
    <2>1. base \in Nat
      BY DEF Invariant, TypeOK
    <2>2. dialog.last \in Int
      BY DialogType DEF Invariant, Clean, Dialogs, None
    <2>3. n \in Nat /\ base < n /\ n <= dialog.last
      BY <2>1, <2>2
    <2>4. QED
      BY <2>3 DEF Invariant, Given
  <1>2. QED
    BY <1>1, InvariantHolds, PTL

\* A chunk is only given under the lock, where it was newer than the last one given, and
\* that one is the newest the page has.
THEOREM ChunksInOrder == Spec => InOrder
  <1> DEFINE Newer == got # {} /\ got \subseteq got' => \A n \in got' \ got : n > Max(got)
  <1>1. ASSUME Invariant, [Next]_vars PROVE Newer
    <2> SUFFICES ASSUME got # {}, NEW n \in got' \ got PROVE n > Max(got)
      OBVIOUS
    <2>1. got' # got
      OBVIOUS
    <2>2. ~Quiet
      BY <2>1 DEF Quiet
    <2>3. ~(Reload \/ unsubscribe_dialog)
      BY DEF Reload, unsubscribe_dialog
    <2>4. ASSUME NEW s \in {None} \cup 0..tail, subscribe_dialog(s) PROVE FALSE
      BY <1>1, <2>4, SubscribeEffect DEF Invariant
    <2>5. ASSUME NEW t \in creators, create_and_store_consumer(t), dialog.open PROVE FALSE
      BY <1>1, <2>1, <2>5, StoreEffect DEF Invariant
    <2>6. ASSUME NEW q \in routers, Skip(q) PROVE FALSE
      BY <1>1, <2>1, <2>6, SkipEffect DEF Invariant
    <2>7. PICK q \in routers : Gives(q)
      BY <1>1, <2>2, <2>3, <2>4, <2>5, <2>6, SubscriptionStep DEF SubscriptionResult, Invariant
    <2>8. n = q.held /\ dialog.last < q.held /\ q.held \in Nat
      BY <1>1, <2>7, GivesEffect DEF Invariant
    <2>9. got \subseteq Nat /\ dialog.open /\ (\A m \in got : m <= dialog.last)
          /\ \E m \in got : \A k \in got : k <= m
      BY <1>1 DEF Invariant, Newest, TypeOK
    <2>10. \E m \in got : \A k \in got : m >= k
      BY <2>9
    <2>11. Max(got) \in got
      BY <2>10 DEF Max
    <2>12. dialog.last \in Int
      BY <1>1, <2>9, DialogType DEF Invariant, Dialogs, None
    <2>13. Max(got) <= dialog.last /\ Max(got) \in Nat
      BY <2>9, <2>11
    <2>14. QED
      BY <2>8, <2>12, <2>13
  <1>2. ASSUME Invariant, [Next]_vars PROVE [Newer]_vars
    BY <1>1, <1>2
  <1>3. QED
    BY <1>2, InvariantHolds, PTL DEF Spec, InOrder

\* Every step of the bridge is a step of the run of chunks that the page follows, or
\* leaves it as it is.
LEMMA StepOfTheRun ==
  ASSUME Invariant, [Next]_vars
  PROVE  [Stream!SNext]_(Stream!svars)
  <1> USE DEF Stream!SNext, Stream!svars, Stream!Unknown
  <1>1. TypeOK /\ TypeOK' /\ Newest /\ Origin /\ Followed /\ Given /\ Above
    BY TypeStep DEF Invariant
  <1>2. CASE ~Clean /\ ~Clean'
    <2>1. Clean \in BOOLEAN /\ Clean' \in BOOLEAN
      BY DEF Clean
    <2>2. UNCHANGED Stream!svars
      BY <1>2, <2>1
    <2>3. QED
      BY <2>2
  <1>3. CASE Clean /\ ~Clean'
    <2>1. Clean \in BOOLEAN
      BY DEF Clean
    <2>2. Stream!Close
      BY <1>3, <2>1 DEF Stream!Close, None
    <2>3. QED
      BY <2>2
  <1>4. CASE Clean' /\ Quiet
    BY <1>4 DEF Quiet, Clean
  <1>5. CASE Reload \/ unsubscribe_dialog
    BY <1>2, <1>3, <1>5 DEF Reload, unsubscribe_dialog, Clean, NoDialog
  <1>6. ASSUME NEW s \in {None} \cup 0..tail, subscribe_dialog(s), Clean'
        PROVE  Stream!Open
    <2>1. ~Clean
      BY <1>6 DEF subscribe_dialog, Clean
    <2>2. got' = {} /\ lost' = {} /\ base' \in {None} \cup Nat
      BY <1>1, <1>6, SubscribeEffect
    <2>3. QED
      BY <1>6, <2>1, <2>2 DEF Stream!Open, None
  <1>7. ASSUME NEW t \in creators, create_and_store_consumer(t), dialog.open, Clean'
        PROVE  [Stream!SNext]_(Stream!svars)
    <2>1. Clean /\ got' = got /\ lost \subseteq lost'
      BY <1>1, <1>7, StoreEffect DEF Clean
    <2>2. CASE Floors(t)
      <3>1. base = None /\ base' \in Nat /\ lost' = lost
        BY <1>1, <1>7, <2>2, FloorsFirst, StoreEffect DEF Late
      <3>2. Stream!Begin
        BY <1>7, <2>1, <3>1 DEF Stream!Begin, None
      <3>3. QED
        BY <3>2
    <2>3. CASE ~Floors(t)
      <3>1. base' = base
        BY <1>1, <1>7, <2>3, StoreEffect
      <3>2. Stream!Miss
        BY <1>1, <1>7, <2>1, <3>1 DEF Stream!Miss, TypeOK
      <3>3. QED
        BY <3>2
    <2>4. QED
      BY <2>2, <2>3
  <1>8. ASSUME NEW q \in routers, Gives(q), Clean'
        PROVE  Stream!Give \/ Stream!Miss
    <2>1. /\ Clean /\ base' = base /\ base \in Nat /\ (Given1(q) \/ Missed1(q))
          /\ dialog.last \in Int /\ dialog.last < q.held /\ q.held \in Nat
          /\ base < q.held /\ Near(q.held)
      BY <1>1, <1>8, GivesClean DEF Above
    <2>2. CASE Given1(q)
      <3>1. \A n \in got : n < q.held
        BY <1>1, <2>1 DEF Newest, TypeOK
      <3>2. ASSUME NEW n \in (base + 1)..(q.held - 1) PROVE n \in got \cup lost
        <4>1. n \in Nat /\ base < n /\ n < q.held
          BY <2>1
        <4>2. n <= dialog.last \/ dialog.last < n
          BY <2>1, <4>1
        <4>3. base # None
          BY <2>1 DEF None
        <4>4. QED
          BY <1>1, <2>1, <4>1, <4>2, <4>3 DEF Near, Given
      <3>3. Stream!Give
        BY <1>8, <2>1, <2>2, <3>1, <3>2 DEF Stream!Give, Given1, None
      <3>4. QED
        BY <3>3
    <2>3. CASE Missed1(q)
      BY <1>1, <1>8, <2>1, <2>3 DEF Stream!Miss, Missed1, TypeOK
    <2>4. QED
      BY <2>1, <2>2, <2>3
  <1>9. ASSUME NEW q \in routers, Skip(q), Clean'
        PROVE  Stream!Miss
    BY <1>1, <1>9, SkipEffect DEF Stream!Miss, Clean, TypeOK
  <1>10. QED
    BY <1>1, <1>2, <1>3, <1>4, <1>5, <1>6, <1>7, <1>8, <1>9, SubscriptionStep
       DEF SubscriptionResult

\* The bridge implements the run of consecutive chunks: the page begins behind the replay
\* point or the tail the stream had, and gets every chunk from there on once and in its
\* turn, but for those passed over, whatever reconnects, retries and replaced routers do (compute_start_seq,
\* create_and_store_consumer, dialog_router).
THEOREM OneConsecutiveRun == Spec => ConsecutiveRun
  <1>1. Init => Stream!SInit
    BY DEF Init, Clean, NoDialog, Stream!SInit, Stream!Unknown, None
  <1>2. Invariant /\ [Next]_vars => [Stream!SNext]_(Stream!svars)
    BY StepOfTheRun
  <1>3. QED
    BY <1>1, <1>2, InvariantHolds, PTL DEF Spec, ConsecutiveRun, Stream!SSpec
=============================================================================
