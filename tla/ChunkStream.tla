---------------------------- MODULE ChunkStream ----------------------------
(***************************************************************************)
(* What the chat bridge promises to the page, without connections, tasks   *)
(* or routers: a subscription is one run of chunks.  It begins behind the  *)
(* replay point the page names or, when it names none, behind the tail the *)
(* stream has once the bridge has asked for it; every chunk from there on  *)
(* is given once, and none before those that precede it, but for the ones  *)
(* the bridge has missed.  The run ends when the page unsubscribes or is   *)
(* reloaded, or when a task of another subscription touches this one.      *)
(***************************************************************************)
EXTENDS Integers

VARIABLES
    open,      \* the page follows a run
    from,      \* the chunk it begins behind, or Unknown
    given,     \* the chunks of the run the page has
    missed     \* the chunks that need not be given

svars == <<open, from, given, missed>>

Unknown == -1

SInit == open = FALSE /\ from = Unknown /\ given = {} /\ missed = {}

Open ==
    /\ ~open /\ open' = TRUE
    /\ from' \in {Unknown} \cup Nat
    /\ given' = {} /\ missed' = {}

\* The tail becomes the beginning of a run that was opened without one.
Begin ==
    /\ open /\ from = Unknown /\ from' \in Nat
    /\ UNCHANGED <<open, given, missed>>

\* A chunk behind all that were given; none in between is left out that was not missed.
Give ==
    /\ open /\ from # Unknown
    /\ \E n \in given' :
        /\ given' = given \cup {n}
        /\ n > from /\ \A m \in given : n > m
        /\ (from + 1)..(n - 1) \subseteq given \cup missed
    /\ UNCHANGED <<open, from, missed>>

Miss ==
    /\ open /\ missed \subseteq missed' /\ missed' \subseteq Nat
    /\ UNCHANGED <<open, from, given>>

Close ==
    /\ open /\ open' = FALSE
    /\ from' = Unknown /\ given' = {} /\ missed' = {}

SNext == Open \/ Begin \/ Give \/ Miss \/ Close

SSpec == SInit /\ [][SNext]_svars
=============================================================================
