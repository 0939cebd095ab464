---------------------------- MODULE MCResultStore ----------------------------
(* Small instances of ResultStore for TLC. *)
EXTENDS ResultStore, TLC

CONSTANTS e1, e2, s1, s2, t1, t2

\* A batch of two scripts beside one that names the same script twice, so that
\* both of its requests share one key.
MCScripts == e1 :> <<s1, s2>> @@ e2 :> <<s1, s1>>

\* A single batch, redelivered often.
MCOneBatch == e1 :> <<s1, s2>>

\* A script of the first batch whose results no server accepts.
MCOversized == {<<e1, s1>>}

\* The handler tasks are interchangeable.
MCSymmetry == Permutations(Tasks)
=============================================================================
