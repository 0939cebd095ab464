--------------------------- MODULE MCToolLifecycle ---------------------------
(* Small instances of ToolLifecycle for TLC. *)
EXTENDS ToolLifecycle, TLC

CONSTANTS o1, o2, p1, p2

\* Operation tasks and supervisor tasks are interchangeable.
MCSymmetry == Permutations(Ops) \cup Permutations(Sups)
=============================================================================
