-------------------------- MODULE MCDependencyWalk --------------------------
(* Small instances of DependencyWalk. *)
EXTENDS DependencyWalk

CONSTANTS t1, t2, t3, t4

=============================================================================
