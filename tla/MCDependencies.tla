--------------------------- MODULE MCDependencies ---------------------------
(* Small instances of Dependencies and DependencyRequests. *)
EXTENDS DependencyRequests, TLC

CONSTANTS t1, t2, t3, r1, r2

Symmetric == Permutations(Ticket) \cup Permutations(Slot)

=============================================================================
