------------------------------ MODULE MCTasks -------------------------------
(* A small instance of Tasks. *)
EXTENDS Tasks

CONSTANTS head, dev

MCRoleOf == [u \in User |-> IF u = head THEN "PROGRAMMING_HEAD" ELSE "DEVELOPER"]

\* At most one row that blocks and one that the developer created himself.
FewSpecial ==
  /\ Cardinality({ i \in DOMAIN tasks : tasks[i].blocking }) <= 1
  /\ Cardinality({ i \in DOMAIN tasks : tasks[i].creator = dev }) <= 1

=============================================================================
