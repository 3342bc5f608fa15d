-------------------------- MODULE DependencyGraph --------------------------
(***************************************************************************)
(* Which ticket waits on which, as a set of pairs <<blocking, blocked>>:   *)
(* the BLOCKS rows that loadDependencyEdges reads (tickets/dependencies.ts).*)
(* Pure operators, shared by the relation, its requests and the walk.      *)
(***************************************************************************)
CONSTANT Ticket

Pairs == Ticket \X Ticket

\* edges.get(t): what t waits on.
WaitsOn(edges, t) == { b \in Ticket : <<b, t>> \in edges }

\* A set that contains whatever its members wait on.
Closed(S, edges) == \A t \in S : WaitsOn(edges, t) \subseteq S

(***************************************************************************)
(* Is blocked upstream of blocking, in every closed set around it?  This   *)
(* is what wouldCreateCycle is to answer; DependencyWalk says how it does. *)
(***************************************************************************)
WouldCreateCycleSwapped(edges, blocking, blocked) ==  \* mutant: the ends swapped
  \A S \in SUBSET Ticket : blocked \in S /\ Closed(S, edges) => blocking \in S

WouldCreateCycle(edges, blocking, blocked) ==
  \A S \in SUBSET Ticket : blocking \in S /\ Closed(S, edges) => blocked \in S

(***************************************************************************)
(* No ring: in any group of tickets there is one that waits on none of the *)
(* group.  For a finite set of tickets this says the graph is a DAG.       *)
(***************************************************************************)
NoRing(edges) ==
  \A S \in SUBSET Ticket : S # {} => \E t \in S : WaitsOn(edges, t) \cap S = {}

=============================================================================
