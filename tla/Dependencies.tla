---------------------------- MODULE Dependencies ----------------------------
(***************************************************************************)
(* The relations between tickets: addDependency and removeDependency of    *)
(* tickets.service.ts over the TicketDependency table, next to the tickets *)
(* that land and are reopened under them.  Each handler is one step here;  *)
(* DependencyRequests takes them apart.                                    *)
(***************************************************************************)
EXTENDS DependencyGraph

VARIABLES relation,  \* the type of the row from one ticket to another
          done       \* the tickets in PREREQUISITE_SATISFIED_STATUSES

depVars == <<relation, done>>

\* DUPLICATES gates nothing either and is not told from RELATES_TO.
Type == { "BLOCKS", "RELATES_TO" }

None == "none"

Blocks(rel) == { p \in Pairs : rel[p] = "BLOCKS" }

\* The prerequisites that assertPrerequisitesMet and notifyUnblockedDependents count.
Unmet(rel, landed, t) == WaitsOn(Blocks(rel), t) \ landed

DepTypeOK ==
  /\ relation \in [Pairs -> Type \cup {None}]
  /\ done \in SUBSET Ticket

DepInit == relation = [p \in Pairs |-> None] /\ done = {}

\* The row is created, or one of another type is changed to this one.
AddDependency(blocking, blocked, type) ==
  /\ blocking # blocked
  /\ relation[<<blocking, blocked>>] # type
  /\ relation' = [relation EXCEPT ![<<blocking, blocked>>] = type]
  /\ type = "BLOCKS" => ~WouldCreateCycle(Blocks(relation), blocking, blocked)
  /\ UNCHANGED done

\* Named from either end: where both rows exist, one of them goes.
RemoveDependency(p) ==
  /\ relation[p] # None
  /\ relation' = [relation EXCEPT ![p] = None]
  /\ UNCHANGED done

\* changeStatus into, or out of, the statuses that satisfy a prerequisite.
Land(t)   == done' = done \cup {t} /\ UNCHANGED relation
Reopen(t) == done' = done \ {t} /\ UNCHANGED relation

DepNext ==
  \/ \E b, t \in Ticket, type \in Type : AddDependency(b, t, type)
  \/ \E p \in Pairs : RemoveDependency(p)
  \/ \E t \in Ticket : Land(t) \/ Reopen(t)

DepSpec == DepInit /\ [][DepNext]_depVars

-----------------------------------------------------------------------------
(***************************************************************************)
(* "Edges are checked for cycles before they are written, so the graph     *)
(* stays a DAG" (schema.prisma), through every creation, change of type    *)
(* and removal of a row.                                                   *)
(***************************************************************************)
GraphIsDAG == NoRing(Blocks(relation))

(***************************************************************************)
(* Tickets never all wait on one another: as long as one is unfinished,    *)
(* there is an unfinished one whose start gate is open.                    *)
(***************************************************************************)
SomeoneCanStart ==
  done # Ticket => \E t \in Ticket \ done : Unmet(relation, done, t) = {}

=============================================================================
