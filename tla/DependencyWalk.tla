--------------------------- MODULE DependencyWalk ---------------------------
(***************************************************************************)
(* wouldCreateCycle, one turn of its loop at a time: the walk up from the  *)
(* proposed prerequisite through everything that one waits on, with its    *)
(* early returns and its limit on the nodes seen.  The order of the queue  *)
(* is left open: rows come in the order the database gives them.           *)
(***************************************************************************)
EXTENDS DependencyGraph, FiniteSets, Integers

CONSTANT MaxNodes  \* MAX_NODES

ASSUME MaxNodesAssumption == MaxNodes \in Nat

VARIABLES edges, blocking, blocked,  \* the arguments
          seen, queue, answer

arguments == <<edges, blocking, blocked>>
walkVars == <<arguments, seen, queue, answer>>

Answers == { "walking", "cycle", "free" }

WalkTypeOK ==
  /\ edges \in SUBSET Pairs
  /\ blocking \in Ticket /\ blocked \in Ticket
  /\ seen \in SUBSET Ticket /\ queue \in SUBSET seen
  /\ answer \in Answers

WalkInit ==
  /\ edges \in SUBSET Pairs
  /\ blocking \in Ticket /\ blocked \in Ticket
  /\ seen = {blocking} /\ queue = {blocking}
  /\ answer = IF blocking = blocked THEN "cycle" ELSE "walking"

Marked(t) == seen \cup WaitsOn(edges, t)

QueuedAgain(t) == (queue \ {t}) \cup WaitsOn(edges, t)  \* mutant: what was seen, too

QueuedNone(t) == queue \ {t}  \* mutant: the walk goes one step up and no further

Queued(t) == (queue \ {t}) \cup (WaitsOn(edges, t) \ seen)

\* One turn of the loop takes a ticket off the queue and looks at what it waits on.
Visit(t) ==
  /\ answer = "walking" /\ t \in queue /\ Cardinality(seen) <= MaxNodes
  /\ IF blocked \in WaitsOn(edges, t)
       THEN answer' = "cycle" /\ UNCHANGED <<seen, queue>>
       ELSE seen' = Marked(t) /\ queue' = Queued(t) /\ UNCHANGED answer
  /\ UNCHANGED arguments

\* The loop ends with nothing left to visit, or with more seen than it allows.
GiveUp ==
  /\ answer = "walking"
  /\ queue = {} \/ Cardinality(seen) > MaxNodes
  /\ answer' = "free"
  /\ UNCHANGED <<arguments, seen, queue>>

WalkNext == (\E t \in Ticket : Visit(t)) \/ GiveUp

\* The function runs to its end without a pause: the next turn always comes.
WalkSpec == WalkInit /\ [][WalkNext]_walkVars /\ WF_walkVars(WalkNext)

-----------------------------------------------------------------------------
(***************************************************************************)
(* The walk answers the question the relation asks: a cycle is reported    *)
(* exactly if the blocked ticket is upstream of the proposed prerequisite, *)
(* on any graph, one that already has a ring included.  This needs the     *)
(* limit to be no smaller than the number of tickets.                      *)
(***************************************************************************)
WalkAnswersRight ==
  /\ answer = "cycle" => WouldCreateCycle(edges, blocking, blocked)
  /\ answer = "free"  => ~WouldCreateCycle(edges, blocking, blocked)

(***************************************************************************)
(* A turn that does not end the walk takes a ticket off the queue that was *)
(* never taken before and never returns to it, rings or not: the loop runs *)
(* once for each ticket at most.                                           *)
(***************************************************************************)
TurnsUseUpTickets ==
  [][ answer' = "walking" =>
        \E t \in queue : seen' \ queue' = (seen \ queue) \cup {t} ]_walkVars

(***************************************************************************)
(* The walk ends on every graph: a ring in it is not walked for ever.      *)
(***************************************************************************)
WalkEnds == <>(answer # "walking")

=============================================================================
