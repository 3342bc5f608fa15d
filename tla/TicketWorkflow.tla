--------------------------- MODULE TicketWorkflow ---------------------------
(***************************************************************************)
(* The life of one ticket, as tickets/tickets.service.ts runs it: every    *)
(* endpoint that moves the status, with the guards of its handler and all  *)
(* that changeStatus writes, next to the task board and the roster that    *)
(* the gates read.  Each handler is one step here; TicketRequests takes it *)
(* apart into its reads and writes.                                        *)
(*                                                                         *)
(* The users are those who may see the ticket (assertCanViewTicket).       *)
(***************************************************************************)
EXTENDS TaskBoard, TicketStatus, FiniteSets

CONSTANTS Creator,     \* the user who filed the ticket
          NamedOwner,  \* the user in systemOwnerId, as a set of at most one
          MaxHistory,  \* bound on the rows of the status history,
          MaxForced,   \* bound on its rows once one of them is forced,
          MaxForces    \* and bound on those

ASSUME CreatorAssumption == Creator \in User
ASSUME NamedOwnerAssumption == NamedOwner \subseteq User
ASSUME BoundAssumption == { MaxHistory, MaxForced, MaxForces } \subseteq Nat

VARIABLES status,
          history,    \* TicketStatusHistory, oldest first
          started,    \* times startedAt was stamped
          completed,  \* is completedAt set?
          reason,     \* is pauseReason set?
          deadline,   \* is estimatedDeadline set?
          unmet       \* is a BLOCKS prerequisite of the ticket unfinished?

rowVars == <<status, history, started, completed, reason>>
planVars == <<deadline, unmet>>
vars == <<boardVars, rowVars, planVars>>

OpeningRow == [from |-> NoStatus, to |-> "DRAFT", forced |-> FALSE]

TypeOK ==
  /\ BoardTypeOK
  /\ status \in Status
  /\ history \in Seq(Edges)
  /\ started \in Nat
  /\ completed \in BOOLEAN /\ reason \in BOOLEAN
  /\ deadline \in BOOLEAN /\ unmet \in BOOLEAN

\* A ticket filed by hand has no history yet; a promoted one has its opening row.
Init ==
  /\ BoardInit
  /\ status = "DRAFT"
  /\ history \in { <<>>, <<OpeningRow>> }
  /\ started = 0 /\ completed = FALSE
  /\ reason = FALSE /\ deadline = FALSE /\ unmet = FALSE

-----------------------------------------------------------------------------
Forced(edges) == { i \in DOMAIN edges : edges[i].forced }

\* Is there room for another row after n of them?
Room(n, forced) == n < (IF forced THEN MaxForced ELSE MaxHistory)

(***************************************************************************)
(* The single writer of the status: the row with its clock columns, the    *)
(* history row, and the audit row that tells a force from the rest.        *)
(***************************************************************************)
Write(to, forced) ==
  /\ Room(Len(history), forced \/ Forced(history) # {})
  /\ status' = to
  /\ history' = Append(history, [from |-> status, to |-> to, forced |-> forced])
  /\ started' = StampStarted(started, started, to)
  /\ completed' = StampCompleted(completed, completed, to)

\* changeStatus as every handler but four calls it: only the status moves.
ChangeStatus(to) ==
  /\ Write(to, FALSE)
  /\ UNCHANGED <<reason, planVars, boardVars>>

OwnsTicket(u) == u = Creator \/ RoleOf[u] \in Leadership

\* A handler is its checks, TakesX, and the write they lead to.
TakesSubmit(u) ==
  /\ Can(u, "ticket:submit") /\ OwnsTicket(u)
  /\ status \in { "DRAFT", "AWAITING_INFO" }

Submit(u) == TakesSubmit(u) /\ ChangeStatus("NEW")

DecisionStatusRaw ==  \* mutant: the decision is taken for a status
  { "APPROVED", "REJECTED", "AWAITING_INFO", "CONVERT_TO_PROJECT" }

\* The decisions of POST /approve; CONVERT_TO_PROJECT parks the ticket.
DecisionStatus == { "APPROVED", "REJECTED", "AWAITING_INFO", "ON_HOLD" }

TakesApprove(u) ==
  /\ Can(u, "ticket:approve")
  /\ status \in { "NEW", "AWAITING_APPROVAL" }

Approve(u) ==
  /\ TakesApprove(u)
  /\ \E to \in DecisionStatus : ChangeStatus(to)

\* The lead must be in the team.
TakesAssign(u) ==
  /\ Can(u, "ticket:assign")
  /\ status = "APPROVED"
  /\ deadline
  /\ Assignable \cup roster.active # {}

\* Without developerIds the team is the active roster.
Assign(u) ==
  /\ TakesAssign(u)
  /\ \/ \E team \in SUBSET Assignable : \E l \in team :
           roster' = AssignTeam(roster, team, l)
     \/ \E l \in roster.active : roster' = SetLead(roster, l)
  /\ Write("SCHEDULED", FALSE)
  /\ UNCHANGED <<reason, planVars, holders, open>>

\* requireLead
Leads(u) == u \in ActiveLeads(roster)

TakesStart(u) ==
  /\ Can(u, "ticket:start") /\ Leads(u)
  /\ status = "SCHEDULED"
  /\ ~unmet

StartWork(u) == TakesStart(u) /\ ChangeStatus("IN_PROGRESS")

SubmitForTestingEarly(u) ==  \* mutant: also from SCHEDULED
  /\ Can(u, "ticket:submit-testing") /\ Leads(u)
  /\ status \in { "SCHEDULED", "IN_PROGRESS" }
  /\ ~open /\ ~unmet
  /\ ChangeStatus("AWAITING_TESTING")

TakesSubmitForTesting(u) ==
  /\ Can(u, "ticket:submit-testing") /\ Leads(u)
  /\ status = "IN_PROGRESS"
  /\ ~open /\ ~unmet

SubmitForTesting(u) == TakesSubmitForTesting(u) /\ ChangeStatus("AWAITING_TESTING")

\* The testers' two answers have the same checks.
TakesTesting(u) ==
  /\ Can(u, "ticket:verify-testing")
  /\ status = "AWAITING_TESTING"

RequestChanges(u) == TakesTesting(u) /\ ChangeStatus("IN_PROGRESS")

\* approveCompletion, its two transitions.
VerifyTesting(u) == TakesTesting(u) /\ ChangeStatus("AWAITING_OWNER_APPROVAL")

TakesDelivery(u) ==
  /\ status = "AWAITING_OWNER_APPROVAL"
  /\ Can(u, "ticket:accept-delivery")
  /\ \/ RoleOf[u] \in Leadership \cup { "SYSTEM_OWNER" }
     \/ u = Creator \/ u \in NamedOwner

AcceptDelivery(u) == TakesDelivery(u) /\ ChangeStatus("COMPLETED")

\* Who may clear a blocker but not decide a hold must lead the ticket.
MayStop(u) == Can(u, "ticket:resume") /\ ~Can(u, "ticket:hold") => Leads(u)

Stop(to) ==
  /\ Write(to, FALSE)
  /\ reason' = TRUE
  /\ UNCHANGED <<planVars, boardVars>>

TakesBlock(u) ==
  /\ Can(u, "ticket:block") /\ MayStop(u)
  /\ status \in Blockable

Block(u) == TakesBlock(u) /\ Stop("BLOCKED")

TakesHold(u) ==
  /\ Can(u, "ticket:hold")
  /\ status \notin Terminal

Hold(u) == TakesHold(u) /\ Stop("ON_HOLD")

TakesResume(u) ==
  /\ Can(u, "ticket:resume")
  /\ status \in Held
  /\ \/ Can(u, "ticket:hold")
     \/ status = "BLOCKED" /\ Leads(u)

Resume(u) ==
  /\ TakesResume(u)
  /\ Write(ResumeTarget(history, roster.active # {}), FALSE)
  /\ reason' = FALSE
  /\ UNCHANGED <<planVars, boardVars>>

TakesClose(u) ==
  /\ Can(u, "ticket:close")
  /\ status = "COMPLETED"

Close(u) == TakesClose(u) /\ ChangeStatus("CLOSED")

TakesReopen(u) ==
  /\ Can(u, "ticket:reopen")
  /\ status \in { "CLOSED", "REJECTED" }

ReopenUnrecorded(u) ==  \* mutant: updates the row and nothing else
  /\ TakesReopen(u)
  /\ status' = "NEW" /\ completed' = FALSE
  /\ UNCHANGED <<history, started, reason, planVars, boardVars>>

Reopen(u) == TakesReopen(u) /\ ChangeStatus("NEW")

\* No gate, and none of the columns a stop or a resume writes.
ForceStatus(u, to) ==
  /\ Cardinality(Forced(history)) < MaxForces
  /\ Can(u, "ticket:force-status")
  /\ Write(to, TRUE)
  /\ UNCHANGED <<reason, planVars, boardVars>>

PlanLocked == { "DRAFT", "NEW", "AWAITING_APPROVAL", "AWAITING_INFO",
                "REJECTED", "COMPLETED", "CLOSED" }

TakesPlan(u) ==
  /\ Can(u, "ticket:assign")
  /\ status \notin PlanLocked

\* A full plan may set or clear the deadline; an estimate touches no state here.
UpdatePlan(u) ==
  /\ TakesPlan(u)
  /\ deadline' \in BOOLEAN
  /\ UNCHANGED <<rowVars, boardVars, unmet>>

\* Another ticket lands or is reopened, or a relation is drawn or removed.
PrerequisitesMove ==
  /\ unmet' = ~unmet
  /\ UNCHANGED <<rowVars, boardVars, deadline>>

BoardStep == BoardNext /\ UNCHANGED <<rowVars, planVars>>

\* The handlers that call changeStatus.
Transition(u) ==
  \/ Submit(u) \/ Approve(u) \/ Assign(u)
  \/ StartWork(u) \/ SubmitForTesting(u) \/ RequestChanges(u)
  \/ VerifyTesting(u) \/ AcceptDelivery(u)
  \/ Block(u) \/ Hold(u) \/ Resume(u)
  \/ Close(u) \/ Reopen(u)
  \/ \E to \in Status : ForceStatus(u, to)

Next ==
  \/ \E u \in User : Transition(u) \/ UpdatePlan(u)
  \/ PrerequisitesMove
  \/ BoardStep

Spec == Init /\ [][Next]_vars

-----------------------------------------------------------------------------
Last == history[Len(history)]

(***************************************************************************)
(* The status history is one unbroken story: each row starts where the row *)
(* before it ended, the newest ends at the ticket's status.  The timeline, *)
(* the work clock and /resume all read the status out of it.               *)
(***************************************************************************)
HistoryChain ==
  /\ history = <<>> => status = "DRAFT"
  /\ history # <<>> => Last.to = status
  /\ \A i \in DOMAIN history :
       IF i = 1 THEN history[i].from \in { NoStatus, "DRAFT" }
                ELSE history[i].from = history[i - 1].to

Development == { "APPROVED", "SCHEDULED", "IN_PROGRESS", "AWAITING_TESTING",
                 "AWAITING_OWNER_APPROVAL", "COMPLETED", "CLOSED" }

\* A row that opens a new round: the ticket is (re)submitted or reopened.
Restarts(e) == e.to = "NEW" /\ e.from \notin Held /\ ~e.forced

Approves(e) == e.to = "APPROVED" /\ e.from \in { "NEW", "AWAITING_APPROVAL" }

Sanctioned ==
  \E i \in DOMAIN history :
    /\ Approves(history[i]) \/ history[i].forced
    /\ \A j \in DOMAIN history : j > i => ~Restarts(history[j])

(***************************************************************************)
(* No ticket is in development without an approval in its current round,   *)
(* however it was held, rejected, reopened and resumed on the way; only a  *)
(* forced row, which the audit names, can stand in for one (req.md, rules  *)
(* 8 and 21).                                                              *)
(***************************************************************************)
ApprovedBeforeWork == status \in Development => Sanctioned

Unforced == Forced(history) = {}

\* Where the ticket is, or where it stood when it was first stopped.
Standing ==
  LET stops == { i \in DOMAIN history :
                   history[i].to \in Held /\ history[i].from \notin Held }
  IN  IF status \in Held
        THEN history[CHOOSE i \in stops : \A j \in stops : j <= i].from
        ELSE status

Visited ==
  { history[i].to : i \in { k \in DOMAIN history :
      \A j \in DOMAIN history : j > k => ~Restarts(history[j]) } }

Stages == << "NEW", "APPROVED", "SCHEDULED", "IN_PROGRESS", "AWAITING_TESTING",
             "AWAITING_OWNER_APPROVAL", "COMPLETED", "CLOSED" >>

(***************************************************************************)
(* Without a force no stage of a round is skipped: a ticket at one stage,  *)
(* or stopped there, went through all the earlier ones since it was last   *)
(* submitted or reopened.                                                  *)
(***************************************************************************)
NoStageSkipped ==
  Unforced => \A k \in DOMAIN Stages :
                Standing = Stages[k] => \A j \in 1 .. k - 1 : Stages[j] \in Visited

(***************************************************************************)
(* The clock columns agree with the status: a completion stamp exactly in  *)
(* the done statuses, a start stamp on work in progress, and never a       *)
(* second one however often the ticket is stopped, returned or reopened.   *)
(***************************************************************************)
ClockMatchesStatus ==
  /\ completed <=> status \in Done
  /\ started <= 1
  /\ status = "IN_PROGRESS" => started = 1

(***************************************************************************)
(* A resume gives back the status in which the ticket was first stopped,   *)
(* or leaves it stopped; it never lands anywhere else.                     *)
(***************************************************************************)
ResumeNeverStrays ==
  [][ Unforced' /\ status \in Held /\ status' # status
        => status' \in Held \cup {Standing} ]_vars

-----------------------------------------------------------------------------
(* What the documents say and the code does not do.                        *)

(***************************************************************************)
(* "resume returns the ticket to the status it stopped from" (GUIDE.md): a *)
(* resume that has given back BLOCKED, where a blocked ticket was put on   *)
(* hold, is followed by one out of it.  Only a new hold, with its reason,  *)
(* may send the ticket to ON_HOLD again.                                   *)
(***************************************************************************)
GaveBackBlock ==
  /\ history # <<>>
  /\ Last.from = "ON_HOLD" /\ Last.to = "BLOCKED" /\ ~Last.forced

ResumeUnwinds ==
  [][ GaveBackBlock /\ Unforced' /\ status' = "ON_HOLD" => reason' ]_vars

=============================================================================
