--------------------------- MODULE TicketRequests ---------------------------
(***************************************************************************)
(* The handlers of TicketWorkflow taken apart.  A request to               *)
(* tickets.service.ts loads the ticket row once, decides from that copy,   *)
(* reads roster, tasks, prerequisites and history in later queries, and    *)
(* ends in the Promise.all of changeStatus: a row update and a history     *)
(* insert that are two statements of no transaction.  Several requests are *)
(* in flight at once and any statement may fail.                           *)
(***************************************************************************)
EXTENDS TicketWorkflow

CONSTANTS Slot,         \* the requests that may be in flight together
          MaxFailures   \* bound on failed statements and server crashes

ASSUME MaxFailuresAssumption == MaxFailures \in Nat

VARIABLES inflight, failures

requestVars == <<inflight, failures>>

\* The statuses an endpoint accepts, moves to, and the action it asks for.
From ==
  [ submit  |-> { "DRAFT", "AWAITING_INFO" }, approve |-> { "NEW", "AWAITING_APPROVAL" },
    assign  |-> { "APPROVED" },               start   |-> { "SCHEDULED" },
    test    |-> { "IN_PROGRESS" },            changes |-> { "AWAITING_TESTING" },
    verify  |-> { "AWAITING_TESTING" },       accept  |-> { "AWAITING_OWNER_APPROVAL" },
    block   |-> Blockable,                    hold    |-> Status \ Terminal,
    resume  |-> Held,                         close   |-> { "COMPLETED" },
    reopen  |-> { "CLOSED", "REJECTED" },     force   |-> Status ]

Into ==
  [ submit  |-> { "NEW" },                    approve |-> DecisionStatus,
    assign  |-> { "SCHEDULED" },              start   |-> { "IN_PROGRESS" },
    test    |-> { "AWAITING_TESTING" },       changes |-> { "IN_PROGRESS" },
    verify  |-> { "AWAITING_OWNER_APPROVAL" }, accept |-> { "COMPLETED" },
    block   |-> { "BLOCKED" },                hold    |-> { "ON_HOLD" },
    resume  |-> Status,                       close   |-> { "CLOSED" },
    reopen  |-> { "NEW" },                    force   |-> Status ]

Needs ==
  [ submit  |-> "ticket:submit",         approve |-> "ticket:approve",
    assign  |-> "ticket:assign",         start   |-> "ticket:start",
    test    |-> "ticket:submit-testing", changes |-> "ticket:verify-testing",
    verify  |-> "ticket:verify-testing", accept  |-> "ticket:accept-delivery",
    block   |-> "ticket:block",          hold    |-> "ticket:hold",
    resume  |-> "ticket:resume",         close   |-> "ticket:close",
    reopen  |-> "ticket:reopen",         force   |-> "ticket:force-status" ]

Endpoint == DOMAIN From

OnOwnerSide(u) ==
  \/ RoleOf[u] \in Leadership \cup { "SYSTEM_OWNER" }
  \/ u = Creator \/ u \in NamedOwner

MayCall(u, ep) ==
  /\ Can(u, Needs[ep])
  /\ ep = "submit" => OwnsTicket(u)
  /\ ep = "accept" => OnOwnerSide(u)
  /\ ep = "resume" /\ status = "ON_HOLD" => Can(u, "ticket:hold")

\* The calls that go through requireLead.
NeedsLead(r) ==
  \/ r.ep \in { "start", "test" }
  \/ r.ep \in { "block", "resume" } /\ Can(r.by, "ticket:resume") /\ ~Can(r.by, "ticket:hold")

Idle == [phase |-> "idle"]

Busy == { s \in Slot : inflight[s] # Idle }

Quiet == Busy = {}

Forcing == { s \in Busy : inflight[s].ep = "force" }

RequestInit == Init /\ inflight = [s \in Slot |-> Idle] /\ failures = 0

-----------------------------------------------------------------------------
Put(s, request) == inflight' = [inflight EXCEPT ![s] = request]

\* findById, and the checks on the row it returns.
Load(s, u, ep) ==
  /\ inflight[s] = Idle
  /\ Room(Len(history) + Cardinality(Busy),
          ep = "force" \/ Forcing # {} \/ Forced(history) # {})
  /\ ep = "force" => Cardinality(Forced(history)) + Cardinality(Forcing) < MaxForces
  /\ MayCall(u, ep) /\ status \in From[ep]
  /\ ep = "assign" => deadline
  /\ Put(s, [ phase |-> "loaded", ep |-> ep, by |-> u,
              status |-> status, started |-> started, completed |-> completed ])
  /\ UNCHANGED <<vars, failures>>

\* requireLead, assertNoOpenTasks, assertPrerequisitesMet
GatesPassLead(r) ==  \* mutant: the lead's word is enough
  NeedsLead(r) => Leads(r.by)

GatesPass(r) ==
  /\ NeedsLead(r) => Leads(r.by)
  /\ r.ep \in { "start", "test" } => ~unmet
  /\ r.ep = "test" => ~open

Targets(r) ==
  IF r.ep = "resume" THEN { ResumeTarget(history, roster.active # {}) } ELSE Into[r.ep]

DecidedSilently(r, to, before) ==  \* mutant: a block writes the row only
  [ phase |-> "writing", ep |-> r.ep, status |-> r.status,
    started |-> r.started, completed |-> r.completed, to |-> to,
    before |-> before,
    pending |-> IF r.ep = "block" THEN { "row" } ELSE { "row", "history" } ]

\* The queries after the load have been answered: what remains is to write.
\* before is the roster an assign found.
Decided(r, to, before) ==
  [ phase |-> "writing", ep |-> r.ep, status |-> r.status,
    started |-> r.started, completed |-> r.completed, to |-> to,
    before |-> before, pending |-> { "row", "history" } ]

Decide(s) ==
  LET r == inflight[s] IN
  /\ r.phase = "loaded" /\ r.ep # "assign"
  /\ GatesPass(r)
  /\ \E to \in Targets(r) : Put(s, Decided(r, to, EmptyRoster))
  /\ UNCHANGED <<vars, failures>>

\* The transaction of /assign, on its own before the status moves.
AssignRoster(s) ==
  LET r == inflight[s] IN
  /\ r.phase = "loaded" /\ r.ep = "assign"
  /\ \/ \E team \in SUBSET Assignable : \E l \in team :
           roster' = AssignTeam(roster, team, l)
     \/ \E l \in roster.active : roster' = SetLead(roster, l)
  /\ Put(s, Decided(r, "SCHEDULED", roster))
  /\ UNCHANGED <<rowVars, planVars, holders, open, failures>>

\* A check on a later read turns the request down; nothing was written.
Refuse(s) ==
  LET r == inflight[s] IN
  /\ r.phase = "loaded"
  /\ r.ep = "assign" \/ ~GatesPass(r)
  /\ Put(s, Idle)
  /\ UNCHANGED <<vars, failures>>

\* What is left of a request once it has made, or lost, one of its writes.
After(r, w) ==
  IF r.pending = {w} THEN Idle ELSE [r EXCEPT !.pending = @ \ {w}]

Writing(s, w) == inflight[s].phase = "writing" /\ w \in inflight[s].pending

ReasonAfter(r, current) ==
  IF r.ep \in { "block", "hold" } THEN TRUE
  ELSE IF r.ep = "resume" THEN FALSE ELSE current

RowOf(r) == [from |-> r.status, to |-> r.to, forced |-> r.ep = "force"]

\* ticket.update: the stamps are decided from the loaded row.
WriteRow(s) ==
  LET r == inflight[s] IN
  /\ Writing(s, "row")
  /\ status' = r.to
  /\ started' = StampStarted(started, r.started, r.to)
  /\ completed' = StampCompleted(completed, r.completed, r.to)
  /\ reason' = ReasonAfter(r, reason)
  /\ Put(s, After(r, "row"))
  /\ UNCHANGED <<history, planVars, boardVars, failures>>

WriteHistoryReread(s) ==  \* mutant: fromStatus is read back from the row
  LET r == inflight[s] IN
  /\ Writing(s, "history")
  /\ history' = Append(history, [from |-> status, to |-> r.to, forced |-> r.ep = "force"])
  /\ Put(s, After(r, "history"))
  /\ UNCHANGED <<status, started, completed, reason, planVars, boardVars, failures>>

\* ticketStatusHistory.create: fromStatus is the loaded one.
WriteHistory(s) ==
  LET r == inflight[s] IN
  /\ Writing(s, "history")
  /\ history' = Append(history, RowOf(r))
  /\ Put(s, After(r, "history"))
  /\ UNCHANGED <<status, started, completed, reason, planVars, boardVars, failures>>

\* One of the two statements is rejected; Promise.all does not undo the other.
FailWrite(s, w) ==
  /\ failures < MaxFailures
  /\ Writing(s, w)
  /\ Put(s, After(inflight[s], w))
  /\ failures' = failures + 1
  /\ UNCHANGED vars

\* The server dies with whatever its requests had still to write.
Crash ==
  /\ failures < MaxFailures /\ ~Quiet
  /\ inflight' = [s \in Slot |-> Idle]
  /\ failures' = failures + 1
  /\ UNCHANGED vars

\* What goes on beside the status: plan, prerequisites, tasks and roster.
Surroundings ==
  /\ \/ \E u \in User : UpdatePlan(u)
     \/ PrerequisitesMove
     \/ BoardStep
  /\ UNCHANGED requestVars

RequestStep ==
  \/ \E s \in Slot :
       \/ \E u \in User, ep \in Endpoint : Load(s, u, ep)
       \/ Decide(s) \/ AssignRoster(s) \/ Refuse(s)
       \/ WriteRow(s) \/ WriteHistory(s)
       \/ \E w \in { "row", "history" } : FailWrite(s, w)
  \/ Crash

RequestNext == RequestStep \/ Surroundings

allVars == <<vars, requestVars>>

RequestSpec == RequestInit /\ [][RequestNext]_allVars

\* Nothing moves beside a request until it is answered.
SerialNext ==
  \/ RequestStep
  \/ Quiet /\ Surroundings

SerialSpec == RequestInit /\ [][SerialNext]_allVars

-----------------------------------------------------------------------------
(***************************************************************************)
(* However requests overlap and whatever fails, every unforced row of the  *)
(* history is a move some endpoint makes: the timeline never shows a       *)
(* transition the workflow does not have.                                  *)
(***************************************************************************)
RowsAreMoves ==
  \A i \in DOMAIN history :
    \/ history[i].forced \/ history[i].from = NoStatus
    \/ \E ep \in Endpoint \ { "force" } :
         history[i].from \in From[ep] /\ history[i].to \in Into[ep]

(***************************************************************************)
(* Once no request is in flight and none failed, the status the race left  *)
(* behind is one a history row leads to.                                   *)
(***************************************************************************)
SettledStatusRecorded ==
  Quiet /\ failures = 0 =>
    status = "DRAFT" \/ \E i \in DOMAIN history : history[i].to = status

(***************************************************************************)
(* Taken one at a time and without failures, the requests implement        *)
(* TicketWorkflow: the handler takes effect with the first of its two      *)
(* writes, and nothing of it shows before.                                 *)
(***************************************************************************)
Committed == { s \in Busy : inflight[s].phase = "writing"
                            /\ inflight[s].pending # { "row", "history" } }

Uncommitted ==
  { s \in Busy : inflight[s].phase = "writing" /\ inflight[s].ep = "assign" } \ Committed

Owed(w) == { s \in Committed : w \in inflight[s].pending }

The(slots) == inflight[CHOOSE s \in slots : TRUE]

\* What a reader will be told once the write still owed is made.
HistoryTold ==
  IF Owed("history") = {} THEN history ELSE Append(history, RowOf(The(Owed("history"))))

StatusTold == IF Owed("row") = {} THEN status ELSE The(Owed("row")).to

StartedTold ==
  IF Owed("row") = {} THEN started ELSE StampStarted(started, started, StatusTold)

CompletedTold ==
  IF Owed("row") = {} THEN completed ELSE StampCompleted(completed, completed, StatusTold)

ReasonTold == IF Owed("row") = {} THEN reason ELSE ReasonAfter(The(Owed("row")), reason)

\* The roster an assign has written is not the ticket's before the status moves.
RosterTold == IF Uncommitted = {} THEN roster ELSE The(Uncommitted).before

Workflow == INSTANCE TicketWorkflow WITH
  history <- HistoryTold, status <- StatusTold, started <- StartedTold,
  completed <- CompletedTold, reason <- ReasonTold, roster <- RosterTold

ImplementsWorkflow == Workflow!Spec

=============================================================================
