---------------------------- MODULE TicketScreen ----------------------------
(***************************************************************************)
(* The workflow buttons of the ticket page (app/tickets/[id]/page.tsx) and *)
(* of its stop panel (TicketBlockPanel.tsx).  The page decides by itself,  *)
(* from the ticket, the roster, the tasks and the prerequisites it has     *)
(* fetched, which moves to offer: a second copy of the guards that the     *)
(* handlers of TicketWorkflow keep.  Here the page has just fetched them;  *)
(* TicketCache is about a page that has not.                               *)
(*                                                                         *)
(* lib/permissions.ts of the web client holds the same matrix as the       *)
(* server's, so both read Permissions.                                     *)
(***************************************************************************)
EXTENDS TicketWorkflow

\* canBlockTicket
MayBlock(u) ==
  /\ Can(u, "ticket:block")
  /\ Can(u, "ticket:hold") \/ ~Can(u, "ticket:resume") \/ Leads(u)

MayResumeAnyStop(u) ==  \* mutant: a lead is offered every resume
  Can(u, "ticket:resume") /\ (Can(u, "ticket:hold") \/ Leads(u))

\* canResumeTicket
MayResume(u) ==
  /\ Can(u, "ticket:resume")
  /\ Can(u, "ticket:hold") \/ (status = "BLOCKED" /\ Leads(u))

\* BLOCKABLE and TERMINAL of the stop panel.
ShownBlockable == { "SCHEDULED", "IN_PROGRESS", "AWAITING_TESTING" }
ShownTerminal == { "COMPLETED", "CLOSED", "REJECTED" }

\* planLocked
ShownLocked == { "DRAFT", "NEW", "AWAITING_APPROVAL", "AWAITING_INFO",
                 "REJECTED", "COMPLETED", "CLOSED" }

\* canAcceptDelivery
MayAccept(u) ==
  /\ Can(u, "ticket:accept-delivery")
  /\ \/ u = Creator \/ u \in NamedOwner \/ RoleOf[u] = "SYSTEM_OWNER"
     \/ Can(u, "ticket:close")

\* Which buttons u sees and may press.  TicketBlockPanel shows a stopped ticket
\* its resume and nothing else; assign sends the roster as it stands.
Screen(u) ==
  [ resume  |-> status \in Held /\ MayResume(u),
    block   |-> status \in ShownBlockable /\ MayBlock(u),
    hold    |-> status \notin Held \cup ShownTerminal /\ Can(u, "ticket:hold"),
    submit  |-> status \in { "DRAFT", "AWAITING_INFO" } /\ u = Creator,
    approve |-> status = "NEW" /\ Can(u, "ticket:approve"),
    assign  |-> /\ status = "APPROVED" /\ Can(u, "ticket:assign")
                /\ roster.active # {} /\ deadline,
    start   |-> status = "SCHEDULED" /\ IsDeveloper(u),
    submitForTesting  |-> status = "IN_PROGRESS" /\ IsDeveloper(u) /\ ~open /\ ~unmet,
    requestChanges    |-> status = "AWAITING_TESTING" /\ Can(u, "ticket:verify-testing"),
    approveCompletion |->
      \/ status = "AWAITING_TESTING" /\ Can(u, "ticket:verify-testing")
      \/ status = "AWAITING_OWNER_APPROVAL" /\ MayAccept(u),
    close    |-> status = "COMPLETED" /\ Can(u, "ticket:close"),
    reopen   |-> status \in { "CLOSED", "REJECTED" } /\ Can(u, "ticket:reopen"),
    editPlan |-> status \notin ShownLocked /\ Can(u, "ticket:assign") ]

\* runConfirmedAction: would the handler behind the button take the request?
Accepts(u) ==
  [ resume  |-> TakesResume(u),
    block   |-> TakesBlock(u),
    hold    |-> TakesHold(u),
    submit  |-> TakesSubmit(u),
    approve |-> TakesApprove(u),
    assign  |-> TakesAssign(u),
    start   |-> TakesStart(u),
    submitForTesting  |-> TakesSubmitForTesting(u),
    requestChanges    |-> TakesTesting(u),
    approveCompletion |-> TakesTesting(u) \/ TakesDelivery(u),
    close    |-> TakesClose(u),
    reopen   |-> TakesReopen(u),
    editPlan |-> TakesPlan(u) ]

-----------------------------------------------------------------------------
\* What brings a ticket on: all but the stops and the plan.
Onward == { "resume", "submit", "approve", "assign", "start", "submitForTesting",
            "requestChanges", "approveCompletion", "close", "reopen" }

Buttons == Onward \cup { "block", "hold", "editPlan" }

\* What the page shows to every developer and the API refuses to some:
\* neither button asks who leads, and start does not ask for prerequisites.
KnownRefusal(u, b) ==
  \/ b \in { "start", "submitForTesting" } /\ ~Leads(u)
  \/ b = "start" /\ unmet

\* "a visible button is always one the API will accept" (page.tsx), with
\* KnownRefusal.
OfferedIsAccepted ==
  \A u \in User : \A b \in Buttons :
    Screen(u)[b] => Accepts(u)[b] \/ KnownRefusal(u, b)

\* The page waits for a team, and has no decision for AWAITING_APPROVAL.
Waits == \/ status = "APPROVED" /\ roster.active = {}
         \/ status = "AWAITING_APPROVAL"

NoDeadEnd ==
  \/ Waits
  \/ \A u \in User, b \in Onward : ~Accepts(u)[b]
  \/ \E u \in User, b \in Onward : Screen(u)[b] /\ Accepts(u)[b]

(***************************************************************************)
(* The page and the handlers keep the same rules in two languages: what    *)
(* the page offers the API takes, and wherever some request would bring    *)
(* the ticket on, the page shows somebody a button that does.              *)
(***************************************************************************)
PageAgrees == OfferedIsAccepted /\ NoDeadEnd

=============================================================================
