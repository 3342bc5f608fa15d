---------------------------- MODULE TicketStatus ----------------------------
(***************************************************************************)
(* What tickets/transitions.ts and tickets/dependencies.ts know about      *)
(* ticket statuses: the named sets, the columns the work clock stamps on a *)
(* change of status, and where /resume sends a stopped ticket.  Pure       *)
(* operators only, as the source file is; no state of its own.             *)
(***************************************************************************)
EXTENDS Integers, Sequences

Status == { "DRAFT", "NEW", "AWAITING_INFO", "AWAITING_APPROVAL", "APPROVED",
            "REJECTED", "SCHEDULED", "IN_PROGRESS", "AWAITING_TESTING",
            "AWAITING_OWNER_APPROVAL", "COMPLETED", "CLOSED", "BLOCKED", "ON_HOLD" }

\* PAUSED_STATUSES: the clock does not run.
Paused == { "BLOCKED", "ON_HOLD", "AWAITING_INFO", "AWAITING_TESTING",
            "AWAITING_OWNER_APPROVAL" }

\* RESUMABLE_HOLD_STATUSES: /resume returns to fromStatus even if that one pauses.
ResumableHold == { "BLOCKED", "ON_HOLD", "AWAITING_INFO" }

BlockableUntested == { "SCHEDULED", "IN_PROGRESS" }  \* mutant: not while in testing

\* BLOCKABLE_STATUSES: work that is under way.
Blockable == { "SCHEDULED", "IN_PROGRESS", "AWAITING_TESTING" }

\* TERMINAL_STATUSES: nothing leaves these but a reopen, a close or a force.
Terminal == { "COMPLETED", "CLOSED", "REJECTED" }

\* PREREQUISITE_SATISFIED_STATUSES, and the isDone of workClockFields.
Done == { "COMPLETED", "CLOSED" }

\* The two statuses POST /resume accepts.
Held == { "BLOCKED", "ON_HOLD" }

(***************************************************************************)
(* A TicketStatusHistory row.  forced tells the audit row FORCE_STATUS     *)
(* written with it from an ordinary STATUS_CHANGE.  NoStatus is the null   *)
(* fromStatus of the opening row a promoted bug or requirement gets.       *)
(***************************************************************************)
NoStatus == "none"

Edges == [from: Status \cup {NoStatus}, to: Status, forced: BOOLEAN]

(***************************************************************************)
(* workClockFields.  started counts the times startedAt was stamped, so 0  *)
(* is the null column and "stamped once and never reset" reads started <=  *)
(* 1; completed tells whether completedAt is set.  The function decides    *)
(* from the row the handler loaded, the update lands on the current row.   *)
(***************************************************************************)
StampStartedAgain(current, loaded, to) ==  \* mutant: every start stamps
  IF to = "IN_PROGRESS" THEN current + 1 ELSE current

StampStarted(current, loaded, to) ==
  IF to = "IN_PROGRESS" /\ loaded = 0 THEN current + 1 ELSE current

StampCompleted(current, loaded, to) ==
  \/ to \in Done /\ ~loaded
  \/ current /\ (to \in Done \/ ~loaded)

(***************************************************************************)
(* resumeTargetFrom: walk the history from its newest row and take the     *)
(* fromStatus of the first row that entered a hold, or that entered a      *)
(* pause from a status that does not pause.                                *)
(***************************************************************************)
MarksReturnFromWork(e) ==  \* mutant: only the clock's pauses count
  e.from # NoStatus /\ e.to \in Paused /\ e.from \notin Paused

MarksReturn(e) ==
  /\ e.from # NoStatus
  /\ \/ e.to \in ResumableHold
     \/ e.to \in Paused /\ e.from \notin Paused

ReturnRows(history) == { i \in DOMAIN history : MarksReturn(history[i]) }

ResumeTargetFallback(history, hasActiveAssignment) ==  \* mutant: no walk
  IF hasActiveAssignment THEN "SCHEDULED" ELSE "APPROVED"

ResumeTarget(history, hasActiveAssignment) ==
  IF ReturnRows(history) = {}
    THEN IF hasActiveAssignment THEN "SCHEDULED" ELSE "APPROVED"
    ELSE LET newest == CHOOSE i \in ReturnRows(history) :
                         \A j \in ReturnRows(history) : j <= i
         IN  history[newest].from

=============================================================================
