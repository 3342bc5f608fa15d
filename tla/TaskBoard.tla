----------------------------- MODULE TaskBoard ------------------------------
(***************************************************************************)
(* What the rest of a ticket sees of its tasks: who holds one, whether any *)
(* is open, and the roster that follows from them.  TasksService keeps far *)
(* more per task; the workflow only ever asks these two questions, in      *)
(* task-gate.ts and in the assignment sync.                                *)
(*                                                                         *)
(* The handlers here are each one database transaction, or one check and   *)
(* one write taken as a unit.  None of them looks at the ticket's status:  *)
(* tasks and roster may change while the ticket is anywhere.               *)
(***************************************************************************)
EXTENDS Assignments, Permissions

CONSTANTS RoleOf,   \* user -> role
          Eligible  \* the users filterMentionable admits whatever they work on:
                    \* by role, by grant, as the creator or the named owner

ASSUME RoleAssumption == RoleOf \in [User -> Role]
ASSUME EligibleAssumption == Eligible \subseteq User

VARIABLES holders,  \* users with at least one task on the ticket
          open,     \* does a task in OPEN_TASK_STATUSES remain?
          roster

boardVars == <<holders, open, roster>>

Can(u, action) == May(RoleOf[u], action)

IsDeveloper(u) == RoleOf[u] = "DEVELOPER"

\* filterMentionable: working on the ticket also admits a developer to it.
Reachable == Eligible \cup { d \in roster.active \cup holders : IsDeveloper(d) }

\* assertIsAssignableDeveloper
Assignable == { d \in Reachable : IsDeveloper(d) }

BoardTypeOK ==
  /\ holders \in SUBSET User
  /\ open \in BOOLEAN
  /\ roster \in Rosters

\* A fresh ticket, or one promoted from a requirement whose owner, if he is a
\* developer, leads it from the start whatever he can reach.
BoardInit ==
  /\ holders = {}
  /\ open = FALSE
  /\ \/ roster = EmptyRoster
     \/ \E d \in User : IsDeveloper(d) /\ roster = SetLead(EmptyRoster, d)

Sync == roster' \in SyncFromTasks(roster, holders')

\* POST /tickets/:id/tasks: a manager for anyone eligible, others for themselves.
CreateTask(u, holder) ==
  /\ holder \in Reachable
  /\ \/ Can(u, "task:manage")
     \/ u = holder /\ Can(u, "task:create-own") /\ u \in roster.active
  /\ holders' = holders \cup {holder}
  /\ open' = TRUE
  /\ Sync

\* The holders once from loses one of its tasks, which may not be its only one.
Without(from) == { holders, holders \ {from} }

\* PATCH /tasks/:id by a manager who hands the task over, its status in the
\* same request or not.
ReassignTask(u, from, to) ==
  /\ Can(u, "task:manage")
  /\ from \in holders /\ to \in Reachable \ {from}
  /\ \E left \in Without(from) : holders' = left \cup {to}
  /\ open' \in BOOLEAN
  /\ Sync

\* PATCH /tasks/:id with a status, by a manager or by the holder.
SetTaskStatus(u) ==
  /\ holders # {}
  /\ Can(u, "task:manage") \/ u \in holders
  /\ open' \in BOOLEAN
  /\ UNCHANGED <<holders, roster>>

\* DELETE /tasks/:id: by a manager, or by the holder of an unstarted task.
RemoveTask(u, from) ==
  /\ from \in holders
  /\ \/ Can(u, "task:manage")
     \/ u = from /\ open /\ Can(u, "task:create-own")
  /\ holders' \in Without(from)
  /\ open' \in { FALSE, open /\ holders' # {} }
  /\ Sync

\* POST /tickets/:id/assignees
AddToRoster(u, d) ==
  /\ Can(u, "ticket:assign") /\ d \in Assignable
  /\ roster' = AddAssignee(roster, d)
  /\ UNCHANGED <<holders, open>>

\* DELETE /tickets/:id/assignees/:developerId: refused to a task holder.
RemoveFromRosterUnchecked(u, d) ==  \* mutant: the count of tasks is not asked
  /\ Can(u, "ticket:assign")
  /\ d \in roster.active
  /\ roster' = RemoveAssignee(roster, d)
  /\ UNCHANGED <<holders, open>>

RemoveFromRoster(u, d) ==
  /\ Can(u, "ticket:assign")
  /\ d \in roster.active \ holders
  /\ roster' = RemoveAssignee(roster, d)
  /\ UNCHANGED <<holders, open>>

\* PATCH /tickets/:id/lead
HandOverLead(u, d) ==
  /\ Can(u, "ticket:assign") /\ d \in Assignable
  /\ roster' = SetLead(roster, d)
  /\ UNCHANGED <<holders, open>>

BoardNext ==
  \E u \in User :
    \/ \E d \in User : \/ CreateTask(u, d)
                       \/ RemoveTask(u, d)
                       \/ AddToRoster(u, d)
                       \/ RemoveFromRoster(u, d)
                       \/ HandOverLead(u, d)
                       \/ \E e \in User : ReassignTask(u, d, e)
    \/ SetTaskStatus(u)

BoardSpec == BoardInit /\ [][BoardNext]_boardVars

-----------------------------------------------------------------------------
(***************************************************************************)
(* A ticket never has two leads, and its lead is on the active roster: the *)
(* partial unique index only forbids two active leads, so that a retired   *)
(* row never keeps the flag is up to every writer of the roster.           *)
(***************************************************************************)
LeadOnRoster ==
  /\ roster.lead \subseteq roster.active
  /\ \A d, e \in roster.lead : d = e

(***************************************************************************)
(* Everyone holding a task is on the active roster, as the sync promises:  *)
(* "a task and its assignee never disagree" (assignment-sync.service.ts).  *)
(***************************************************************************)
HoldersOnRoster == holders \subseteq roster.active

(***************************************************************************)
(* A task write never moves the lead: whoever leads the ticket still does  *)
(* after it, holding tasks or not, and a ticket nobody led gets a lead as  *)
(* soon as somebody holds a task on it.                                    *)
(***************************************************************************)
TaskWriteKeepsLead ==
  [][ holders' # holders =>
        IF ActiveLeads(roster) # {}
          THEN ActiveLeads(roster') = ActiveLeads(roster)
          ELSE holders' # {} => ActiveLeads(roster') # {} ]_boardVars

=============================================================================
