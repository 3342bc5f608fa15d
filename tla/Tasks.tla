------------------------------- MODULE Tasks --------------------------------
(***************************************************************************)
(* The task list of one ticket (tasks/tasks.service.ts): rows with their   *)
(* position, holder, status and blocking flag, every handler one step, the *)
(* roster sync of its transaction included.  What the rest of the ticket   *)
(* sees of all this is TaskBoard, which the list implements.               *)
(***************************************************************************)
EXTENDS TaskOrder

CONSTANTS User, RoleOf, Eligible,
          MaxTasks  \* bound on the rows, and on the position asked for

ASSUME MaxTasksAssumption == MaxTasks \in Nat

VARIABLES tasks,  \* TicketTask rows, numbered in the order of their creation
          roster

taskVars == <<tasks, roster>>

Holders == { tasks[i].holder : i \in DOMAIN tasks }

Board == INSTANCE TaskBoard WITH
  holders <- Holders,
  open    <- \E i \in DOMAIN tasks : tasks[i].status # "COMPLETED"

ASSUME BoardAssumption == RoleOf \in [User -> Board!Role] /\ Eligible \subseteq User

Task == [ order : 0 .. MaxTasks - 1, holder : User, creator : User, status : TaskStatus,
          started : BOOLEAN, completed : BOOLEAN, blocking : BOOLEAN ]

TaskTypeOK ==
  /\ DOMAIN tasks \subseteq 1 .. MaxTasks
  /\ tasks \in [DOMAIN tasks -> Task]
  /\ roster \in Board!Rosters

TaskInit ==
  /\ tasks = [i \in {} |-> {}]
  /\ Board!BoardInit

Sync == roster' \in Board!SyncFromTasks(roster, Holders')

Manages(u) == Board!Can(u, "task:manage")

Newest(i) == \A j \in DOMAIN tasks : j < i

\* New work lands at the bottom; only a manager may make it blocking.
Create(u, holder, blocking) ==
  /\ holder \in Board!Reachable
  /\ \/ Manages(u)
     \/ /\ Board!Can(u, "task:create-own")
        /\ u = holder /\ u \in roster.active
        /\ ~blocking
  /\ \E i \in 1 .. MaxTasks :
       /\ Newest(i) /\ i - 1 \in DOMAIN tasks \cup {0}
       /\ tasks' = [ j \in DOMAIN tasks \cup {i} |->
            IF j # i THEN tasks[j]
            ELSE [ order |-> Cardinality(DOMAIN tasks), holder |-> holder, creator |-> u,
                   status |-> "NEW", started |-> FALSE, completed |-> FALSE,
                   blocking |-> blocking ] ]
  /\ Sync

Reorder(u, i, target) ==
  /\ Manages(u)
  /\ tasks' = MovedTo(tasks, i, target)
  /\ UNCHANGED roster

\* What PATCH /tasks/:id may change: all of it by a manager, the status by the holder.
MayUpdate(u, i, holder, blocking) ==
  \/ Manages(u)
  \/ u = tasks[i].holder /\ holder = u /\ blocking = tasks[i].blocking

\* The status is set only if the request names one; so are the holder and the flag.
Updated(i, st, holder, blocking) ==
  LET row == IF st = tasks[i].status THEN tasks[i] ELSE Stamped(tasks[i], tasks[i], st)
  IN  [tasks EXCEPT ![i] = [row EXCEPT !.holder = holder, !.blocking = blocking]]

UpdateUnsynced(u, i, st, holder, blocking) ==  \* mutant: a handover leaves the roster
  /\ MayUpdate(u, i, holder, blocking)
  /\ holder # tasks[i].holder => holder \in Board!Reachable
  /\ st # tasks[i].status /\ st # "NEW" => Blockers(tasks, i) = {}
  /\ tasks' = Updated(i, st, holder, blocking)
  /\ UNCHANGED roster

Update(u, i, st, holder, blocking) ==
  /\ MayUpdate(u, i, holder, blocking)
  /\ holder # tasks[i].holder => holder \in Board!Reachable
  /\ st # tasks[i].status /\ st # "NEW" => Blockers(tasks, i) = {}
  /\ tasks' = Updated(i, st, holder, blocking)
  /\ IF holder # tasks[i].holder THEN Sync ELSE UNCHANGED roster

Without(i) == [j \in DOMAIN tasks \ {i} |-> tasks[j]]

MayRemove(u, i) ==
  \/ Manages(u)
  \/ /\ Board!Can(u, "task:create-own")
     /\ tasks[i].creator = u /\ tasks[i].holder = u /\ tasks[i].status = "NEW"

RemoveLeavingGap(u, i) ==  \* mutant: no rebalance
  /\ MayRemove(u, i)
  /\ tasks' = Without(i)
  /\ Sync

Remove(u, i) ==
  /\ MayRemove(u, i)
  /\ tasks' = Rebalanced(Without(i))
  /\ Sync

\* The roster endpoints, which read the tasks and leave them.
RosterStep(u, d) ==
  /\ UNCHANGED tasks
  /\ \/ Board!AddToRoster(u, d)
     \/ Board!RemoveFromRoster(u, d)
     \/ Board!HandOverLead(u, d)

TaskNext ==
  \E u \in User :
    \/ \E d \in User : RosterStep(u, d) \/ \E b \in BOOLEAN : Create(u, d, b)
    \/ \E i \in DOMAIN tasks :
         \/ \E target \in 0 .. MaxTasks : Reorder(u, i, target)
         \/ \E st \in TaskStatus, d \in User, b \in BOOLEAN : Update(u, i, st, d, b)
         \/ Remove(u, i)

TaskSpec == TaskInit /\ [][TaskNext]_taskVars

-----------------------------------------------------------------------------
(***************************************************************************)
(* Positions are contiguous from 0 through every creation, move and        *)
(* removal, so that the third row on screen is the one at 2 (GUIDE.md).    *)
(***************************************************************************)
PositionsContiguous == Contiguous(tasks)

(***************************************************************************)
(* Every write disturbs the order of one row at most: take that one away,  *)
(* and the others stand to one another as before.                          *)
(***************************************************************************)
OthersKeepOrder ==
  [][ LET kept == DOMAIN tasks \cap DOMAIN tasks'
      IN  kept = {} \/ \E x \in kept : \A i, j \in kept \ {x} :
            tasks[i].order < tasks[j].order => tasks'[i].order < tasks'[j].order ]_taskVars

(***************************************************************************)
(* "No task with a higher order may start or complete until this one is    *)
(* COMPLETED" (schema.prisma): where a task starts or completes, every     *)
(* blocking task above it is finished.                                     *)
(***************************************************************************)
BlockersHold ==
  [][ \A i, j \in DOMAIN tasks \cap DOMAIN tasks' :
        /\ tasks'[i].status \notin { "NEW", tasks[i].status }
        /\ tasks[j].order < tasks[i].order
        /\ tasks[j].blocking
       => tasks[j].status = "COMPLETED" ]_taskVars

(***************************************************************************)
(* A task has a completion stamp exactly when it is completed and a start  *)
(* stamp exactly when it is not new, through any sequence of statuses.     *)
(***************************************************************************)
TaskClockMatches ==
  \A i \in DOMAIN tasks : /\ tasks[i].completed <=> tasks[i].status = "COMPLETED"
                          /\ tasks[i].started <=> tasks[i].status # "NEW"

(***************************************************************************)
(* What a ticket sees of its list, who holds a task and whether one is     *)
(* open, moves only as TaskBoard lets it, with the roster in step.         *)
(***************************************************************************)
ImplementsBoard == Board!BoardSpec

\* What TaskBoard promises, of the rows, whatever is made, handed over, removed or
\* struck off: one lead at most, on the roster, and so is whoever holds a row.
RosterAgrees == Board!LeadOnRoster /\ Board!HoldersOnRoster

\* No write of the list takes the lead from whoever has it, or leaves a list with
\* holders leaderless.
TaskWriteKeepsLead == Board!TaskWriteKeepsLead

=============================================================================
