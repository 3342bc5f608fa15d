----------------------------- MODULE TaskOrder ------------------------------
(***************************************************************************)
(* The list of a ticket's tasks as a function from task to row: its order, *)
(* the blocking rule (tasks/task-order.ts), the two ways positions are     *)
(* rewritten (tasks.service.ts, testing/cases.service.ts), and the stamps  *)
(* of a task's clock.  Pure operators; tasks are numbered as created.      *)
(***************************************************************************)
EXTENDS Integers, FiniteSets

TaskStatus == { "NEW", "IN_PROGRESS", "COMPLETED" }

\* TASK_ORDER: by position, the older row first where two share one.
Above(list, j, i) ==
  \/ list[j].order < list[i].order
  \/ list[j].order = list[i].order /\ j < i

Place(list, i) == Cardinality({ j \in DOMAIN list : Above(list, j, i) })

\* rebalance: every row at the place it has in the list.
Rebalanced(list) == [i \in DOMAIN list |-> [list[i] EXCEPT !.order = Place(list, i)]]

(***************************************************************************)
(* moveTo: x is taken out and put back at the target, or at the end of the *)
(* list where the target lies beyond it.                                   *)
(***************************************************************************)
LastPlace(list) == Cardinality(DOMAIN list) - 1

ClampedNot(list, target) == target  \* mutant: the target is taken as asked

Clamped(list, target) == IF target < LastPlace(list) THEN target ELSE LastPlace(list)

MovedToSwapping(list, x, target) ==  \* mutant: x and the row there change places
  LET to == Clamped(list, target)
  IN  [i \in DOMAIN list |-> [list[i] EXCEPT !.order =
         IF i = x THEN to
         ELSE IF Place(list, i) = to THEN Place(list, x) ELSE Place(list, i)]]

MovedTo(list, x, target) ==
  LET to        == Clamped(list, target)
      without(i) == Place(list, i) - (IF Above(list, x, i) THEN 1 ELSE 0)
  IN  [i \in DOMAIN list |-> [list[i] EXCEPT !.order =
         IF i = x THEN to ELSE IF without(i) < to THEN without(i) ELSE without(i) + 1]]

BlockersNext(list, i) ==  \* mutant: only the row right above is asked
  { j \in DOMAIN list : /\ list[j].blocking /\ list[j].status # "COMPLETED"
                        /\ list[j].order = list[i].order - 1 }

\* findBlocker, all of them: the unfinished blocking rows above i.
Blockers(list, i) ==
  { j \in DOMAIN list : /\ list[j].blocking /\ list[j].status # "COMPLETED"
                        /\ list[j].order < list[i].order }

(***************************************************************************)
(* taskClockFields: the stamps a status writes onto the current row, as    *)
(* decided from the row that was loaded.  started and completed tell which *)
(* of startedAt and completedAt are set.                                   *)
(***************************************************************************)
StampedCompletedStays(current, loaded, st) ==  \* mutant: completedAt is not cleared
  [current EXCEPT !.status    = st,
                  !.started   = st # "NEW" /\ (@ \/ ~loaded.started),
                  !.completed = @ \/ st = "COMPLETED"]

Stamped(current, loaded, st) ==
  [current EXCEPT !.status    = st,
                  !.started   = st # "NEW" /\ (@ \/ ~loaded.started),
                  !.completed = IF st = "COMPLETED" THEN @ \/ ~loaded.completed
                                                    ELSE @ /\ ~loaded.completed]

\* "Contiguous from 0" (schema.prisma).
Contiguous(list) == { list[i].order : i \in DOMAIN list } = 0 .. LastPlace(list)

=============================================================================
