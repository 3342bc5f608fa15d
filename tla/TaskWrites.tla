----------------------------- MODULE TaskWrites -----------------------------
(***************************************************************************)
(* The task and roster writes of one ticket as the transactions they are   *)
(* (tasks/tasks.service.ts, tickets/assignment-sync.service.ts and         *)
(* task-rollup.service.ts).  Tasks and TaskBoard take each handler as one  *)
(* step; here two may overlap at READ COMMITTED: a statement reads what is *)
(* committed and what its own transaction wrote, a row written is locked   *)
(* until the commit, and a request that meets a lock waits.  A statement   *)
(* sees the rows as they are once it has its locks, and locks taken one    *)
(* after another, with no read between them, are taken together.           *)
(*                                                                         *)
(* Statuses, blocking and who may do what are in Tasks; every caller here  *)
(* manages the ticket and every user may be given a task.                  *)
(***************************************************************************)
EXTENDS TaskOrder, Functions

CONSTANTS User,
          Hours,    \* the estimates a task may have
          Slot,     \* the requests that may be in flight together
          Manager,  \* who asks, in TaskBoard's terms: he holds no task himself
          MaxTasks  \* bound on the rows ever made

ASSUME WritesAssumption == Hours \subseteq Nat /\ MaxTasks \in Nat
ASSUME ManagerAssumption == Manager \notin User

VARIABLES tasks,    \* TicketTask rows, numbered as created
          roster,   \* TicketAssignment: a row per user, both flags down if there is none
          total,    \* Ticket.tasksEstimatedHours
          inflight, \* the request each slot is on: what it read, wrote and does next
          settled   \* history variable: what no overlapping write has touched since
                    \* a lone one put it in step

tables == <<tasks, roster, total>>
vars == <<tables, inflight, settled>>

Row == [holder : User, order : 0 .. MaxTasks, hours : Hours]
Seat == [active : BOOLEAN, lead : BOOLEAN]

Facts == { "roster", "total", "order" }

Idle == [op |-> "idle"]

WritesInit ==
  /\ tasks = [i \in {} |-> {}]
  /\ roster = [d \in User |-> [active |-> FALSE, lead |-> FALSE]]
  /\ total = 0
  /\ inflight = [s \in Slot |-> Idle]
  /\ settled = Facts

-----------------------------------------------------------------------------
Others(s) == { t \in Slot \ {s} : inflight[t] # Idle }

\* A request begins: those already under way are not alone any more, nor is it.
Start(s, q) ==
  /\ inflight[s] = Idle
  /\ inflight' = [t \in Slot |->
       IF t = s THEN [q EXCEPT !.alone = Others(s) = {}]
       ELSE IF t \in Others(s) THEN [inflight[t] EXCEPT !.alone = FALSE]
       ELSE Idle]

\* It ends: alone, what it recomputed is in step; otherwise nothing may be.
Ended(s, facts) ==
  /\ inflight' = [inflight EXCEPT ![s] = Idle]
  /\ settled' = IF inflight[s].alone THEN settled \cup facts ELSE {}

GoTo(s, step) == inflight' = [inflight EXCEPT ![s].step = step]

\* What a request holds: the rows its open transaction wrote and deleted.
Wrote(t) == IF "rows" \in DOMAIN inflight[t] THEN inflight[t].rows ELSE <<>>
Gone(t) == IF "rows" \in DOMAIN inflight[t] THEN inflight[t].gone ELSE {}
Seats(t) == IF "rows" \in DOMAIN inflight[t] THEN inflight[t].seats ELSE <<>>

TaskFree(s, i) == \A t \in Others(s) : i \notin DOMAIN Wrote(t) \cup Gone(t)
SeatFree(s, d) == \A t \in Others(s) : d \notin DOMAIN Seats(t)

SeenTasks(s) ==
  [i \in (DOMAIN tasks \cup DOMAIN Wrote(s)) \ Gone(s) |->
     IF i \in DOMAIN Wrote(s) THEN Wrote(s)[i] ELSE tasks[i]]

SeenRoster(s) == [d \in User |-> IF d \in DOMAIN Seats(s) THEN Seats(s)[d] ELSE roster[d]]

Hold(rows) == { rows[i].holder : i \in DOMAIN rows }

Leads(r) == { d \in User : r[d].active /\ r[d].lead }

Sum(rows) == FoldFunction(+, 0, [i \in DOMAIN rows |-> rows[i].hours])

-----------------------------------------------------------------------------
(***************************************************************************)
(* The transaction of a task write: its rows, then the roster if syncs,    *)
(* then the total if sums.  step is what it does next.                     *)
(***************************************************************************)
Transaction(op, i, syncs, sums, step) ==
  [ op |-> op, task |-> i, syncs |-> syncs, sums |-> sums, step |-> step, alone |-> TRUE,
    rows |-> [j \in {} |-> {}], gone |-> {}, seats |-> [d \in {} |-> {}],
    holders |-> {}, total |-> 0, to |-> {} ]

AfterSync(q) == IF q.sums THEN "sum" ELSE "commit"
AfterRows(q) == IF q.syncs THEN "holders" ELSE AfterSync(q)

Unused(i) ==
  /\ \A j \in DOMAIN tasks : j < i
  /\ \A t \in Slot : i \notin DOMAIN Wrote(t)

\* "New work lands at the bottom of the list": the count of what is committed.
Insert(s, holder, hours) ==
  /\ \E i \in 1 .. MaxTasks :
       /\ Unused(i) /\ \A j \in 1 .. i - 1 : ~Unused(j)
       /\ Start(s, [Transaction("create", i, TRUE, TRUE, "holders") EXCEPT
            !.rows = [j \in {i} |-> [holder |-> holder, hours |-> hours,
                                     order |-> Cardinality(DOMAIN tasks)]]])
  /\ UNCHANGED <<tables, settled>>

\* PATCH names a holder, an estimate or both; what it syncs is decided from this read.
LoadUpdate(s, i, holder, hours) ==
  LET syncs == holder # tasks[i].holder
      sums  == hours # tasks[i].hours IN
  /\ syncs \/ sums
  /\ Start(s, [Transaction("update", i, syncs, sums, "write") EXCEPT
       !.to = (IF syncs THEN {<<"holder", holder>>} ELSE {})
                \cup (IF sums THEN {<<"hours", hours>>} ELSE {})])
  /\ UNCHANGED <<tables, settled>>

Patched(row, to) ==
  [ holder |-> IF \E d \in User : <<"holder", d>> \in to
                 THEN CHOOSE d \in User : <<"holder", d>> \in to ELSE row.holder,
    hours  |-> IF \E h \in Hours : <<"hours", h>> \in to
                 THEN CHOOSE h \in Hours : <<"hours", h>> \in to ELSE row.hours,
    order  |-> row.order ]

WriteUpdate(s) ==
  LET q == inflight[s] IN
  /\ q.op = "update" /\ q.step = "write"
  /\ q.task \in DOMAIN tasks /\ TaskFree(s, q.task)
  /\ inflight' = [inflight EXCEPT
       ![s].rows = [j \in {q.task} |-> Patched(tasks[j], q.to)],
       ![s].step = AfterRows(q)]
  /\ UNCHANGED <<tables, settled>>

LoadRemove(s, i) ==
  /\ Start(s, Transaction("remove", i, TRUE, TRUE, "delete"))
  /\ UNCHANGED <<tables, settled>>

Movers(rows) == { i \in DOMAIN rows : rows[i].order # Rebalanced(rows)[i].order }

\* The row, and the read of rebalance: where the others are to go.
Delete(s) ==
  LET q    == inflight[s]
      left == [j \in DOMAIN tasks \ {q.task} |-> tasks[j]] IN
  /\ q.op = "remove" /\ q.step = "delete"
  /\ q.task \in DOMAIN tasks /\ TaskFree(s, q.task)
  /\ inflight' = [inflight EXCEPT
       ![s].gone = {q.task},
       ![s].to   = { <<i, Rebalanced(left)[i].order>> : i \in Movers(left) },
       ![s].step = "close"]
  /\ UNCHANGED <<tables, settled>>

Placed(moves) ==
  [i \in { m[1] : m \in moves } |->
     [tasks[i] EXCEPT !.order = CHOOSE o \in 0 .. MaxTasks : <<i, o>> \in moves]]

CloseGapNot(s) ==  \* mutant: no rebalance
  /\ inflight[s].op = "remove" /\ inflight[s].step = "close"
  /\ GoTo(s, "holders")
  /\ UNCHANGED <<tables, settled>>

\* An update for each row that moves: one deleted since fails them all.
CloseGap(s) ==
  LET q == inflight[s] IN
  /\ q.op = "remove" /\ q.step = "close"
  /\ \A m \in q.to : m[1] \in DOMAIN tasks /\ TaskFree(s, m[1])
  /\ inflight' = [inflight EXCEPT ![s].rows = Placed(q.to), ![s].step = "holders"]
  /\ UNCHANGED <<tables, settled>>

-----------------------------------------------------------------------------
(***************************************************************************)
(* syncFromTasks, statement by statement.                                  *)
(***************************************************************************)
In(s, step) == "step" \in DOMAIN inflight[s] /\ inflight[s].step = step

HoldersCommitted(s) == Hold(tasks)  \* mutant: read outside the transaction

HoldersSeen(s) == Hold(SeenTasks(s))

ReadHolders(s) ==
  /\ In(s, "holders")
  /\ inflight' = [inflight EXCEPT ![s].holders = HoldersSeen(s), ![s].step = "reconcile"]
  /\ UNCHANGED <<tables, settled>>

RetiredAll(holders) ==  \* mutant: the lead goes like anyone else
  { d \in User : roster[d].active } \ holders

\* Those who were on the ticket for the work they held.
Retired(holders) == { d \in User : roster[d].active /\ ~roster[d].lead } \ holders

\* Every holder is upserted as active, and the others go.
Reconcile(s) ==
  LET holders == inflight[s].holders IN
  /\ In(s, "reconcile")
  /\ \A d \in holders \cup Retired(holders) : SeatFree(s, d)
  /\ inflight' = [inflight EXCEPT
       ![s].seats = [d \in holders \cup Retired(holders) |->
                       [roster[d] EXCEPT !.active = d \in holders]],
       ![s].step = "leads"]
  /\ UNCHANGED <<tables, settled>>

CountLeads(s) ==
  /\ In(s, "leads")
  /\ GoTo(s, IF Leads(SeenRoster(s)) = {} /\ inflight[s].holders # {}
                THEN "promote" ELSE AfterSync(inflight[s]))
  /\ UNCHANGED <<tables, settled>>

\* setLead may write: no other transaction is about to make or unmake a lead.
LeadFree(s, d) ==
  /\ SeatFree(s, d)
  /\ \A e \in User : roster[e].lead => SeatFree(s, e)
  /\ \A t \in Others(s) : \A e \in DOMAIN Seats(t) : ~Seats(t)[e].lead

\* setLead: demote before promote.
Handed(r, d) ==
  [e \in { f \in User : r[f].lead } \cup {d} |->
     IF e = d THEN [active |-> TRUE, lead |-> TRUE] ELSE [r[e] EXCEPT !.lead = FALSE]]

\* Which holder comes first is open: the query names no order.
Promote(s) ==
  /\ In(s, "promote")
  /\ \E h \in inflight[s].holders :
       LET made == Handed(SeenRoster(s), h) IN
       /\ LeadFree(s, h)
       /\ inflight' = [inflight EXCEPT
            ![s].seats = [e \in DOMAIN @ \cup DOMAIN made |->
                            IF e \in DOMAIN made THEN made[e] ELSE @[e]],
            ![s].step = AfterSync(inflight[s])]
  /\ UNCHANGED <<tables, settled>>

-----------------------------------------------------------------------------
\* recompute: the sum of what this transaction sees,
SumUp(s) ==
  /\ In(s, "sum")
  /\ inflight' = [inflight EXCEPT ![s].total = Sum(SeenTasks(s)), ![s].step = "commit"]
  /\ UNCHANGED <<tables, settled>>

Recomputed(q) ==
  (IF q.syncs THEN {"roster"} ELSE {}) \cup (IF q.sums THEN {"total"} ELSE {})
    \cup (IF q.op = "remove" THEN {"order"} ELSE {})

\* and, last, the ticket's row.
Commit(s) ==
  LET q == inflight[s] IN
  /\ In(s, "commit")
  /\ tasks' = SeenTasks(s)
  /\ roster' = SeenRoster(s)
  /\ total' = IF q.sums THEN q.total ELSE total
  /\ Ended(s, Recomputed(q))

TaskWrite(s) ==
  \/ \E d \in User, h \in Hours : Insert(s, d, h)
  \/ \E i \in DOMAIN tasks :
       LoadRemove(s, i) \/ \E d \in User, h \in Hours : LoadUpdate(s, i, d, h)
  \/ WriteUpdate(s) \/ Delete(s) \/ CloseGap(s)
  \/ ReadHolders(s) \/ Reconcile(s) \/ CountLeads(s) \/ Promote(s)
  \/ SumUp(s) \/ Commit(s)

-----------------------------------------------------------------------------
(***************************************************************************)
(* The requests that read first and write later.                           *)
(***************************************************************************)
\* PATCH /tasks/:id/reorder: the rows whose place changes are written at once.
LoadReorder(s, i, target) ==
  LET list == MovedTo(tasks, i, target) IN
  /\ Start(s, [op |-> "reorder", alone |-> TRUE,
               to |-> { <<j, list[j].order>> : j \in
                          { k \in DOMAIN tasks : list[k].order # tasks[k].order } }])
  /\ UNCHANGED <<tables, settled>>

WriteReorder(s) ==
  LET q == inflight[s] IN
  /\ q.op = "reorder"
  /\ \A m \in q.to : m[1] \in DOMAIN tasks /\ TaskFree(s, m[1])
  /\ tasks' = [i \in DOMAIN tasks |->
       IF i \in DOMAIN Placed(q.to) THEN Placed(q.to)[i] ELSE tasks[i]]
  /\ Ended(s, {"order"})
  /\ UNCHANGED <<roster, total>>

\* addAssignee decides from a count whether the newcomer leads.
LoadJoin(s, d) ==
  /\ Start(s, [op |-> "join", user |-> d, leads |-> Leads(roster) = {}, alone |-> TRUE])
  /\ UNCHANGED <<tables, settled>>

\* The partial unique index refuses a second lead.
WriteJoin(s) ==
  LET q == inflight[s]
      d == q.user IN
  /\ q.op = "join" /\ SeatFree(s, d)
  /\ q.leads => LeadFree(s, d) /\ Leads(roster) \subseteq {d}
  /\ roster' = [roster EXCEPT ![d] = [active |-> TRUE, lead |-> @.lead \/ q.leads]]
  /\ Ended(s, {})
  /\ UNCHANGED <<tasks, total>>

\* removeAssignee counts his tasks outside a transaction.
LoadLeave(s, d) ==
  /\ roster[d].active /\ d \notin Hold(tasks)
  /\ Start(s, [op |-> "leave", user |-> d, alone |-> TRUE])
  /\ UNCHANGED <<tables, settled>>

WriteLeaveKeepsFlag(s) ==  \* mutant: he is off the roster, and keeps the lead
  LET q == inflight[s] IN
  /\ q.op = "leave" /\ SeatFree(s, q.user)
  /\ roster' = [roster EXCEPT ![q.user].active = FALSE]
  /\ Ended(s, {})
  /\ UNCHANGED <<tasks, total>>

WriteLeave(s) ==
  LET q == inflight[s] IN
  /\ q.op = "leave" /\ SeatFree(s, q.user)
  /\ roster' = [roster EXCEPT ![q.user] = [active |-> FALSE, lead |-> FALSE]]
  /\ Ended(s, {})
  /\ UNCHANGED <<tasks, total>>

\* PATCH /tickets/:id/lead is one short transaction.
LoadHandOver(s, d) ==
  /\ Start(s, [op |-> "lead", user |-> d, alone |-> TRUE])
  /\ UNCHANGED <<tables, settled>>

WriteHandOver(s) ==
  LET made == Handed(roster, inflight[s].user) IN
  /\ inflight[s].op = "lead" /\ LeadFree(s, inflight[s].user)
  /\ roster' = [d \in User |-> IF d \in DOMAIN made THEN made[d] ELSE roster[d]]
  /\ Ended(s, {})
  /\ UNCHANGED <<tasks, total>>

RosterWrite(s) ==
  \/ \E d \in User : LoadJoin(s, d) \/ LoadLeave(s, d) \/ LoadHandOver(s, d)
  \/ WriteJoin(s) \/ WriteLeave(s) \/ WriteHandOver(s)

Reordering(s) ==
  \/ \E i \in DOMAIN tasks : \E target \in 0 .. LastPlace(tasks) : LoadReorder(s, i, target)
  \/ WriteReorder(s)

\* A statement fails, the server stops, or the database picks a victim among
\* transactions that wait for one another: all of it is rolled back.
Abort(s) ==
  /\ inflight[s] # Idle
  /\ inflight' = [inflight EXCEPT ![s] = Idle]
  /\ UNCHANGED <<tables, settled>>

WritesNext == \E s \in Slot : TaskWrite(s) \/ RosterWrite(s) \/ Reordering(s) \/ Abort(s)

WritesSpec == WritesInit /\ [][WritesNext]_vars

-----------------------------------------------------------------------------
WritesTypeOK ==
  /\ DOMAIN tasks \subseteq 1 .. MaxTasks
  /\ \A i \in DOMAIN tasks : tasks[i] \in Row
  /\ roster \in [User -> Seat]
  /\ total \in Nat
  /\ settled \subseteq Facts
  /\ \A s \in Slot : In(s, "promote") => inflight[s].holders # {}

(***************************************************************************)
(* However the writes overlap, whoever has the lead flag is active, and    *)
(* there is one lead at most.  The database sees to the second only; that  *)
(* a retired row never keeps the flag is up to the order of the writers'   *)
(* statements.                                                             *)
(***************************************************************************)
FlagOnlyWhileActive ==
  /\ \A d \in User : roster[d].lead => roster[d].active
  /\ \A d, e \in Leads(roster) : d = e

(***************************************************************************)
(* A ticket with a lead loses it only when he is taken off the roster: no  *)
(* task write and no handover leaves it leaderless, overlapping or not     *)
(* ("never removed by a task sync", assignment-sync.service.ts).           *)
(***************************************************************************)
LeadLostOnlyByLeaving ==
  [][ Leads(roster) # {} /\ Leads(roster') = {} =>
        \E s \in Slot : inflight[s].op = "leave" /\ inflight[s].user \in Leads(roster) ]_vars

(***************************************************************************)
(* A write that overlapped no other puts in step what it recomputes,       *)
(* whatever overlapping ones have left behind, and lone writes keep it so: *)
(* holders on the roster, the total the sum of the estimates, positions    *)
(* contiguous ("the next reorder or delete pulls the list back",           *)
(* tasks.service.ts; "recompute() is the repair path",                     *)
(* task-rollup.service.ts).                                                *)
(***************************************************************************)
LoneWritesRepair ==
  /\ "roster" \in settled => \A d \in Hold(tasks) : roster[d].active
  /\ "total" \in settled => total = Sum(tasks)
  /\ "order" \in settled => Contiguous(tasks)

-----------------------------------------------------------------------------
\* What TaskBoard sees of the tables: every user a developer who may be given a
\* task, the manager asking, and a task open as long as it is there.
People == User \cup {Manager}

Board == INSTANCE TaskBoard WITH
  User     <- People,
  RoleOf   <- [u \in People |-> IF u = Manager THEN "PROJECT_MANAGER" ELSE "DEVELOPER"],
  Eligible <- User,
  holders  <- Hold(tasks),
  open     <- DOMAIN tasks # {},
  roster   <- [ active |-> { d \in User : roster[d].active },
                lead   |-> { d \in User : roster[d].lead } ]

(***************************************************************************)
(* A request that overlaps no other is, statement by statement, what       *)
(* TaskBoard takes it to be: when it ends the tables have moved by one of  *)
(* TaskBoard's steps or not at all, whatever overlapping requests have     *)
(* made of them before.                                                    *)
(***************************************************************************)
LoneWritesAreSteps ==
  [][ \A s \in Slot : inflight[s] # Idle /\ inflight'[s] = Idle /\ inflight[s].alone
        => [Board!BoardNext]_(Board!boardVars) ]_vars

=============================================================================
