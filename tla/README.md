# Barmijly in TLA+

A verification development of Barmijly: the backend (`backend/src`, NestJS over
PostgreSQL through Prisma) and two pieces of the web client (`frontend/src`, React
Query): the one that keeps state across requests, and the one that decides again
which moves a ticket admits.  Barmijly is the ticket system of a programming
department: requesters file tickets, the department head approves them, a team
works them through tasks, testers and the owner accept the delivery.

Paths below are relative to `backend/src` of the repository unless they start
with `backend/` or `frontend/` or name a file at its root.

## 1. The system

One Node process (or several behind a balancer) answers HTTP requests.  It keeps
no state of record in memory: everything is rows in PostgreSQL.  A request loads
rows, checks what it loaded, writes, and then audits, notifies and mails.  The
isolation level is the database's default, READ COMMITTED, and most handlers
open no transaction at all, so the hard behaviours are those of requests that
overlap or stop halfway: a guard that was checked on a row another request has
since changed, two statements of which one fails, two readers of the same count.
There are no queues and no retries; one daily job (the digest) only reads.

The web client keeps a copy of what it shows.  Its ticket page edits that copy before
the server has answered, merges answers into it and puts the old copy back when a
write fails, while GETs of the same ticket cross those writes on the wire.

| Component | State it keeps | Operations that change it | What it must keep |
|---|---|---|---|
| Ticket workflow (`tickets/tickets.service.ts`, `tickets/transitions.ts`) | the ticket's status, work clock and pause columns, plan; the status history | submit, approve, assign, start, submit for testing, request changes, approve completion (two moves), block, hold, resume, close, reopen, force; edits of draft and plan | the history tells one unbroken story ending at the status; no work without approval; no stage skipped; clock and pause columns agree with the status; a resume returns to where work stopped |
| Roster (`tickets/assignment-sync.service.ts`) | assignment rows: active, lead | sync from tasks, add, remove, hand over the lead, replace by assign | one lead at most, and on the roster; task holders on the roster; task writes do not move the lead |
| Tasks (`tasks/`) | tasks with position, holder, status, blocking flag, estimates; rollups on the ticket | create, update, reorder, remove | positions contiguous; nothing starts below an open blocker; rollups equal the sums |
| Ticket relations (`tickets/dependencies.ts`, `tickets.service.ts`) | relation rows between tickets | add (create or retype), remove | blocking relations form a DAG; a start gate opens when prerequisites land, and the lead is told |
| Access (`access/`) | none of its own | – | the role matrix; who may see, be told of, hold a task on or file a ticket, of which the answers agree |
| Requirements, meetings, their files (`requirements/`, `meetings/`, `attachments/`) | requirements with a status and its history; a meeting and its ordered minutes; attachment rows and files | create, triage, decide, promote to a ticket, archive; hold, cancel, edit the minutes, capture a line; upload, delete | one ticket per conversion; a converted requirement stays converted, on its ticket's system; a held meeting is not cancelled; no owner holds a file twice |
| Bugs (`bugs/`) | bugs with a status and its history; links to a case, a suite and a ticket | file, edit, move, promote, archive | one ticket per bug, of its system; the resolved stamp agrees with the status; archived bugs stay as they were |
| Test suites, cases, steps (`testing/`) | suites and cases with states and results; ordered steps | author, publish, archive, record a result | what was run is never lost; `lastRunAt` agrees with the cases; a result has its audit row |
| Accounts (`invitations/`, `signup-requests/`, `auth/`) | accounts, invitations, sign-up requests, reset tokens | invite, resend, revoke, accept; request, approve, reject; forget and reset a password | an approved request has an account and an invitation; an accepted invitation has set a password; a spent token opens nothing |
| Memberships (`users/`, `systems/`, `access/membership.util.ts`) | which companies and systems an account is granted, and its home company | edit by a manager or the head, roster of a system, activate | a manager's edit changes the rows of his slice and none outside it; a company or its systems, never both; the home company follows the rows |
| The ticket on screen (`frontend/src/hooks/useTickets.ts`) | the cached ticket of a tab, the copies its writes have put aside | fetch, write, merge, roll back | a late GET takes nothing back of what a write owns; a failed write leaves no trace; a fresh GET is shown |
| The ticket page (`frontend/src/app/tickets/[id]/page.tsx`, `lib/permissions.ts`) | none of its own: what it has fetched | offer a button for each move | what is offered is accepted; what brings a ticket on is offered to somebody |
| Comments, notifications, e-mail, audit, digest, reports, hub | independent rows, files, mail | create, edit, delete | nothing else decides from them |

How they meet: every transition ends in `changeStatus`, the single writer of the
status.  Task writes call the roster's sync and the rollup in their own
transaction.  The gates of start and submit-for-testing read tasks, relations and
the roster.  A ticket that lands tells the tickets waiting on it.  Promoting a
bug or a requirement creates a draft ticket, in the second case possibly with a
lead.

The behaviours that are hard to test are listed, each at its line, in
`PROJECT.json` under `hazards`, with the properties that cover them or the reason
why none does yet.

## 2. The modules

| Module | What it is | Corresponds to |
|---|---|---|
| `TicketStatus` | pure: statuses, named sets, the clock, the resume target | `transitions.ts`, `dependencies.ts:6`, the enum in `backend/prisma/schema.prisma` |
| `Permissions` | pure: the role matrix for the actions asked here | `access/permissions.ts` |
| `TicketScope` | pure: what a role, a home company and grants let a user open, be told of, file against and choose | `access/access.service.ts` |
| `Assignments` | pure: what each roster write makes of a roster | `assignment-sync.service.ts`, the transaction of `assign` |
| `TaskBoard` | state machine: `holders`, `open`, `roster` | task create/update/remove and the roster endpoints, each one step |
| `TaskOrder` | pure: order and places of a task list, rebalance, moveTo, blockers, the task clock | `tasks/task-order.ts`, `testing/cases.service.ts:377-390`, `transitions.ts:83-103` |
| `Tasks` | state machine: `tasks` (the rows), `roster`; implements `TaskBoard` | `tasks/tasks.service.ts`, handlers taken whole |
| `TaskWrites` | state machine: `tasks`, `roster`, `total` and the transactions open on them | the same writes and `assignment-sync.service.ts`, `task-rollup.service.ts`, statement by statement at READ COMMITTED |
| `TicketWorkflow` | extends `TaskBoard`: the ticket row, its history, its plan; one action per endpoint | `tickets.service.ts`, handlers taken whole |
| `TicketRequests` | extends `TicketWorkflow`: requests in flight, failing statements, a dying server | the same handlers taken apart at their queries |
| `DependencyGraph` | pure: edges, closed sets, the cycle question, "no ring" | `loadDependencyEdges`, what `wouldCreateCycle` is asked |
| `Dependencies` | state machine: `relation`, `done`; handlers whole | `addDependency`, `removeDependency`, landing and reopening |
| `DependencyRequests` | extends it: the queries of the handlers, and the telling of dependents | the same, taken apart |
| `DependencyWalk` | state machine: one turn of the loop of `wouldCreateCycle` | `dependencies.ts:21-43` |
| `Backlog` | state machine: `requirements`, `moves`, `tickets`, `files`, `disk`, requests in flight | `requirements.service.ts`, `attachments.service.ts`, `attachment-clone.ts` |
| `Intake` | extends it: `meeting`, `points` | `meetings.service.ts` |
| `TestCases` | state machine: `suite`, `links`, `cases`, `results`, requests in flight | `testing/suites.service.ts`, `cases.service.ts`, `test-rollup.service.ts` |
| `Quality` | extends it: `bugs`, `bugMoves`, `tickets`, `relates` | `bugs.service.ts`, `bug-promote.ts` |
| `Accounts` | state: one address's sign-up request, account, invitation, reset tokens; requests in flight | `signup-requests.service.ts`, `invitations.service.ts`, `auth.service.ts` |
| `Memberships` | extends it and `TicketScope` to a state machine: `grants`, `home` | `users.service.ts`, `systems.service.ts`, `access/membership.util.ts` |
| `TicketCache` | state machine: the server's row, a tab's copy, its GET and writes | `frontend/src/hooks/useTickets.ts` |
| `TicketScreen` | extends `TicketWorkflow`, no state of its own: the buttons a user is offered, the requests the handlers take | the action panel of `page.tsx`, `TicketBlockPanel.tsx`, `canBlockTicket` and `canResumeTicket` |
| `MC*` | the small instances TLC checks | – |
| `RequestsProofs`, `TasksProofs`, `WritesProofs`, `DependencyProofs`, `IntakeProofs`, `QualityProofs`, `AccountsProofs`, `CacheProofs` | theorems | – |

### The ticket

`status` is the column.  `history` is the `TicketStatusHistory` rows, oldest
first, as `[from, to, forced]`; `forced` is what the audit row written with it
says (`FORCE_STATUS` or `STATUS_CHANGE`).  `started` counts the times `startedAt`
was stamped (0 is null), `completed` and `reason` say whether `completedAt` and
`pauseReason` are set, `deadline` whether `estimatedDeadline` is, `unmet` whether
a blocking prerequisite is unfinished (its own module is `Dependencies`; here it
may change at any time).  Wording, dates, comments and the other columns of the
plan are left out: nothing modelled decides from them.

`Write(to, forced)` is `changeStatus`: row, clock and history row in one step.
Every endpoint is an action whose conjuncts are the checks of its handler in their
order, then `ChangeStatus`, or `Write` with the columns the handler adds.
`Assign` includes the roster transaction before the move.  The users of the model
are those who may see the ticket; `Eligible`, `Creator` and `NamedOwner` are the
answers of `filterMentionable` and the columns it reads.

`TaskBoard` keeps of the tasks what the rest of the ticket reads: who holds at
least one, and whether one is open.  Where a handler's effect depends on the
task rows left out (was this the holder's only task?), the action allows either
outcome.  Creating, handing over and removing a task contain the sync, as in the
transaction of the code; which holder an unordered query returns first is a free
choice.

### Tasks

`tasks` is a function from task to row, numbered in the order of creation, which is
what `createdAt` is for.  A row keeps position, holder, creator, status, the blocking
flag and whether each stamp is set; titles, dates and estimates are left out.
`Create`, `Reorder`, `Update` and `Remove` are the handlers of `TasksService`, each
with its transaction and the roster sync in it; a PATCH that sets status, holder and
flag at once is one `Update`.  What the code does to an array (`moveTo` takes a row
out and puts it back, `rebalance` walks the sorted rows) is said with the place of a
row, the number of rows above it.  `Board == INSTANCE TaskBoard WITH holders <- ...,
open <- ...` maps the rows to what the ticket sees of them; `RosterAgrees` (the board's `LeadOnRoster`
and `HoldersOnRoster`) and `TaskWriteKeepsLead` are the board's properties, asked of the rows.

`TaskWrites` is about the same writes when they overlap.  A transaction is a record in
a slot: the rows and seats it has written (and so locked), the task it has deleted,
what it has read, and the statement that comes next.  `SeenTasks` and `SeenRoster` are
what READ COMMITTED lets a statement see, committed rows and its own; a write waits
(is not enabled) while another transaction holds one of its rows, and `Abort` is an
error, a stopped server or the victim of a deadlock.  The partial unique index on the
lead is `LeadFree`.  The comments in the code promise that "a task and its assignee can never
disagree"; that is not so when transactions overlap, and what the model claims instead
is what makes it bearable: `settled` records which of roster, total and positions a
request that overlapped no other has recomputed since, and `LoneWritesRepair` says that
those are right, whatever overlapping writes had left there before.

`Board == INSTANCE TaskBoard WITH ...` is the refinement: every user of `TaskWrites` is a
developer who may be given a task, and `Manager` is who asks.  `LoneWritesAreSteps` says
when it may be relied on: a request that overlapped no other has, by the time it ends,
moved the tables by one step of `TaskBoard` or not at all, however many statements it took
and whatever state it found.  An overlapping one need not.

### Requests

A request of `TicketRequests` is a record in a slot: `Load` takes the copy of the
row the handler will decide from; `Decide` answers the later queries (lead, open
tasks, prerequisites, history) together; an assign first commits its roster
(`AssignRoster`); then the row update and the history insert of the
`Promise.all` happen in either order, each may be lost (`FailWrite`), and the
server may die in between (`Crash`).  `WriteRow` stamps the clock from the loaded
copy onto the current row, as the code does.  The two columns `pauseReason` and
`status` travel in the one update.

`Workflow == INSTANCE TicketWorkflow WITH ...` is the refinement: a request takes
effect with the first of its two writes; what it still owes is filled in, and a
roster that assign has committed without having moved the status is taken back.

`DependencyRequests` does the same for relations: the graph is checked
(`LoadEdges`), the row looked up (`FindExisting`), then created or changed
(`WriteEdge`, which fails where the unique index or a vanished row makes it).  A
ticket that lands has its dependents listed, counted one at a time, and told.
`cleared` records which tickets a landing has freed that nobody has told yet; it
is an observer and guards nothing.

### Requirements, meetings and files; tests and bugs

These handlers all load, decide and write later, and few of them open a transaction
before they have decided.  A request is therefore two steps, `Load...` with the guards
and the write with whatever it wrote down; the writes of one `$transaction` are one step,
except those that restamp a suite (`Begin`, `Commit`), where what a transaction at READ
COMMITTED aggregates over is the point.  `Drop` is a request that fails or a server
that stops between the two.

The properties come in two kinds.  `RecordsAgree` and `StatusesAudited` hold however
requests overlap: what is written in one transaction, or guarded by a constraint of the
database.  The others (`Undisturbed...`) hold as long as no request has written on the
strength of a row that had changed since it was loaded, which `overlapped` records.  The
code does not check for that, so the second kind is exactly what a version column or a
transaction around the load would make unconditional (section 5).

A file and its rows are apart: rows are a bag of owner and URL, `disk` the files there
are.  Capture and promotion copy rows.  An upload to a requirement lists the tickets
there are and then copies its row onto each, one statement at a time.

### Accounts

None of these handlers opens a transaction, so every statement is a step and `Drop` may
come between any two.  A check that a unique index repeats (an address is used once) is
one step with the write behind it: the second of two such writes fails.  An address is
independent of every other one, so one is modelled: its sign-up request, account,
invitation and reset tokens, the account's password as the fact that there is one.
`issued` numbers the tokens; `spent` records those whose request has been answered and
`overlapped` that a write was decided from a row that had changed, and neither guards
anything.  The role is a developer's or a tester's, which a project manager may edit.

A PATCH of the grants is `LoadEdit`, two deletes and `Rewrite`.  `began` is what it loaded, `left`
what it believes to be there after its deletes, `to` what it will insert; the insert fails
(`RewriteFails`) on a row that is still, or again, there, and what was deleted stays
deleted.  The same update writes the home company (`home`, `HomesOf`): one of the companies
it inserts, of a manager's those outside his slice first, or none.  `SetHome` is a PATCH
of the profile, `Create` and `Add` are the accounts born with one.  Deactivated systems belong to a company that does not cover them.

`TicketScope` is the scope rules over one user and one ticket as he stands to it: he filed
it, is named its system owner, works on it (an active assignment or a task), was mentioned.
`CanView` is the database filter of `ticketScope`, `Admitted` the list check of
`filterMentionable`, `VisibleCompanies` and `VisibleSystems` what there is to choose from,
each written as its own code writes it.  `ReachAgrees` asks of the grants that the edits,
rosters and failures leave behind that the four agree, and names the exceptions: those are
clauses one rule has and another lacks (section 5).

### The ticket on screen

`log` is the row on the server, one entry per write; its `updatedAt` is the position in
the log, in steps wider than the client's ticks.  Of its columns `status` and `plan` are
among those `keepNewerTicket` defends, and `note` stands for those it does not, which the
buttons write with the status: why and by what a ticket is stopped, when it was started
and completed, the notes of its closing.  `thread` stands for what hangs off the
ticket and does not touch `updatedAt`.  `Mutate`, `Succeed` and `RollBack` are `onMutate`,
`onSuccess` and `onError`; at most one GET is on the wire, because React Query gives up
the one before, and a write cancels it.  `ServeMove` answers with the row its own update
returned; a plan edit, and of the moves the assignment, is stored by `Save` and answered by
`AnswerSaved`, a read after it.  After a move the tab fetches again; after a plan edit it
does not, and a GET that was on the wire stays there.  `of` is carried along to say which write of
the server a copy stands on; nothing reads it but the properties.

### The ticket page

The page decides by itself which moves to offer: every guard of the handlers has a
second copy in the client, in the conditions around its buttons.  `Screen(u)` is those
conditions, a record with one entry for each button; `Accepts(u)` has the same
entries, each the checks of the handler that the button's request runs: in `TicketWorkflow`
an action is `TakesX`, what its handler checks, and the write it leads to.  `PageAgrees` compares the two in every state a ticket can get to, in both
directions: `OfferedIsAccepted` (the claim of `page.tsx:877`, less `KnownRefusal`) and
`NoDeadEnd`, that a ticket some request would bring on has somebody who is shown the
button for it.  The second is not an equivalence per user: a draft can be submitted by
leadership through the API and only by its creator on the page.  The page is taken as
it stands after its queries; a page with an old copy is `TicketCache`.  The button of the
manual override, the estimate fields, archiving and the roster panel are left out.

### The walk

`DependencyWalk` is the loop itself.  The queue is a set, since the rows come in
whatever order the database returns them.  `WalkEnds` says that it stops, and
`TurnsUseUpTickets` why: each turn that goes on takes a ticket that was never taken before.

## 3. The runs

Twelve runs; `PROJECT.json` names the properties and, for each property of a
passing run, a mutant of the code under which TLC finds it violated.  The mutants
are operators beside the ones they replace, each with a comment `mutant`.

| Run | Instance | Shows |
|---|---|---|
| `tasks` | a manager and a developer, lists of up to three rows | positions, blocking rule and task clock through every order of create, move, update and removal; the list and the roster implement `TaskBoard` and keep lead and holders on the roster |
| `writes` | two users, two estimates, two slots, two rows | one lead at most, and active, however writes overlap; the lead is lost only by leaving; a lone write repairs holders, total and positions, and is one step of `TaskBoard` |
| `rounds` | head, developer, requester; histories of 10 rows, or of 5 once one of them is forced | type, chain, approval, stages, clock; a resume never strays; the ticket page and the handlers agree |
| `serial` | one slot, no failure, 5 rows | requests one at a time implement `TicketWorkflow` |
| `races` | two slots from a scheduled ticket, one failure, 6 rows | whatever overlaps: recorded moves are moves of the workflow, and the status that is left was recorded |
| `relations` | three tickets, two slots, one blocking relation drawn at a time | DAG, refinement of `Dependencies`, nobody freed is left untold |
| `walk` | every graph on three tickets | the walk ends, with the right answer |
| `intake` | a meeting of two lines, a requirement, two tickets, a file, two slots | history, tickets, lines and files agree in any order; undisturbed, a conversion is final and a held meeting stays held |
| `quality` | two cases, or a case and a bug; two systems, two slots | results and statuses have their audit rows in any order; undisturbed, the suite's stamp is right, nothing that was run is lost, a bug's links agree |
| `accounts` | one address, two sign-up requests, three tokens; two companies with four systems, two slots | approved means an account and an invitation, spent tokens stay spent, in any order and through any failure; undisturbed, reviews and invitations do not go back and an edit of the grants leaves the rows outside its slice, and a home company the rows grant; the rules of reach agree for whatever grants are left, in every role and home company |
| `cache` | two writes of the tab, three of the server, one comment | status and saved plan on screen are one row's; the other columns lag only after an answered plan edit; late GETs take back nothing that is defended; fresh ones are shown |
| `resume_loop` | as small as shows it | where the code does not keep what a document says (section 5) |

**Bounds.**  `MaxHistory` caps the history.  A round from filing to closing takes
eight rows, so ten hold a full round with a stop and its resume, or a rejection
with a reopen and the way back to work.  Forces multiply the states (any status to
any), so histories with one are cut at `MaxForced`: five rows are enough to force
a ticket anywhere, stop it there and resume it.  `MaxForces` bounds their number.
`races` starts from a scheduled ticket, the latest point from which start, block,
hold, resume and testing are all within three rows, because two slots multiply
every state by some hundreds.  `MaxFailures` bounds lost statements and crashes.
Two slots suffice for the races of the code: each is between the check and the write
of one request and the write of another.  Three tickets give rings of two and of
three, chains, and two prerequisites of one ticket that land at once.  Users who have the same role
and grants are interchangeable; the instances have one per role that matters.
`MaxNodes` is 200 in the code; the run sets it to the number of tickets, and the
theorem covers every value that is no smaller than that.

`MaxTasks` bounds the rows and the target of a move; three rows are what it takes to tell
a move that shifts the rows between from one that swaps two.  The constraint
`FewSpecial` allows one blocking row and one row of the developer's own making at a
time, which is what the rules about them are asked of; the theorems need neither bound.

`writes` has two rows and two users, enough for each to hold one, and for a third request
to find what two overlapping ones left.  Its constraint `OneEstimate` keeps the two
estimates apart only on the first row, and while two requests overlap only if there is no other.  `intake` and `quality` (constraints `FewAtOnce`)
do not multiply what does not meet: two lines of minutes while nothing has been captured
or filed; two cases while there is no bug; a meeting that is over, or a suite that is
moved, only without what hangs off it; histories of three rows, of which the last is
a move back.  In `accounts` grants are edited on an active account with no invitation, sign-up
request or token, at home nowhere or in the company outside the manager's slice, one edit at
a time beside the roster, and passwords
are reset beside no request of another kind; three tokens are an invitation's or a reset's
first, its renewal, and a renewal of that.  In `cache` three writes of the server are what it takes to have one of
the tab's, one of somebody else's, and a row from before both.  Once a failure has put
back another write's unsaved edit (section 5), its constraint `FewPastTangle` leaves two,
and stops where the tab's ticks, which nothing bounds there, reach the next row's stamp.

**Fairness.**  The ticket and relation models have none: their steps are people's
decisions, and no code makes anybody press a button, so nothing is promised to
happen.  What one would like to state as liveness is stated as safety where it can
be (`WayClearedIsTold` when no request is in flight; `SomeoneCanStart`, which follows
from the DAG and is proved from it).  Only
`DependencyWalk` has weak fairness: it is a synchronous function, which runs to its
end once called.

**Deadlock** is checked except in `walk`, whose function stops when it has
answered.

## 4. The theorems

All of them hold for every value of the constants, the bounds included, under the
assumptions named beside the constants.

*Board* (`RequestsProofs`, at its start).  `LeadOnRoster` is inductive together with the types.
`HoldersOnRoster` is inductive because every write of holders ends in the sync and
the only removal refuses a holder.

*Tasks* (`TasksProofs`).  `PlacesNumber`: in any finite list the place of a row, the
number of rows above it, is a numbering from 0 that follows the order (it is
injective because the order is total, and an injection between sets of one size is
onto).  So what `rebalance` writes is contiguous (`RebalancedRight`), and so is what
`moveTo` writes, in the old order but for the moved row (`MovedToRight`).  `ListInv`
adds to the types that positions are contiguous and that stamps agree with statuses;
each handler keeps it.  `TasksImplementBoard` maps each to a step of `TaskBoard`, so
that what a board keeps holds of the rows: `ListRosterAgrees` and
`ListTaskWriteKeepsLead` are the board's theorems, proved of the instance `Board`
and carried over by that mapping.

*Task writes* (`WritesProofs`).  Transactions at READ COMMITTED, any number at once.  A
transaction holds the rows of the roster it has written.  `LeadInv` says of each that it
either leaves the flags of those rows as they are (`LeavesFlags`), or has made the one
lead there will be (`MakesLead`): then it holds the rows of all who lead, and no other
transaction has a lead among its rows.  The second is where the partial unique index
enters: a statement that sets the flag waits for, or fails on, whoever else has it.  A
commit of either kind keeps `OneLead`, so `LeadFlags` holds with any number of slots,
and `LeadStays` because only the row of a leaver loses its flag without another gaining it.

`LoneWritesKeepInStep` is about the requests that overlap no other.  Of overlapping ones
nothing more is kept than what they carry (`Typed`); but while one is alone every other
slot is idle, so the tables stay as it found them, and `LoneSound` can say of them what it
is about to leave: the holders it read are those of the rows it will commit
(`AsSeen`), each of them is active among the seats it holds, its total is the sum of those
rows, and the positions they take are contiguous (`RebalancedContiguous`,
`MovedToContiguous`, `AppendedContiguous`).  At the commit each fact is either one of
these, or one the write cannot have disturbed: an update that names no holder leaves the
holders alone, one that names no estimate the sum.  No property of addition is needed: a
sum is only compared with the sum of the same rows, or with that of no rows.

`LoneWritesAreUnits` adds what `TaskBoard` would say of a lone request (`Whole`): the one row
it makes, hands over or removes (`BoardRows`), and how far its sync has come.  `Told` is a
roster as `TaskBoard` has it.  After the statement that reconciles the seats the roster it
would leave is `Reconciled` of the one it found; after the one that promotes it is one of
`SyncFromTasks` (`BoardSeats`).  Each statement of the sync is such a function of the seats
alone, so no later one needs to know what the tables were before; at the commit the rows and
the roster are those of `Create`, `Update`, `Remove` or a roster endpoint, and an abort, a
retirement with nothing to retire and a plain edit are no step.  `SerialWritesRefine` is the
refinement itself, for one slot: nothing ever overlaps there (`WholeInv`), so each request
is alone and each of its other statements leaves the tables as they are.

*Ticket* (`RequestsProofs`, first half).  The inductive invariant is `Inv == TypeOK /\
LeadOnRoster /\ HistInv /\ ClockInv`.  `HistInv` needs more than the chain and the
approval: a resume reads its target out of old rows, so that the status it gives
back was approved has to be an invariant of *stopped* tickets as well.
`StoppedWorkApproved` says that: if the row that stopped the ticket came out of
development, the round has its approval or a forced row.  `OpeningFirst` keeps the
null `from` of a promoted ticket at the head of the history, where it leads to no
stop.  Under the two the newest row of a stopped ticket is the one `/resume` reads
(`ResumeReadsLast`).  `ClockInv` is `ClockMatchesStatus` with the types it reads.

Without a force two more follow.  `ResumesHome`: that newest row came out of the status
the ticket was first stopped in, or out of a stop (`StandingIsLast`), and `/resume` gives
back what it came out of.  `StagesInOrder`: where a ticket stands is the status, or what
the newest row says that stopped it while it ran.  There is such a row as long as it is
stopped (`StopInv`), and further stops and resumes leave it alone (`StandingAfter`).  So
each move goes to the stage after the one the ticket stands at, or to one it has been at
in this round (`StageInv`).

*Ticket page* (`RequestsProofs`, between the two).  `PageKeepsItsWord` needs no invariant: the
page and the handlers read the same ticket, and the two sets of guards agree in any state it
might be in, for any assignment of roles.  `MatrixOfWorkflow` works out what the role matrix says
of the actions asked; then each button is compared with its handler (`EachShownIsTaken`,
`EachTakenIsShown`).  Where the page is the stricter one the other user is named: a draft that
leadership may submit is offered to its creator (`SubmitIsShown`).

*Requests* (`RequestsProofs`, second half).  Any number of requests in flight, any failures.
`RequestInv` is about what a request carries: the status it loaded is one its endpoint
accepts and its target one the endpoint moves to, so the row it may write at any later
time is a move (`TimelineShowsMoves`).  `Recording` counts the rows still to come: while
nothing has failed, a status is recorded or the request that wrote it has its history
row before it (`RaceIsRecorded`).  `OneAtATime` is the refinement, for one slot and no
failures.  `SerialInv` keeps what the handler has checked until its first write
(`Promised`): nothing but the request itself moves, so the guards it passed still hold
then.  `FirstWrite` makes that write the handler's step in `TicketWorkflow`; the loads and
the second write change nothing that is told.

*Relations* (`DependencyProofs`).  "No ring" is stated without recursion: in every
set of tickets there is one that waits on none of the set.  `CheckedEdge` is the
heart: if the blocked ticket is outside some closed set around its prerequisite,
then a group of tickets that meets this set has its free member inside it, and one
that does not meet it is not touched by the new edge.  `DAGStays` follows for
handlers taken whole, and `NoDeadlock` from it (take the group of the unfinished
tickets).  `RequestsImplement` needs `ReqInv`: at most one request is between its
check and the write of a blocking row, so the graph it checked can only have lost
edges (`FewerEdges`), and the check still holds when it writes.

*Who is told* (`DependencyProofs`).  `LeadsAreTold` needs no limit on how many requests
draw, land or reopen at once.  `ClearedIsHeld` strengthens it to requests on their way:
the lead of a ticket that a landing freed is on the list of some request
(`ToBeTold`: its landing is committed and the list not yet read, or the ticket is still
to be counted, or to be told), and the ticket is still free.  The last landing is the one
whose list holds it: a count that comes out unmet belongs to a ticket that is not
`cleared`, so striking it off loses nobody.

*Walk* (`DependencyProofs`, at its end).  `WalkInv`: what has been seen lies in every closed set around
the prerequisite, what has left the queue has its own prerequisites seen, and the
blocked ticket has not been seen.  With an empty queue the seen set is closed, which
is the answer.  The assumption, that there are no more tickets than `MAX_NODES`, is
where the limit enters.  `WalkVisitsOnce` is the variant of the loop: what has been taken
off the queue, `seen \ queue`, grows by a ticket with each turn that goes on, so there are
no more turns than tickets.  That a bounded function under weak fairness ends is the
step from it to `WalkEnds` that is left to TLC.

*Accounts* (`AccountsProofs`).  `AccountsInv` adds to the types and the agreement what
the requests in flight know (`Tells`): one that is about to approve has an account and
an invitation behind it, one that is about to accept has set a password.  Every statement
only adds (`OnlyAdds`): no account, password or invitation goes away and a used token
stays used.  So what a request has done is still there at its next statement, whatever
other requests do and wherever it stops (`EntryAgrees`).  Tokens are numbered as they are
mailed, so a new one is never mistaken for one that was spent.  `ReachAlwaysAgrees` goes by
roles: `Matrix` computes what the matrix says of reading, and with the role fixed the rules
differ by the named clauses only; for filing, a slice holds both sides of each grant
(`SliceHolds`).  `EditsReachInside` reads an edit at the level of what it is for: outside
his slice a manager opens nothing, and leaves to a developer exactly what the rows gave him,
since what a company that stays covers is reached through it; to a tester too, unless the
edit gives the first grant or takes the last.  What a home company outside the slice gave
beyond the rows is gone after it (section 5): afterwards the home company is one of the
companies granted, so that it adds nothing to them (`HomesAreHomes`).

`UndisturbedAlways` rests on what a request has loaded (`LoadedInv`): it decided from a
row that was still pending, an edit of the grants carries what it began from with what its
deletions have left (`LeftBy`), and the request that created the account is the only one to
write the invitation.  `overlapped` says when the row under a request has changed, so while
it is false what was loaded is what is there: an answered request or invitation takes no
second answer, and `Merged` of what the edit began from is `Merged` of the grants it
rewrites.  The home company needs no such care: nothing is decided from the one before.

*Requirements, meetings and files* (`IntakeProofs`).  `IntakeInv` has two layers, as the
properties have.  Whatever overlaps, `OneStory` holds of each requirement: its newest history
row is its status and it has as many tickets as conversions, because each write that moves
one of these moves the other in the same transaction.  A requirement points at no line
that is gone: a capture is refused when its line is, and a removal unlinks.  `FilesInv`: each
row is one file of one owner there is, once; a copy goes to an owner whose number is
new, or is asked of the rows as they are when it is written.  `Carries` is what a request knows: its guard held of the row it loaded, and the
positions it will write are right for the lines it loaded.  That says nothing of what is
there when it writes, unless what it loaded still is; so the second layer,
under `~overlapped`, needs nothing of the requests but `Carries`: a triage or a decision
that finds its row unchanged finds one that is not converted, hence without tickets, and the
three writes to the minutes leave them contiguous (`AppendedContiguous`, `MovedToContiguous`,
`RebalancedContiguous`).  `RewrittenKeeps` is the step all writes share that open no
requirement and move no status.  `UndisturbedMeetingAlways` reads the same off a single step.

*Tests and bugs* (`QualityProofs`).  `QualityInv == SuiteInv /\ BugInv`.  The result of a
case is recorded by a transaction in several statements, so what the rows say of one
another is not inductive without the transactions still open: `OpenRow` says that an open
one has the row as it locked it with its own change alone, the history row that tells this
change, and as its stamp the latest of the runs its aggregate saw and its own.  `OneLock`
(two transactions never hold one case) keeps the others from moving that row.  A request
that has loaded and not yet written knows less: `TestRequest` and `BugRequest` keep what
no later step takes back (a case it loaded as run is no draft, case numbers are not given
twice).  From these `QualityTyped` and `RecordIsAudited` follow however requests overlap
and wherever they stop.  The parts under `~overlapped` are those of `SuiteStaysConsistent`:
the stamp (`LatestOf`), the two archive columns, places without ties (`MovedIsNumbered`:
the list move writes one place each, whatever was there) and results that chain.
`RecordIsKept` is the action property on top: a step undisturbed keeps every result, and
what an archived case or bug and a bug on a ticket promise.  `QualityAssumption` says that
the tickets on file fit into `MaxTickets`; without it no ticket list is within its bound.

*The ticket on screen* (`CacheProofs`).  A copy is described by the row of the server it
stands on (`of`) and the edits shown over it that nothing has confirmed: each adds a tick to
its time (`Ticks`), and a time between two stamps of the server is an unconfirmed edit.
`CopiesAreReal`: the cached copy, and the ones writes have put aside to roll back to, have
the status of their row, and its plan unless an edit is shown; answers are rows outright.
`EditsOnTheWay`: there are no more unconfirmed edits in the cache than writes on their way,
while no rollback has put one back (`seen.tangle`).  So with none on the way no
edit is shown that was not saved, and a stamp the server gives later exceeds every time the tab makes up,
since the stamps are further apart than there are slots: a newer GET always wins
(`FreshIsShown`).  `AloneIsLatest` is what a tab whose writes never overlapped has besides:
nothing it holds is older than what it saved.  The columns that are not defended come from
whichever GET landed last, which is older than the row kept from it: they lag (`NotesLag`).
They are the row's own as long as no plan edit was answered (`NotesOfTheirRow`), because
every other way to a newer row gives up the GET on the wire: a write when it leaves, a move
when it succeeds.  `ShownIsReal` reads its clauses off these parts.  The slots are assumed to be finitely many,
which the requests of one tab are.

Only model-checked, and why:

- `WalkEnds` is liveness, which is out of the prover's reach; the variant its argument
  rests on is `WalkVisitsOnce`.
- `ResumeUnwinds`, which is false.

## 5. Where code and documents part

Shown by a run:

- `resume_loop`: block, hold, resume, resume.  The newest row that entered a hold is
  the first resume's own, and the ticket goes back and forth between the two
  (`GUIDE.md:195`).

Shown by runs that have given way to those of other components:

- a ticket stopped in testing, given a task and resumed is with the testers again with
  open work (`tickets.service.ts:1249` against `GUIDE.md:202-203`);
- two overlapping moves leave `completedAt` on a ticket that is not done
  (`tickets.service.ts:1371` against `backend/prisma/schema.prisma:290`);
- when the history insert of a hold fails, the resume makes up a target, `APPROVED`, for a
  ticket nobody approved (`tickets.service.ts:1368` against `req.md:124`);
- two requests each check a graph without the other's edge and close a ring
  (`tickets.service.ts:1051` against `backend/prisma/schema.prisma:346-347`);
- deleting an attachment unlinks a file that copies of the row still name
  (`attachments.service.ts:175` against `:91-94`, "A file on the requirement should follow it
  onto any ticket already opened");
- a plan edit is on its way and shown, and another write is started over it.  Both fail.
  The second one's `onError` puts back the copy it had put aside, with the first one's edit
  and its later stamp; `keepNewerTicket` then prefers that copy to every GET, until the
  server writes the row again (`useTickets.ts:190` against `:74-76`, "the ticket stops
  updating for the rest of the session").

What the word *undisturbed* in the properties of `intake`, `quality` and `accounts` leaves open, each
found by dropping it:

- a decision overlapping a promotion overwrites `CONVERTED` (`requirements.service.ts:354`),
  and one PATCH overlapping it moves a converted requirement to another system;
- hold and cancel overlapping leave a held meeting cancelled (`meetings.service.ts:626`),
  and two lines added at once share a position (`:352`);
- two promotions of one bug make two tickets, of which the bug names one (`bugs.service.ts:451`);
- two results recorded at once each aggregate without the other, and the suite's stamp is
  that of the later commit, not of the later run (`test-rollup.service.ts:65` against
  `:46-49`, "can never disagree");
- a case published and run between the load and the delete of `remove` takes its results
  with it (`cases.service.ts:312` against `:283-285`, "nothing is deleted");
- approve and reject of one sign-up request overlapping end with a rejected request and an
  account; a resend overlapping an accept or a revoke reopens the invitation; two
  forgot-password requests leave two tokens (`auth.service.ts:61`, "Invalidate any existing
  tokens").

In the same way `writes` shows what overlapping task writes leave until the next one: a
holder off the roster (`tasks.service.ts:108-109`, "a task and its assignee can never disagree"), a
total without a row, two rows in one place.

Met while reading, without a run of their own.  Tickets: assign replaces the roster without asking who holds a task
(`tickets.service.ts:521` against `GUIDE.md:223`, "Holding a task on a ticket makes you an
active assignee on it"); the lead may be removed
(`assignment-sync.service.ts:100`) although `backend/GUIDE.md:160` says it is refused;
the sync promotes a holder who is no developer (`assignment-sync.service.ts:61`), who
then may not start the ticket he leads; a developer added by hand is retired by the
next sync (`:48` against `:16`); a conversion to a project parks a ticket without the
written reason `req.md:68` asks for; two overlapping moves leave a history that does
not chain, and two overlapping starts both stamp `startedAt` (`transitions.ts:64`).
Requirements and meetings: `update` lets a requirement's source be set to `MEETING`
(`requirements.service.ts:262`), which `create` refuses so that the source stays honest
(`:184-186`); a line of a cancelled meeting may be captured (`meetings.service.ts:518`).
Files: an upload to a requirement that overlaps its promotion may miss the new ticket.
Tests and bugs: no operation on a case but creating one asks whether its suite is archived; a
bug that adopts a case of another system stays on its ticket of the old one
(`bugs.service.ts:279`).
Accounts: approve that stops after the account, or an invitation of an address whose request
is pending, leaves a request that can never be approved (`signup-requests.service.ts:43` with
`invitations.service.ts:34-35`).  The head's PATCH that names one of companies and systems deletes
that one and inserts both (`users.service.ts:276-299`): with rows of the other it fails, and the
deleted ones are gone (`users.service.spec.ts:195`, "replaces company links rather than
appending them"); when it succeeds with a company and no systems, systems the company
covers stay beside it, as they do when a roster adds one (`systems.service.ts:102` against
`membership.util.ts:23-24`, "never both").  A manager's PATCH that names only companies drops
the systems of his slice he has no grant on, and an org-wide manager's that names only
systems drops every company, because `includes` of a null is no (`users.service.ts:370-375`).
An edit of the grants overwrites the home company with one of the companies it inserts, or
none (`users.service.ts:392-394`, `:288-290`, against `membership.util.ts:44-45`, "grants
outside the portfolio stay untouched"): a home company outside the manager's slice that no
row grants, as `POST /users` sets one, counts as membership (`access.service.ts:65`), and a
developer or system owner loses what he reached through it.
An edit that stops between its statements leaves no grants at all (against
`membership.util.ts:44-45`, "grants outside the portfolio stay untouched"), which for a tester
means everything: without a grant he is org-wide, as he also is between the statements of an
edit and after one that takes his last grant (`access.service.ts:80-82`).
Scope: a developer without grants may file against any system (`access.service.ts:233`), but his
reading has no clause for what he filed (`:124-131`), so outside his home company he can
neither open nor submit his draft.  A user named as a ticket's system owner who is not one
by role, which promotion of a requirement allows (`requirements.service.ts:461`), may be
mentioned and given tasks but cannot open it (`access.service.ts:420` against `:389-391`, "users
who can actually open the ticket").  A tester with a portfolio who holds a task loses the ticket
when his grants move: only a developer's reading asks about tasks.
Web client: `keepNewerTicket` defends eight columns (`useTickets.ts:43-52`), "the only columns a
just-landed write owns" (`:33`), but the moves also write `pauseReason`, `blockedByTicketId`,
`startedAt`, `completedAt` and `closureNotes`.  A GET is served, somebody else puts the ticket on
hold, and a plan edit of the tab is saved and answered, with the hold in the answer; then the GET
lands, and the page shows a ticket on hold without its reason, a row the server never had,
until the next GET.  The thread is not defended either, on the ground that "the fetched copy
is always at least as new" (`:37-41`): that same GET takes back a comment the answer brought.
An answer to a plan edit that is merged late puts back the status it was read
with, until the next GET.  "A visible button is always one the API will accept"
(`frontend/src/app/tickets/[id]/page.tsx:877-878`): the start and submit-for-testing buttons
are shown to every developer (`:2063`, `:2068`) where the handlers ask for the lead
(`tickets.service.ts`, `requireLead`), and start is shown while prerequisites are unfinished,
which the neighbouring button does ask (`KnownRefusal`).  The other way round the page
has no decision for a ticket forced to AWAITING_APPROVAL, and no hold for a blocked
one, so the loop of `resume_loop` takes a request the page does not make.  A failing task update does not settle the
list whose refetch it cancelled (`useTasks.ts`).

## 6. Not modelled

Profiles and roles of accounts, changing one's own password, and the administration of
companies, systems and departments: rows written one at a time, from which the modelled
parts read only roles and grants.  Archiving, duplicating and editing draft tickets; the timeline
and every list, report and digest (they read); mail and notification delivery; steps of
cases and bugs, attendees of meetings, wording everywhere; the content pages of the hub;
the web client beyond its cached ticket and the buttons of the ticket page (its lists are
refetched whole, its screens hold no state of record); migrations.  In the ticket and task models the users are those who may see
the ticket; how that follows from roles and grants is `TicketScope`, where a requirement as
the thing reached, and the gates on structure administration, are left out.

`Decide` of `TicketRequests` answers a request's later queries at one moment, where the
code asks them one after another: a gate that closes between two of them is the same race
as one that closes between the last of them and the write, which is modelled.  In `Backlog`
and `Quality` a transaction is one step: a write to the row it is about locks it, early in most and after
the ticket has been created in the two promotions, which nobody else can see before they
commit.  A PATCH of a bug changes one link at a time there.

## 7. Plan

1. Done: the ticket and its requests, the roster, tasks whole and taken apart, relations,
   requirements with meetings and files, tests with bugs, accounts and memberships, the
   ticket on screen, the ticket page's buttons, and who may reach a ticket.
2. The task list on screen (`useTasks.ts`), whose moves are optimistic too.
3. Proofs: every invariant and action property the runs check is proved.  Left is the same
   correspondence for the other handlers taken apart, as `SerialWritesRefine` has it for
   tasks: specifications of requirements, bugs and accounts with each handler one step.

The number of runs stays at a dozen, so that all of them are quick to repeat: as
components are added, runs of section 5 give way to theirs and the divergences they
showed stay in the list there.
