------------------------------ MODULE Quality -------------------------------
(***************************************************************************)
(* Bugs (bugs/bugs.service.ts) over the suite they may be found by: a bug  *)
(* takes its system from its case, may be linked to a ticket of that       *)
(* system, and may be promoted to one.  As in TestCases a request is a     *)
(* load and a write; the transactions here are one step each, for they     *)
(* begin by locking the bug.  Who may edit, severity, assignees, steps,    *)
(* wording and notices are left out.                                       *)
(***************************************************************************)
EXTENDS TestCases

CONSTANTS BugStatus,   \* the statuses told apart
          Resolved,    \* RESOLVED_STATUSES among them
          MaxBugs, MaxTickets, MaxMoves  \* bounds on rows and on a bug's history

ASSUME QualityAssumption ==
  /\ "OPEN" \in BugStatus /\ Resolved \subseteq BugStatus \ {"OPEN"}
  /\ MaxBugs \in Nat /\ MaxMoves \in Nat
  /\ MaxTickets \in Nat /\ Len(Filed) <= MaxTickets

VARIABLES bugs,       \* Bug rows, numbered as filed
          bugMoves,   \* BugStatusHistory: the statuses each bug went to, with the one it left
          tickets,    \* tickets: their system, and the bug they were promoted from
          relates     \* TicketDependency rows of type RELATES_TO

bugVars == <<bugs, bugMoves, tickets, relates>>
vars == <<suiteVars, inflight, overlapped, bugVars>>

\* inSuite is suiteId: set with the first case, and kept when the case is cleared.
Bug == [ status : BugStatus, resolved : BOOLEAN, archived : BOOLEAN, system : System,
         case : 0 .. MaxCases, inSuite : BOOLEAN, ticket : 0 .. MaxTickets ]

Ticket == [ system : System, bug : 0 .. MaxBugs ]

QualityInit ==
  /\ SuiteInit
  /\ bugs = <<>> /\ bugMoves = <<>> /\ relates = {}
  /\ tickets = [t \in DOMAIN Filed |-> [system |-> Filed[t], bug |-> 0]]

TicketsOn(system) == { t \in DOMAIN tickets : tickets[t].system = system }

-----------------------------------------------------------------------------
Opened(row) ==
  /\ Len(bugs) < MaxBugs
  /\ bugs' = Append(bugs, row)
  /\ bugMoves' = Append(bugMoves, <<[from |-> "none", to |-> row.status]>>)

(***************************************************************************)
(* POST /bugs: from a case, whose system it takes, or for a named system.  *)
(* The row and its opening history are one transaction; the foreign key    *)
(* refuses a case that is gone by then.                                    *)
(***************************************************************************)
File(case, system, ticket) ==
  /\ case # 0 => system = Home
  /\ ticket \in TicketsOn(system) \cup {0}
  /\ Opened([status |-> "OPEN", resolved |-> FALSE, archived |-> FALSE,
             system |-> system, case |-> case, inSuite |-> case # 0, ticket |-> ticket])
  /\ UNCHANGED <<suiteVars, tickets, relates, inflight, overlapped>>

Ask(s, op, b) == [op |-> op, bug |-> b, seen |-> bugs[b]]

\* PATCH, one link at a time.  The case: adopting one takes over its system, too.
LoadAdopt(s, b, case) ==
  /\ ~bugs[b].archived
  /\ Start(s, [op |-> "adopt", bug |-> b, case |-> case, seen |-> bugs[b]])

LoadAttachAny(s, b, t) ==  \* mutant: any ticket will do
  /\ ~bugs[b].archived
  /\ Start(s, [op |-> "attach", bug |-> b, ticket |-> t, seen |-> bugs[b]])

\* PATCH, the ticket: one of the bug's system, or none.
LoadAttach(s, b, t) ==
  /\ ~bugs[b].archived
  /\ t \in TicketsOn(bugs[b].system) \cup {0}
  /\ Start(s, [op |-> "attach", bug |-> b, ticket |-> t, seen |-> bugs[b]])

LoadMove(s, b, to) ==
  /\ ~bugs[b].archived /\ bugs[b].status # to
  /\ Start(s, [op |-> "move", bug |-> b, to |-> to, seen |-> bugs[b]])

LoadPromoteAgain(s, b) ==  \* mutant: a bug on a ticket already may be promoted
  /\ ~bugs[b].archived
  /\ Start(s, Ask(s, "promote", b))

LoadPromote(s, b) ==
  /\ bugs[b].ticket = 0 /\ ~bugs[b].archived
  /\ Start(s, Ask(s, "promote", b))

\* archive or unarchive, whichever is not a no-op.
LoadShelve(s, b) == Start(s, Ask(s, "shelve", b))

LoadBug(s) ==
  /\ \E b \in DOMAIN bugs :
       \/ \E case \in DOMAIN cases \cup {0} : LoadAdopt(s, b, case)
       \/ \E t \in DOMAIN tickets \cup {0} : LoadAttach(s, b, t)
       \/ \E to \in BugStatus : LoadMove(s, b, to)
       \/ LoadPromote(s, b) \/ LoadShelve(s, b)
  /\ UNCHANGED <<suiteVars, bugVars, overlapped>>

-----------------------------------------------------------------------------
\* The foreign key refuses a case that is gone; null clears the link only.
Adopt(s) ==
  LET q == inflight[s] IN
  /\ Is(s, "adopt") /\ q.case \in DOMAIN cases \cup {0}
  /\ bugs' = [bugs EXCEPT ![q.bug].case = q.case,
                          ![q.bug].inSuite = @ \/ q.case # 0,
                          ![q.bug].system = IF q.case # 0 /\ q.seen.system # Home
                                              THEN Home ELSE @]
  /\ Settle(s, bugs[q.bug])
  /\ UNCHANGED <<suiteVars, bugMoves, tickets, relates>>

Attach(s) ==
  LET q == inflight[s] IN
  /\ Is(s, "attach")
  /\ bugs' = [bugs EXCEPT ![q.bug].ticket = q.ticket]
  /\ Settle(s, bugs[q.bug])
  /\ UNCHANGED <<suiteVars, bugMoves, tickets, relates>>

MoveStampStays(s) ==  \* mutant: a bug opened again keeps its stamp
  LET q == inflight[s] IN
  /\ Is(s, "move") /\ Len(bugMoves[q.bug]) < MaxMoves
  /\ bugs' = [bugs EXCEPT ![q.bug].status = q.to, ![q.bug].resolved = @ \/ q.to \in Resolved]
  /\ bugMoves' = [bugMoves EXCEPT ![q.bug] =
       Append(@, [from |-> q.seen.status, to |-> q.to])]
  /\ Settle(s, bugs[q.bug])
  /\ UNCHANGED <<suiteVars, tickets, relates>>

Move(s) ==
  LET q == inflight[s] IN
  /\ Is(s, "move") /\ Len(bugMoves[q.bug]) < MaxMoves
  /\ bugs' = [bugs EXCEPT ![q.bug].status = q.to, ![q.bug].resolved = q.to \in Resolved]
  /\ bugMoves' = [bugMoves EXCEPT ![q.bug] =
       Append(@, [from |-> q.seen.status, to |-> q.to])]
  /\ Settle(s, bugs[q.bug])
  /\ UNCHANGED <<suiteVars, tickets, relates>>

\* What the promoted ticket is related to, for a bug as it was loaded: the
\* tickets its case and the suite now cover, and nothing for a case gone since.
Covering(bug) ==
  { t \in links \cup {cases[c].covers : c \in {bug.case} \cap DOMAIN cases} :
      /\ t # 0 /\ bug.inSuite
      /\ bug.case \in DOMAIN cases \cup {0} }

\* A DRAFT ticket on the system the bug had when loaded.
Promote(s) ==
  LET q == inflight[s]
      t == Len(tickets) + 1 IN
  /\ Is(s, "promote") /\ t <= MaxTickets
  /\ tickets' = Append(tickets, [system |-> q.seen.system, bug |-> q.bug])
  /\ bugs' = [bugs EXCEPT ![q.bug].ticket = t]
  /\ relates' = relates \cup ({t} \X Covering(q.seen))
  /\ Settle(s, bugs[q.bug])
  /\ UNCHANGED <<suiteVars, bugMoves>>

Shelve(s) ==
  LET q == inflight[s] IN
  /\ Is(s, "shelve")
  /\ bugs' = [bugs EXCEPT ![q.bug].archived = ~q.seen.archived]
  /\ Settle(s, bugs[q.bug])
  /\ UNCHANGED <<suiteVars, bugMoves, tickets, relates>>

WriteBug(s) == Adopt(s) \/ Attach(s) \/ Move(s) \/ Promote(s) \/ Shelve(s)

OrphanedNot(c) == bugs  \* mutant: the column keeps the case

\* A bug outlives the draft it was found by: the column is set to null.
Orphaned(c) ==
  [b \in DOMAIN bugs |-> [bugs[b] EXCEPT !.case = IF @ = c THEN 0 ELSE @]]

DeleteCase(s) ==
  /\ Delete(s)
  /\ bugs' = Orphaned(inflight[s].case)
  /\ UNCHANGED <<bugMoves, tickets, relates>>

\* A statement fails, or the server stops: an open transaction is rolled back.
Drop(s) ==
  /\ ~Is(s, "idle")
  /\ inflight' = [inflight EXCEPT ![s] = Idle]
  /\ UNCHANGED <<suiteVars, bugVars, overlapped>>

SuiteStep(s) ==
  /\ \/ LoadTests(s) \/ WriteTests(s)
     \/ \E t \in links : Unlink(t)
  /\ UNCHANGED bugVars

QualityNext ==
  \/ \E case \in DOMAIN cases \cup {0}, system \in System, t \in DOMAIN tickets \cup {0} :
       File(case, system, t)
  \/ \E s \in Slot :
       SuiteStep(s) \/ LoadBug(s) \/ WriteBug(s) \/ DeleteCase(s) \/ Drop(s)

QualitySpec == QualityInit /\ [][QualityNext]_vars

-----------------------------------------------------------------------------
QualityTypeOK ==
  /\ suite \in [state : TestState, isArchived : BOOLEAN, ran : 0 .. MaxRuns]
  /\ links \subseteq DOMAIN Filed
  /\ DOMAIN cases \subseteq 1 .. MaxCases
  /\ \A c \in DOMAIN cases : cases[c] \in TestCase
  /\ clock \in 0 .. MaxRuns
  /\ \A b \in DOMAIN bugs : bugs[b] \in Bug /\ bugs[b].case \in DOMAIN cases \cup {0}
  /\ DOMAIN bugMoves = DOMAIN bugs
  /\ \A t \in DOMAIN tickets : tickets[t] \in Ticket
  /\ relates \subseteq { p \in (DOMAIN tickets) \X DOMAIN Filed : p[1] # p[2] }

(***************************************************************************)
(* However requests overlap and fail: a case shows the result of its       *)
(* newest history row and was run if it has one ("a result can never exist *)
(* without its audit row", cases.service.ts), a bug shows the status of    *)
(* its newest row, and is stamped resolved just while the status says so.  *)
(***************************************************************************)
StatusesAudited ==
  /\ \A c \in DOMAIN cases : LET rows == results[c] IN
       /\ (rows # <<>>) = (cases[c].ran # 0)
       /\ rows # <<>> => rows[Len(rows)].to = cases[c].result
  /\ \A b \in DOMAIN bugs :
       /\ bugMoves[b][Len(bugMoves[b])].to = bugs[b].status
       /\ bugs[b].resolved = (bugs[b].status \in Resolved)

AtHome(b) == bugs[b].ticket \in TicketsOn(bugs[b].system) \cup {0}

(***************************************************************************)
(* While no write was decided from rows that had changed: nothing that was *)
(* run is lost ("nothing is deleted"), an archived case gets no results,   *)
(* an archived bug stays as it is but for the draft it was found by, a bug *)
(* on a ticket is not promoted to another, and it stays on a ticket of its *)
(* own system until it adopts a case.                                      *)
(***************************************************************************)
UndisturbedRecord ==
  [][ ~overlapped' =>
        /\ \A c \in DOMAIN results :
             /\ Len(results[c]) <= Len(results'[c])
             /\ c \in DOMAIN cases /\ cases[c].state = "ARCHIVED" =>
                  results'[c] = results[c]
        /\ \A b \in DOMAIN bugs :
             /\ bugs[b].archived =>
                  \E a \in BOOLEAN, c \in {bugs[b].case, 0} :
                    bugs'[b] = [bugs[b] EXCEPT !.archived = a, !.case = c]
             /\ bugs[b].ticket # 0 =>
                  \A t \in DOMAIN tickets' \ DOMAIN tickets : tickets'[t].bug # b
             /\ AtHome(b) => AtHome(b)' \/ bugs'[b].case \notin {bugs[b].case, 0} ]_vars

=============================================================================
