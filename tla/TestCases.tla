----------------------------- MODULE TestCases ------------------------------
(***************************************************************************)
(* One test suite, its cases and the results recorded on them              *)
(* (testing/suites.service.ts, cases.service.ts, test-rollup.service.ts).  *)
(*                                                                         *)
(* A handler loads a row, decides from that copy and writes later.  The    *)
(* writes that restamp the suite are transactions at READ COMMITTED: the   *)
(* first statement locks the case and aggregates over what is committed    *)
(* plus its own change, the last one writes the suite's stamp and commits. *)
(* Wording, assignees, and who may author or execute are left out: every   *)
(* caller here may.                                                        *)
(***************************************************************************)
EXTENDS TaskOrder, Sequences

CONSTANTS Slot,      \* the requests that may be in flight together
          System,    \* systems
          Home,      \* the suite's system: PATCH has no field for it
          TestResult,\* the results told apart
          Filed,     \* the systems of the tickets there are to begin with
          MaxCases, MaxRuns  \* bounds on the cases made and the results recorded

ASSUME TestCasesAssumption ==
  /\ Home \in System /\ "NOT_RUN" \in TestResult /\ Filed \in Seq(System)
  /\ MaxCases \in Nat /\ MaxRuns \in Nat

VARIABLES suite,     \* the TestSuite row
          links,     \* TestSuiteTicket: the tickets the suite covers
          cases,     \* TestCase rows, numbered as created
          results,   \* TestCaseResultHistory, per case ever made
          clock,     \* the results stamped so far: each takes the next instant
          inflight,  \* what each request has loaded and means to write
          overlapped \* history variable: some write was decided from rows
                     \* that had changed since

suiteVars == <<suite, links, cases, results, clock>>

TestState == { "DRAFT", "ACTIVE", "ARCHIVED" }

\* covers is the ticket the case is about, 0 for none; ran is lastRunAt, 0 for null.
TestCase ==
  [ state : TestState, result : TestResult, ran : 0 .. MaxRuns,
    order : 0 .. MaxCases, covers : 0 .. Len(Filed) ]

SuiteInit ==
  /\ suite = [state |-> "DRAFT", isArchived |-> FALSE, ran |-> 0]
  /\ links = {} /\ cases = <<>> /\ results = <<>> /\ clock = 0
  /\ inflight = [s \in Slot |-> [op |-> "idle"]]
  /\ overlapped = FALSE

Idle == [op |-> "idle"]

Is(s, op) == inflight[s].op = op

Start(s, request) ==
  /\ Is(s, "idle")
  /\ inflight' = [inflight EXCEPT ![s] = request]

\* The request wrote on the strength of what it had seen.
Settle(s, now) ==
  /\ inflight' = [inflight EXCEPT ![s] = Idle]
  /\ overlapped' = (overlapped \/ inflight[s].seen # now)

-----------------------------------------------------------------------------
(***************************************************************************)
(* The suite's own state, and the tickets it covers.                       *)
(***************************************************************************)
\* publish asks for a draft, unarchive for an archived suite, archive for any other.
From == [ publish   |-> {"DRAFT"},
          archive   |-> {"DRAFT", "ACTIVE"},
          unarchive |-> {"ARCHIVED"} ]

LoadSuiteMove(s, verb) ==
  /\ suite.state \in From[verb]
  /\ Start(s, [op |-> "suite", verb |-> verb, seen |-> suite.state])

\* publish leaves isArchived as it is.
SuiteMoved(verb) ==
  CASE verb = "publish"   -> [suite EXCEPT !.state = "ACTIVE"]
    [] verb = "archive"   -> [suite EXCEPT !.state = "ARCHIVED", !.isArchived = TRUE]
    [] verb = "unarchive" -> [suite EXCEPT !.state = "ACTIVE", !.isArchived = FALSE]

MoveSuite(s) ==
  /\ Is(s, "suite")
  /\ suite' = SuiteMoved(inflight[s].verb)
  /\ Settle(s, suite.state)
  /\ UNCHANGED <<links, cases, results, clock>>

LoadLink(s, t) ==
  /\ suite.state # "ARCHIVED" /\ t \notin links
  /\ Start(s, [op |-> "link", ticket |-> t, seen |-> suite.state])

\* The primary key refuses a second row for the pair.
Link(s) ==
  /\ Is(s, "link") /\ inflight[s].ticket \notin links
  /\ links' = links \cup {inflight[s].ticket}
  /\ Settle(s, suite.state)
  /\ UNCHANGED <<suite, cases, results, clock>>

\* "Unlink is allowed on archived suites."
Unlink(t) ==
  /\ links' = links \ {t}
  /\ UNCHANGED <<suite, cases, results, clock, inflight, overlapped>>

-----------------------------------------------------------------------------
(***************************************************************************)
(* What a request on a case loads.                                         *)
(***************************************************************************)
LastOrder == IF cases = <<>> THEN -1
             ELSE CHOOSE o \in { cases[c].order : c \in DOMAIN cases } :
                    \A c \in DOMAIN cases : cases[c].order <= o

LoadCreate(s, t) ==
  /\ suite.state # "ARCHIVED"
  /\ Start(s, [op |-> "create", covers |-> t, seen |-> <<suite.state, LastOrder>>])

LoadEdit(s, c, t) ==
  /\ cases[c].state # "ARCHIVED"
  /\ Start(s, [op |-> "edit", case |-> c, covers |-> t, seen |-> cases[c]])

\* Every sibling gets the place the move gives it; the suite's state is not asked.
LoadReorder(s, c, target) ==
  /\ cases[c].state # "ARCHIVED"
  /\ Start(s, [op |-> "reorder", list |-> MovedTo(cases, c, target),
               seen |-> [d \in DOMAIN cases |-> cases[d].order]])

LoadPublish(s, c) ==
  /\ cases[c].state = "DRAFT"
  /\ Start(s, [op |-> "publish", case |-> c, seen |-> cases[c]])

LoadRecordDraft(s, c, result) ==  \* mutant: a draft may be run
  /\ cases[c].state # "ARCHIVED" /\ clock < MaxRuns
  /\ clock' = clock + 1
  /\ Start(s, [op |-> "record", case |-> c, result |-> result, at |-> clock',
               seen |-> cases[c]])

\* The instant is taken before the transaction begins.
LoadRecord(s, c, result) ==
  /\ cases[c].state = "ACTIVE" /\ clock < MaxRuns
  /\ clock' = clock + 1
  /\ Start(s, [op |-> "record", case |-> c, result |-> result, at |-> clock',
               seen |-> cases[c]])

LoadRemoveRun(s, c) ==  \* mutant: a case without a result goes, published or not
  /\ cases[c].state # "ARCHIVED"
  /\ Start(s, [op |-> IF cases[c].result = "NOT_RUN" THEN "delete" ELSE "retire",
               case |-> c, seen |-> cases[c]])

\* remove: "A draft nobody has run is a typo", anything published is archived.
LoadRemove(s, c) ==
  /\ cases[c].state # "ARCHIVED"
  /\ Start(s, [op |-> IF cases[c].state = "DRAFT" THEN "delete" ELSE "retire",
               case |-> c, seen |-> cases[c]])

LoadCase(s) ==
  \/ \E t \in 0 .. Len(Filed) : LoadCreate(s, t) /\ UNCHANGED clock
  \/ \E c \in DOMAIN cases :
       \/ /\ \/ \E t \in 0 .. Len(Filed) : LoadEdit(s, c, t)
             \/ \E target \in 0 .. LastPlace(cases) : LoadReorder(s, c, target)
             \/ LoadPublish(s, c) \/ LoadRemove(s, c)
          /\ UNCHANGED clock
       \/ \E result \in TestResult : LoadRecord(s, c, result)

LoadTests(s) ==
  /\ \/ /\ \/ \E verb \in DOMAIN From : LoadSuiteMove(s, verb)
           \/ \E t \in DOMAIN Filed : LoadLink(s, t)
        /\ UNCHANGED clock
     \/ LoadCase(s)
  /\ UNCHANGED <<suite, links, cases, results, overlapped>>

-----------------------------------------------------------------------------
(***************************************************************************)
(* The writes.  A row that an open transaction has updated is locked.      *)
(***************************************************************************)
Locked(c) == \E s \in Slot : Is(s, "open") /\ inflight[s].case = c

Create(s) ==
  LET c == Len(results) + 1 IN
  /\ Is(s, "create") /\ c <= MaxCases
  /\ cases' = [d \in DOMAIN cases \cup {c} |->
       IF d # c THEN cases[d]
       ELSE [state |-> "DRAFT", result |-> "NOT_RUN", ran |-> 0,
             order |-> inflight[s].seen[2] + 1, covers |-> inflight[s].covers]]
  /\ results' = Append(results, <<>>)
  /\ Settle(s, <<suite.state, LastOrder>>)
  /\ UNCHANGED <<suite, links, clock>>

Edit(s) ==
  LET q == inflight[s] IN
  /\ Is(s, "edit") /\ q.case \in DOMAIN cases /\ ~Locked(q.case)
  /\ cases' = [cases EXCEPT ![q.case].covers = q.covers]
  /\ Settle(s, cases[q.case])
  /\ UNCHANGED <<suite, links, results, clock>>

\* One update per sibling in one transaction: a case gone since fails it.
Reorder(s) ==
  LET list == inflight[s].list IN
  /\ Is(s, "reorder")
  /\ DOMAIN list \subseteq DOMAIN cases /\ \A c \in DOMAIN list : ~Locked(c)
  /\ cases' = [c \in DOMAIN cases |->
       IF c \in DOMAIN list THEN [cases[c] EXCEPT !.order = list[c].order] ELSE cases[c]]
  /\ Settle(s, [d \in DOMAIN cases |-> cases[d].order])
  /\ UNCHANGED <<suite, links, results, clock>>

\* The draft goes with its history, and no sibling moves up.
Delete(s) ==
  LET q == inflight[s] IN
  /\ Is(s, "delete") /\ q.case \in DOMAIN cases /\ ~Locked(q.case)
  /\ cases' = [c \in DOMAIN cases \ {q.case} |-> cases[c]]
  /\ results' = [results EXCEPT ![q.case] = <<>>]
  /\ Settle(s, cases[q.case])
  /\ UNCHANGED <<suite, links, clock>>

-----------------------------------------------------------------------------
RunsOfAll(list, others) ==  \* mutant: drafts and archived cases count
  { list[c].ran : c \in DOMAIN list \ others }

\* The runs of the ACTIVE cases, those in others left aside.
Runs(list, others) ==
  { list[c].ran : c \in { d \in DOMAIN list \ others : list[d].state = "ACTIVE" } }

\* recompute: the latest of them, null where there is none.
Latest(list) ==
  CHOOSE r \in Runs(list, {}) \cup {0} : \A q \in Runs(list, {}) : q <= r

Decided(q, row) ==
  CASE q.op = "publish" -> [row EXCEPT !.state = "ACTIVE"]
    [] q.op = "retire"  -> [row EXCEPT !.state = "ARCHIVED"]
    [] q.op = "record"  -> [row EXCEPT !.result = q.result, !.ran = q.at]

EntryReread(q) ==  \* mutant: from is the row as it is after the update
  IF q.op = "record" THEN <<[from |-> q.result, to |-> q.result]>> ELSE <<>>

\* The history row a result gets: from is what the handler had loaded.
Entry(q) ==
  IF q.op = "record" THEN <<[from |-> q.seen.result, to |-> q.result]>> ELSE <<>>

\* The transaction up to its last statement.
Begin(s) ==
  LET q == inflight[s] IN
  /\ q.op \in { "publish", "retire", "record" }
  /\ q.case \in DOMAIN cases /\ ~Locked(q.case)
  /\ LET row   == Decided(q, cases[q.case])
         after == [cases EXCEPT ![q.case] = row]
     IN  inflight' = [inflight EXCEPT ![s] =
           [op |-> "open", case |-> q.case, row |-> row, entry |-> Entry(q),
            stamp |-> Latest(after), seen |-> Runs(after, {q.case})]]
  /\ overlapped' = (overlapped \/ q.seen # cases[q.case])
  /\ UNCHANGED suiteVars

CommitUnstamped(s) ==  \* mutant: only a result restamps the suite
  LET q == inflight[s] IN
  /\ Is(s, "open")
  /\ cases' = [cases EXCEPT ![q.case] = q.row]
  /\ results' = [results EXCEPT ![q.case] = @ \o q.entry]
  /\ suite' = [suite EXCEPT !.ran = IF q.entry # <<>> THEN q.stamp ELSE @]
  /\ Settle(s, Runs(cases, {q.case}))
  /\ UNCHANGED <<links, clock>>

\* The suite's stamp, and the commit that shows all of it at once.
Commit(s) ==
  LET q == inflight[s] IN
  /\ Is(s, "open")
  /\ cases' = [cases EXCEPT ![q.case] = q.row]
  /\ results' = [results EXCEPT ![q.case] = @ \o q.entry]
  /\ suite' = [suite EXCEPT !.ran = q.stamp]
  /\ Settle(s, Runs(cases, {q.case}))
  /\ UNCHANGED <<links, clock>>

WriteTests(s) ==
  \/ MoveSuite(s) \/ Link(s)
  \/ Create(s) \/ Edit(s) \/ Reorder(s)
  \/ Begin(s) \/ Commit(s)

-----------------------------------------------------------------------------
Chained(rows, newest) ==
  /\ rows # <<>> => rows[1].from = "NOT_RUN" /\ rows[Len(rows)].to = newest
  /\ \A i \in 2 .. Len(rows) : rows[i].from = rows[i - 1].to

(***************************************************************************)
(* While no write was decided from rows that had changed: the suite was    *)
(* last run when its latest ACTIVE case was ("a suite and its cases can    *)
(* never disagree about when it last ran", test-rollup.service.ts), its    *)
(* two archive columns agree, order never needs a tiebreak, and the        *)
(* results of a case chain up to the one it shows.                         *)
(***************************************************************************)
UndisturbedSuite ==
  ~overlapped =>
    /\ LET active == { c \in DOMAIN cases : cases[c].state = "ACTIVE" } IN
         /\ suite.ran \in { cases[c].ran : c \in active } \cup {0}
         /\ \A c \in active : cases[c].ran <= suite.ran
    /\ suite.isArchived = (suite.state = "ARCHIVED")
    /\ \A c, d \in DOMAIN cases : c # d => cases[c].order # cases[d].order
    /\ \A c \in DOMAIN cases : Chained(results[c], cases[c].result)

=============================================================================
