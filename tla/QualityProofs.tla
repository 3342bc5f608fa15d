---------------------------- MODULE QualityProofs ---------------------------
(***************************************************************************)
(* Proofs about the test suite and the bugs found by it, for any slots,    *)
(* systems, results, statuses and bounds: the record is kept however       *)
(* requests overlap and fail, and while no write was decided from rows     *)
(* that had changed the suite and its bugs stay consistent.                *)
(*                                                                         *)
(* The inductive invariant has a half for the suite (rows, requests, open  *)
(* transactions, what holds undisturbed) and one for the bugs.             *)
(***************************************************************************)
EXTENDS Quality, FiniteSetTheorems, SequenceTheorems, WellFoundedInduction, TLAPS

TestResultRow == [from : TestResult, to : TestResult]
BugMove == [from : BugStatus \cup {"none"}, to : BugStatus]

\* r is the latest of the runs, 0 where there is none.
IsLatest(r, runs) == r \in runs \cup {0} /\ \A q \in runs : q <= r

\* The same of the ACTIVE cases of a list.
LatestOf(r, list) ==
  /\ r = 0 \/ \E c \in DOMAIN list : list[c].state = "ACTIVE" /\ list[c].ran = r
  /\ \A c \in DOMAIN list : list[c].state = "ACTIVE" => list[c].ran <= r

\* The row's own run, counted while it is ACTIVE.
OwnRun(row) == IF row.state = "ACTIVE" THEN {row.ran} ELSE {}

TestsTyped ==
  /\ suite \in [state : TestState, isArchived : BOOLEAN, ran : 0 .. MaxRuns]
  /\ links \subseteq DOMAIN Filed
  /\ results \in Seq(Seq(TestResultRow)) /\ Len(results) <= MaxCases
  /\ cases \in [DOMAIN cases -> TestCase] /\ DOMAIN cases \subseteq 1 .. Len(results)
  /\ clock \in 0 .. MaxRuns
  /\ DOMAIN inflight = Slot
  /\ overlapped \in BOOLEAN

\* What one row and its history must agree on, and that a draft was never run.
SoundCase(row, rows) ==
  /\ (rows # <<>>) = (row.ran # 0)
  /\ rows # <<>> => rows[Len(rows)].to = row.result
  /\ row.ran = 0 => row.result = "NOT_RUN"
  /\ row.state = "DRAFT" => row.ran = 0

CasesSound ==
  \A c \in DOMAIN cases : cases[c].order < Len(results) /\ SoundCase(cases[c], results[c])

\* The places a request would give: one each, and none beyond the cases made.
Numbered(list) ==
  /\ \A c \in DOMAIN list : list[c].order \in 0 .. Len(results) - 1
  /\ \A c, d \in DOMAIN list : c # d => list[c].order # list[d].order

OnCase == { "edit", "delete", "publish", "retire", "record" }

\* What a request on its way has checked, whatever happened since.
TestRequest(q) ==
  /\ q.op = "suite" => q.verb \in DOMAIN From /\ q.seen \in From[q.verb]
  /\ q.op = "link" => q.ticket \in DOMAIN Filed
  /\ q.op \in { "create", "edit" } => q.covers \in 0 .. Len(Filed)
  /\ q.op = "create" => q.seen[2] + 1 \in 0 .. Len(results)
  /\ q.op = "reorder" => Numbered(q.list) /\ DOMAIN q.list = DOMAIN q.seen
  /\ q.op \in OnCase => q.case \in 1 .. Len(results)
  /\ q.op = "delete" => q.seen.state = "DRAFT"
  /\ q.op = "record" =>
       /\ q.result \in TestResult /\ q.at \in 1 .. clock
       /\ q.seen \in TestCase /\ q.seen.state = "ACTIVE"
       /\ q.case \in DOMAIN cases => cases[q.case].state # "DRAFT"

\* An open transaction's row is the one it locked with its own change, and its
\* history row tells that change.
OpenRow(q) ==
  /\ q.case \in DOMAIN cases
  /\ q.row \in TestCase /\ q.row.state # "DRAFT"
  /\ q.row.order = cases[q.case].order
  /\ IsLatest(q.stamp, q.seen \cup OwnRun(q.row)) /\ q.stamp \in 0 .. MaxRuns
  /\ \/ /\ q.entry = <<>>
        /\ q.row.ran = cases[q.case].ran /\ q.row.result = cases[q.case].result
     \/ \E from \in TestResult :
          /\ q.entry = <<[from |-> from, to |-> q.row.result]>> /\ q.row.ran # 0
          /\ ~overlapped => from = cases[q.case].result /\ cases[q.case].state = "ACTIVE"

Requests == \A s \in Slot : TestRequest(inflight[s])
OpenRows == \A s \in Slot : Is(s, "open") => OpenRow(inflight[s])
OneLock ==
  \A r, s \in Slot :
    Is(r, "open") /\ Is(s, "open") /\ inflight[r].case = inflight[s].case => r = s

TestsUndisturbed ==
  ~overlapped =>
    /\ LatestOf(suite.ran, cases)
    /\ suite.isArchived = (suite.state = "ARCHIVED")
    /\ \A c, d \in DOMAIN cases : c # d => cases[c].order # cases[d].order
    /\ \A c \in DOMAIN cases : Chained(results[c], cases[c].result)

SuiteInv ==
  TestsTyped /\ CasesSound /\ Requests /\ OpenRows /\ OneLock /\ TestsUndisturbed

-----------------------------------------------------------------------------
BugsTyped ==
  /\ bugs \in Seq(Bug) /\ Len(bugs) <= MaxBugs
  /\ bugMoves \in Seq(Seq(BugMove)) /\ Len(bugMoves) = Len(bugs)

TicketsTyped ==
  /\ tickets \in Seq(Ticket)
  /\ Len(Filed) <= Len(tickets) /\ Len(tickets) <= MaxTickets
  /\ relates \subseteq { p \in (DOMAIN tickets) \X DOMAIN Filed : p[1] # p[2] }

SoundBug(bug, moves) ==
  /\ bug.case \in DOMAIN cases \cup {0}
  /\ moves # <<>> /\ moves[Len(moves)].to = bug.status
  /\ bug.resolved = (bug.status \in Resolved)

BugsSound == \A b \in DOMAIN bugs : SoundBug(bugs[b], bugMoves[b])

OnBug == { "adopt", "attach", "move", "promote", "shelve" }

BugRequest(q) ==
  /\ q.op \in OnBug => q.bug \in DOMAIN bugs /\ q.seen \in Bug
  /\ q.op \in OnBug \ {"shelve"} => ~q.seen.archived
  /\ q.op = "adopt" => q.case \in 0 .. MaxCases
  /\ q.op = "attach" => q.ticket \in TicketsOn(q.seen.system) \cup {0}
  /\ q.op = "move" => q.to \in BugStatus
  /\ q.op = "promote" => q.seen.ticket = 0

BugRequests == \A s \in Slot : BugRequest(inflight[s])

\* A bug found by a case is of the suite's system.
BugsUndisturbed ==
  ~overlapped => \A b \in DOMAIN bugs : bugs[b].case # 0 => bugs[b].system = Home

BugInv == BugsTyped /\ TicketsTyped /\ BugsSound /\ BugRequests /\ BugsUndisturbed

-----------------------------------------------------------------------------
(* Places and latest runs                                                  *)

LEMMA CaseList ==
  ASSUME TestsTyped
  PROVE  /\ IsFiniteSet(DOMAIN cases)
         /\ LastPlace(cases) + 1 = Cardinality(DOMAIN cases)
         /\ Cardinality(DOMAIN cases) \in Nat /\ Cardinality(DOMAIN cases) <= Len(results)
         /\ Len(results) \in Nat
         /\ \A c \in DOMAIN cases : /\ c \in 1 .. Len(results)
                                    /\ cases[c] \in TestCase
                                    /\ cases[c].order \in Nat
<1>1. Len(results) \in Nat
  BY LenProperties DEF TestsTyped
<1>2. /\ IsFiniteSet(1 .. Len(results)) /\ Cardinality(1 .. Len(results)) = Len(results)
  <2> DEFINE n == Len(results)
  <2> HIDE DEF n
  <2>1. n \in Nat
    BY <1>1 DEF n
  <2>2. IsFiniteSet(1 .. n) /\ Cardinality(1 .. n) = n
    BY <2>1, FS_Interval
  <2> QED
    BY <2>2 DEF n
<1>3. IsFiniteSet(DOMAIN cases) /\ Cardinality(DOMAIN cases) <= Len(results)
  BY <1>2, FS_Subset DEF TestsTyped
<1>4. Cardinality(DOMAIN cases) \in Nat
  BY <1>3, FS_CardinalityType
<1>5. \A c \in DOMAIN cases : c \in 1 .. Len(results) /\ cases[c] \in TestCase
  BY DEF TestsTyped
<1>6. \A c \in DOMAIN cases : cases[c].order \in Nat
  BY <1>5 DEF TestCase
<1> QED
  BY <1>1, <1>3, <1>4, <1>5, <1>6 DEF LastPlace

LEMMA AboveIsTotal ==
  ASSUME TestsTyped
  PROVE  /\ \A i \in DOMAIN cases : ~Above(cases, i, i)
         /\ \A i, j \in DOMAIN cases : i # j => Above(cases, i, j) \/ Above(cases, j, i)
         /\ \A i, j, k \in DOMAIN cases :
              Above(cases, i, j) /\ Above(cases, j, k) => Above(cases, i, k)
<1>1. \A c \in DOMAIN cases : c \in Int /\ cases[c].order \in Int
  BY CaseList
<1> QED
  BY <1>1 DEF Above

\* The cases above one are fewer than there are, and fewer than above the next.
LEMMA PlaceType ==
  ASSUME TestsTyped, NEW i \in DOMAIN cases
  PROVE  LastPlace(cases) \in Nat /\ Place(cases, i) \in 0 .. LastPlace(cases)
<1> DEFINE D == DOMAIN cases
           A == { j \in D : Above(cases, j, i) }
<1>1. /\ IsFiniteSet(D \ {i})
      /\ Cardinality(D \ {i}) = Cardinality(D) - 1
  BY CaseList, FS_RemoveElement
<1>2. A \in SUBSET (D \ {i})
  BY AboveIsTotal
<1>3. IsFiniteSet(A) /\ Cardinality(A) <= Cardinality(D \ {i})
  BY <1>1, <1>2, FS_Subset
<1>4. Cardinality(A) \in Nat /\ Cardinality(D) \in Nat /\ Cardinality(D \ {i}) \in Nat
  BY <1>1, <1>3, CaseList, FS_CardinalityType
<1> QED
  BY <1>1, <1>3, <1>4 DEF Place, LastPlace

LEMMA PlaceMonotone ==
  ASSUME TestsTyped, NEW i \in DOMAIN cases, NEW j \in DOMAIN cases, Above(cases, i, j)
  PROVE  Place(cases, i) < Place(cases, j)
<1> DEFINE A(k) == { l \in DOMAIN cases : Above(cases, l, k) }
<1>1. \A k \in DOMAIN cases : A(k) \in SUBSET DOMAIN cases
  OBVIOUS
<1>2. \A k \in DOMAIN cases : IsFiniteSet(A(k))
  BY <1>1, CaseList, FS_Subset
<1>3. i \notin A(i) /\ A(i) \cup {i} \in SUBSET A(j)
  BY AboveIsTotal
<1>4. Cardinality(A(i) \cup {i}) = Cardinality(A(i)) + 1
  BY <1>2, <1>3, FS_AddElement
<1>5. Cardinality(A(i) \cup {i}) <= Cardinality(A(j))
  BY <1>2, <1>3, FS_Subset
<1>6. Cardinality(A(i)) \in Nat /\ Cardinality(A(j)) \in Nat
  BY <1>2, FS_CardinalityType
<1> QED
  BY <1>4, <1>5, <1>6 DEF Place

(***************************************************************************)
(* What reorder writes has no ties, whatever the orders were.              *)
(***************************************************************************)
LEMMA MovedIsNumbered ==
  ASSUME TestsTyped, NEW x \in DOMAIN cases, NEW target \in Nat
  PROVE  LET list == MovedTo(cases, x, target)
         IN  Numbered(list) /\ DOMAIN list = DOMAIN cases
<1> DEFINE D    == DOMAIN cases
           list == MovedTo(cases, x, target)
           to   == Clamped(cases, target)
           n    == LastPlace(cases)
           P(i) == Place(cases, i)
           W(i) == P(i) - (IF Above(cases, x, i) THEN 1 ELSE 0)
           N(i) == IF i = x THEN to ELSE IF W(i) < to THEN W(i) ELSE W(i) + 1
<1>1. n \in Nat /\ to \in 0 .. n /\ n <= Len(results) - 1 /\ Len(results) \in Nat
  BY PlaceType, CaseList DEF Clamped
<1>2. \A i \in D : P(i) \in 0 .. n
  BY PlaceType
<1>3. \A i, j \in D : /\ Above(cases, i, j) => P(i) < P(j)
                      /\ i # j => Above(cases, i, j) \/ Above(cases, j, i)
                      /\ ~Above(cases, i, i)
  BY PlaceMonotone, AboveIsTotal
<1>4. \A i \in D : list[i].order = N(i)
  <2>1. \A i \in D : "order" \in DOMAIN cases[i]
    BY CaseList DEF TestCase
  <2>2. \A i \in D : list[i] = [cases[i] EXCEPT !.order = N(i)]
    BY DEF MovedTo
  <2> HIDE DEF N, list
  <2> QED
    BY <2>1, <2>2
<1> HIDE DEF P, n, to, list
<1>5. \A i \in D \ {x} : W(i) \in Int /\ 0 <= W(i) /\ W(i) < n
  <2> SUFFICES ASSUME NEW i \in D \ {x}
               PROVE  W(i) \in Int /\ 0 <= W(i) /\ W(i) < n
    OBVIOUS
  <2>1. P(i) \in 0 .. n /\ P(x) \in 0 .. n
    BY <1>2
  <2>2. CASE Above(cases, x, i)
    <3>1. P(x) < P(i)
      BY <1>3, <2>2
    <3> QED
      BY <1>1, <2>1, <2>2, <3>1
  <2>3. CASE ~Above(cases, x, i)
    <3>1. P(i) < P(x)
      BY <1>3, <2>3
    <3> QED
      BY <1>1, <2>1, <2>3, <3>1
  <2> QED
    BY <2>2, <2>3
<1>6. \A i \in D : N(i) \in 0 .. n
  BY <1>1, <1>5
<1>7. \A i, j \in D \ {x} : Above(cases, i, j) => W(i) < W(j)
  <2> SUFFICES ASSUME NEW i \in D \ {x}, NEW j \in D \ {x}, Above(cases, i, j)
               PROVE  W(i) < W(j)
    OBVIOUS
  <2>1. /\ P(i) < P(j)
        /\ P(i) \in 0 .. n /\ P(j) \in 0 .. n /\ P(x) \in 0 .. n
    BY <1>2, <1>3
  <2>2. /\ Above(cases, x, i) <=> P(x) < P(i)
        /\ Above(cases, x, j) <=> P(x) < P(j)
    <3>1. /\ Above(cases, x, i) => P(x) < P(i)
          /\ ~Above(cases, x, i) => P(i) < P(x)
          /\ Above(cases, x, j) => P(x) < P(j)
          /\ ~Above(cases, x, j) => P(j) < P(x)
      BY <1>3
    <3> QED
      BY <1>1, <2>1, <3>1
  <2>3. /\ W(i) = P(i) - (IF P(x) < P(i) THEN 1 ELSE 0)
        /\ W(j) = P(j) - (IF P(x) < P(j) THEN 1 ELSE 0)
    BY <2>2
  <2>4. P(i) # P(x) /\ P(j) # P(x)
    <3>1. /\ Above(cases, i, x) => P(i) < P(x)
          /\ Above(cases, x, i) => P(x) < P(i)
          /\ Above(cases, j, x) => P(j) < P(x)
          /\ Above(cases, x, j) => P(x) < P(j)
          /\ Above(cases, i, x) \/ Above(cases, x, i)
          /\ Above(cases, j, x) \/ Above(cases, x, j)
      BY <1>3
    <3> QED
      BY <1>1, <2>1, <3>1
  <2> HIDE DEF W
  <2> QED
    BY <1>1, <2>1, <2>3, <2>4
<1>8. \A i, j \in D : i # j => N(i) # N(j)
  <2> SUFFICES ASSUME NEW i \in D, NEW j \in D, i # j
               PROVE  N(i) # N(j)
    OBVIOUS
  <2>1. CASE i = x \/ j = x
    BY <1>1, <1>5, <2>1
  <2>2. CASE i # x /\ j # x
    <3>1. W(i) < W(j) \/ W(j) < W(i)
      BY <1>3, <1>7, <2>2
    <3>2. W(i) \in Int /\ W(j) \in Int
      BY <1>5, <2>2
    <3> HIDE DEF W
    <3> QED
      BY <1>1, <2>2, <3>1, <3>2
  <2> QED
    BY <2>1, <2>2
<1>9. DOMAIN list = D
  BY DEF MovedTo, list
<1>10. \A i \in D : N(i) \in 0 .. Len(results) - 1
  BY <1>1, <1>6
<1> HIDE DEF N
<1> QED
  BY <1>4, <1>8, <1>9, <1>10 DEF Numbered, list

\* Among finitely many numbers there is a largest.
LEMMA LargestExists ==
  ASSUME NEW n \in Nat, NEW S, S \subseteq 0 .. n, S # {}
  PROVE  \E i \in S : \A j \in S : j <= i
<1> DEFINE Less == OpToRel(<, Nat)
           Back == { n - i : i \in S }
<1>1. IsWellFoundedOn(Less, Nat)
  BY NatLessThanWellFounded
<1>2. \A x, y \in Nat : x < y => <<x, y>> \in Less
  BY DEF OpToRel
<1> HIDE DEF Less
<1>3. Back \subseteq Nat /\ Back # {}
  <2>1. PICK i \in S : TRUE
    OBVIOUS
  <2>2. n - i \in Back
    BY <2>1
  <2>3. \A j \in S : n - j \in Nat
    OBVIOUS
  <2> QED
    BY <2>2, <2>3
<1>4. PICK x \in Back : \A y \in Back : ~(<<y, x>> \in Less)
  BY <1>1, <1>3, WFMin
<1>5. PICK i \in S : x = n - i
  OBVIOUS
<1>6. ASSUME NEW j \in S PROVE j <= i
  <2>1. n - j \in Back /\ ~(n - j < x)
    BY <1>2, <1>3, <1>4
  <2> QED
    BY <1>5, <2>1
<1> QED
  BY <1>6

LEMMA LastOrderIs ==
  ASSUME TestsTyped, CasesSound
  PROVE  /\ LastOrder \in Int /\ LastOrder + 1 \in 0 .. Len(results)
         /\ \A c \in DOMAIN cases : cases[c].order <= LastOrder
<1> DEFINE S == { cases[c].order : c \in DOMAIN cases }
<1>1. \A c \in DOMAIN cases : cases[c].order \in 0 .. Len(results) /\ Len(results) \in Nat
  BY CaseList DEF CasesSound
<1>2. CASE cases = <<>>
  BY <1>2, CaseList DEF LastOrder
<1>3. CASE cases # <<>>
  <2>1. S # {}
    <3>1. SUFFICES ASSUME DOMAIN cases = {} PROVE FALSE
      OBVIOUS
    <3>2. cases \in [{} -> TestCase]
      BY <3>1 DEF TestsTyped
    <3>3. cases = <<>>
      BY <3>2
    <3> QED
      BY <1>3, <3>3
  <2>2. S \subseteq 0 .. Len(results)
    BY <1>1
  <2>3. \E o \in S : \A p \in S : p <= o
    BY <2>1, <2>2, CaseList, LargestExists
  <2>4. \E o \in S : \A c \in DOMAIN cases : cases[c].order <= o
    BY <2>3
  <2>5. LastOrder \in S /\ \A c \in DOMAIN cases : cases[c].order <= LastOrder
    BY <1>3, <2>4 DEF LastOrder
  <2>6. PICK c \in DOMAIN cases : LastOrder = cases[c].order
    BY <2>5
  <2>7. cases[c].order < Len(results) /\ cases[c].order \in Nat /\ Len(results) \in Nat
    BY CaseList DEF CasesSound
  <2> QED
    BY <2>5, <2>6, <2>7
<1> QED
  BY <1>2, <1>3

LEMMA LatestIs ==
  ASSUME NEW list, \A c \in DOMAIN list : list[c].ran \in 0 .. MaxRuns
  PROVE  Latest(list) \in 0 .. MaxRuns /\ IsLatest(Latest(list), Runs(list, {}))
<1> DEFINE S == Runs(list, {})
<1>1. S \subseteq 0 .. MaxRuns
  BY DEF Runs
<1>2. S \cup {0} \subseteq 0 .. MaxRuns /\ S \cup {0} # {} /\ MaxRuns \in Nat
  BY <1>1, TestCasesAssumption
<1>3. \E r \in S \cup {0} : \A q \in S \cup {0} : q <= r
  BY <1>2, LargestExists
<1>4. \E r \in S \cup {0} : \A q \in S : q <= r
  BY <1>3
<1>5. Latest(list) \in S \cup {0} /\ \A q \in S : q <= Latest(list)
  BY <1>4 DEF Latest
<1> QED
  BY <1>2, <1>5 DEF IsLatest

\* What begins: the stamp is the latest of the others' runs and the row's own.
LEMMA StampIs ==
  ASSUME TestsTyped, NEW c \in DOMAIN cases, NEW row \in TestCase
  PROVE  LET after == [cases EXCEPT ![c] = row]
         IN  /\ Latest(after) \in 0 .. MaxRuns
             /\ IsLatest(Latest(after), Runs(after, {c}) \cup OwnRun(row))
<1> DEFINE after == [cases EXCEPT ![c] = row]
<1>1. DOMAIN after = DOMAIN cases /\ after[c] = row /\ \A d \in DOMAIN after : after[d] \in TestCase
  BY DEF TestsTyped
<1>2. \A d \in DOMAIN after : after[d].ran \in 0 .. MaxRuns
  BY <1>1 DEF TestCase
<1> HIDE DEF after
<1>3. Runs(after, {}) = Runs(after, {c}) \cup OwnRun(row)
  BY <1>1 DEF Runs, OwnRun
<1>4. Latest(after) \in 0 .. MaxRuns /\ IsLatest(Latest(after), Runs(after, {}))
  BY <1>2, LatestIs
<1> QED
  BY <1>3, <1>4 DEF after

\* What commits: the others' runs being what was aggregated, the stamp is the
\* latest of all.
LEMMA StampHolds ==
  ASSUME TestsTyped, NEW c \in DOMAIN cases, NEW row \in TestCase, NEW r,
         IsLatest(r, Runs(cases, {c}) \cup OwnRun(row))
  PROVE  LatestOf(r, [cases EXCEPT ![c] = row])
<1> DEFINE after == [cases EXCEPT ![c] = row]
<1>1. /\ DOMAIN after = DOMAIN cases /\ after[c] = row
      /\ \A d \in DOMAIN after \ {c} : after[d] = cases[d]
  BY DEF TestsTyped
<1> HIDE DEF after
<1>2. \A d \in DOMAIN after : after[d].state = "ACTIVE" =>
         after[d].ran \in Runs(cases, {c}) \cup OwnRun(row)
  BY <1>1 DEF Runs, OwnRun
<1>3. ASSUME NEW q \in Runs(cases, {c}) \cup OwnRun(row)
      PROVE  \E d \in DOMAIN after : after[d].state = "ACTIVE" /\ after[d].ran = q
  <2>1. CASE q \in OwnRun(row)
    BY <1>1, <2>1 DEF OwnRun
  <2>2. CASE q \in Runs(cases, {c})
    <3>1. PICK d \in DOMAIN cases \ {c} : cases[d].state = "ACTIVE" /\ cases[d].ran = q
      BY <2>2 DEF Runs
    <3> QED
      BY <1>1, <3>1
  <2> QED
    BY <1>3, <2>1, <2>2
<1>4. LatestOf(r, after)
  BY <1>2, <1>3 DEF LatestOf, IsLatest
<1> QED
  BY <1>4 DEF after

-----------------------------------------------------------------------------
(* What steps leave of requests and open transactions                      *)

LEMMA SuiteInitially == QualityInit => SuiteInv
<1> SUFFICES ASSUME QualityInit PROVE SuiteInv
  OBVIOUS
<1> USE DEF QualityInit, SuiteInit
<1>1. DOMAIN cases = {} /\ results = <<>> /\ Len(results) = 0
  OBVIOUS
<1>2. TestsTyped
  <2>1. results \in Seq(Seq(TestResultRow))
    BY EmptySeq
  <2>2. cases \in [DOMAIN cases -> TestCase]
    BY <1>1
  <2>3. suite \in [state : TestState, isArchived : BOOLEAN, ran : 0 .. MaxRuns]
    BY TestCasesAssumption DEF TestState
  <2>4. /\ links \subseteq DOMAIN Filed /\ clock \in 0 .. MaxRuns
        /\ DOMAIN inflight = Slot /\ overlapped \in BOOLEAN
    <3>1. links \subseteq DOMAIN Filed /\ DOMAIN inflight = Slot
      OBVIOUS
    <3>2. clock \in 0 .. MaxRuns
      BY TestCasesAssumption
    <3>3. overlapped \in BOOLEAN
      OBVIOUS
    <3> QED
      BY <3>1, <3>2, <3>3
  <2>5. Len(results) <= MaxCases /\ DOMAIN cases \subseteq 1 .. Len(results)
    BY <1>1, TestCasesAssumption
  <2> QED
    BY <2>1, <2>2, <2>3, <2>4, <2>5 DEF TestsTyped
<1>3. \A s \in Slot : inflight[s].op = "idle"
  OBVIOUS
<1>4. CasesSound /\ Requests /\ OpenRows /\ OneLock
  BY <1>1, <1>3 DEF CasesSound, Requests, TestRequest, OnCase, OpenRows, OneLock, Is
<1>5. TestsUndisturbed
  BY <1>1, TestCasesAssumption DEF TestsUndisturbed, LatestOf
<1> QED
  BY <1>2, <1>4, <1>5 DEF SuiteInv

\* s alone changes, to an answer or on to the next statement.
OnlySlot(s) == DOMAIN inflight' = Slot /\ \A t \in Slot \ {s} : inflight'[t] = inflight[t]

\* The cases another transaction has locked are left alone.
LocksKept(s) ==
  \A t \in Slot \ {s} : Is(t, "open") =>
    inflight[t].case \in DOMAIN cases' /\ cases'[inflight[t].case] = cases[inflight[t].case]

\* Nothing goes back to being a draft, no case number is given twice.
Onward ==
  /\ Len(results') \in Nat /\ Len(results) <= Len(results')
  /\ clock' \in Nat /\ clock <= clock'
  /\ overlapped => overlapped'
  /\ \A c \in 1 .. Len(results) : c \in DOMAIN cases' =>
       c \in DOMAIN cases /\ (cases'[c].state = "DRAFT" => cases[c].state = "DRAFT")

LEMMA KeepRequest ==
  ASSUME TestsTyped, Onward, NEW t \in Slot, TestRequest(inflight[t]), inflight'[t] = inflight[t]
  PROVE  TestRequest(inflight[t])'
<1> DEFINE q == inflight[t]
<1>1. Len(results) \in Nat /\ clock \in Nat
  BY CaseList DEF TestsTyped
<1>2. q' = q
  OBVIOUS
<1>3. q.op = "create" => q.seen[2] + 1 \in 0 .. Len(results')
  BY <1>1 DEF TestRequest, Onward
<1>4. q.op = "reorder" => Numbered(q.list)' /\ DOMAIN q.list = DOMAIN q.seen
  <2>1. SUFFICES ASSUME q.op = "reorder" PROVE Numbered(q.list)' /\ DOMAIN q.list = DOMAIN q.seen
    OBVIOUS
  <2>2. Numbered(q.list) /\ DOMAIN q.list = DOMAIN q.seen
    BY <2>1 DEF TestRequest
  <2>3. 0 .. Len(results) - 1 \subseteq 0 .. Len(results') - 1
    BY <1>1 DEF Onward
  <2>4. Numbered(q.list)'
    BY <1>2, <2>2, <2>3 DEF Numbered
  <2> QED
    BY <2>2, <2>4
<1>5. q.op \in OnCase => q.case \in 1 .. Len(results')
  BY <1>1 DEF TestRequest, Onward
<1>6. q.op = "record" =>
        /\ q.result \in TestResult /\ q.at \in 1 .. clock'
        /\ q.seen \in TestCase /\ q.seen.state = "ACTIVE"
        /\ q.case \in DOMAIN cases' => cases'[q.case].state # "DRAFT"
  BY <1>1 DEF TestRequest, Onward, OnCase
<1> HIDE DEF q
<1>7. /\ q.op = "suite" => q.verb \in DOMAIN From /\ q.seen \in From[q.verb]
      /\ q.op = "link" => q.ticket \in DOMAIN Filed
      /\ q.op \in { "create", "edit" } => q.covers \in 0 .. Len(Filed)
      /\ q.op = "delete" => q.seen.state = "DRAFT"
  BY DEF TestRequest, q
<1>8. TestRequest(q)'
  BY <1>2, <1>3, <1>4, <1>5, <1>6, <1>7 DEF TestRequest
<1> QED
  BY <1>8 DEF q

LEMMA KeepRequests ==
  ASSUME TestsTyped, Requests, Onward, NEW s \in Slot, OnlySlot(s), TestRequest(inflight[s])'
  PROVE  Requests'
<1>1. \A t \in Slot \ {s} : TestRequest(inflight[t])'
  BY KeepRequest DEF OnlySlot, Requests
<1> QED
  BY <1>1 DEF Requests

LEMMA KeepOpenRows ==
  ASSUME TestsTyped, OpenRows, overlapped => overlapped', NEW s \in Slot, OnlySlot(s), LocksKept(s),
         Is(s, "open")' => OpenRow(inflight[s])'
  PROVE  OpenRows'
<1>1. SUFFICES ASSUME NEW t \in Slot \ {s}, Is(t, "open")'
               PROVE  OpenRow(inflight[t])'
  BY DEF OpenRows
<1>2. inflight'[t] = inflight[t] /\ Is(t, "open") /\ OpenRow(inflight[t])
  BY <1>1 DEF OnlySlot, Is, OpenRows
<1>3. inflight[t].case \in DOMAIN cases' /\ cases'[inflight[t].case] = cases[inflight[t].case]
  BY <1>2 DEF LocksKept
<1> QED
  BY <1>2, <1>3 DEF OpenRow

LEMMA KeepOneLock ==
  ASSUME TestsTyped, OneLock, NEW s \in Slot, OnlySlot(s), inflight'[s].op # "open"
  PROVE  OneLock'
BY DEF OneLock, OnlySlot, Is

\* The cases stay as they are.
LEMMA CasesLeft ==
  ASSUME SuiteInv, NEW s \in Slot, UNCHANGED <<cases, results, clock>>, overlapped => overlapped'
  PROVE  Onward /\ LocksKept(s)
<1>1. Len(results) \in Nat /\ clock \in Nat
  BY CaseList DEF SuiteInv, TestsTyped
<1>2. Onward
  BY <1>1 DEF Onward
<1>3. LocksKept(s)
  BY DEF LocksKept, SuiteInv, OpenRows, OpenRow
<1> QED
  BY <1>2, <1>3

\* A request loads, or a step is about bugs alone.
LEMMA TestsLeft ==
  ASSUME SuiteInv, UNCHANGED <<suite, links, cases, results>>,
         clock' \in 0 .. MaxRuns, clock <= clock',
         overlapped' \in BOOLEAN, overlapped => overlapped',
         NEW s \in Slot, OnlySlot(s), inflight'[s].op # "open", TestRequest(inflight[s])'
  PROVE  SuiteInv'
<1> USE DEF SuiteInv
<1>1. Onward /\ LocksKept(s)
  <2>1. Len(results) \in Nat /\ clock' \in Nat
    BY CaseList
  <2>2. LocksKept(s)
    BY DEF LocksKept, OpenRows, OpenRow
  <2> QED
    BY <2>1, <2>2 DEF Onward
<1>2. TestsTyped'
  BY DEF TestsTyped, OnlySlot
<1>3. CasesSound'
  BY DEF CasesSound
<1>4. Requests'
  BY <1>1, KeepRequests
<1>5. OpenRows'
  BY <1>1, KeepOpenRows DEF Is
<1>6. OneLock'
  BY KeepOneLock
<1>7. TestsUndisturbed'
  BY DEF TestsUndisturbed
<1> QED
  BY <1>2, <1>3, <1>4, <1>5, <1>6, <1>7

LEMMA StartOnly ==
  ASSUME TestsTyped, NEW s \in Slot, NEW r, Start(s, r)
  PROVE  OnlySlot(s) /\ inflight'[s] = r
BY DEF TestsTyped, Start, OnlySlot

LEMMA SettleOnly ==
  ASSUME TestsTyped, NEW s \in Slot, NEW now, Settle(s, now)
  PROVE  /\ OnlySlot(s) /\ inflight'[s] = Idle
         /\ overlapped' \in BOOLEAN /\ (overlapped => overlapped')
         /\ ~overlapped' => ~overlapped /\ inflight[s].seen = now
BY DEF TestsTyped, Settle, OnlySlot

\* A write that is done asks nothing more.
LEMMA NothingAsked ==
  ASSUME NEW s \in Slot, inflight'[s].op \in { "idle", "open" } \cup OnBug
  PROVE  TestRequest(inflight[s])'
BY DEF TestRequest, OnCase, OnBug

LEMMA WriteDone ==
  ASSUME SuiteInv, NEW s \in Slot, OnlySlot(s), inflight'[s] = Idle, Onward, LocksKept(s)
  PROVE  Requests' /\ OpenRows' /\ OneLock'
<1>1. inflight'[s].op = "idle"
  BY DEF Idle
<1>2. TestRequest(inflight[s])'
  BY <1>1, NothingAsked
<1>3. Requests'
  BY <1>2, KeepRequests DEF SuiteInv
<1>4. OpenRows'
  BY <1>1, KeepOpenRows DEF SuiteInv, Is, Onward
<1>5. OneLock'
  BY <1>1, KeepOneLock DEF SuiteInv
<1> QED
  BY <1>3, <1>4, <1>5

-----------------------------------------------------------------------------
(* The steps of the suite                                                  *)

LEMMA LoadTestsKeeps ==
  ASSUME SuiteInv, NEW s \in Slot, LoadTests(s)
  PROVE  SuiteInv' /\ OnlySlot(s) /\ inflight'[s].op \notin OnBug
<1> USE DEF SuiteInv
<1>0. Len(results) \in Nat /\ clock \in Nat /\ clock \in 0 .. MaxRuns /\ MaxRuns \in Nat
  BY CaseList, TestCasesAssumption DEF TestsTyped
<1>1. /\ UNCHANGED <<suite, links, cases, results, overlapped>>
      /\ overlapped \in BOOLEAN
  BY DEF LoadTests, TestsTyped
<1>2. ASSUME OnlySlot(s), inflight'[s].op # "open", inflight'[s].op \notin OnBug,
             TestRequest(inflight[s])', clock' \in 0 .. MaxRuns, clock <= clock'
      PROVE  SuiteInv' /\ OnlySlot(s) /\ inflight'[s].op \notin OnBug
  BY <1>1, <1>2, TestsLeft
<1>3. ASSUME NEW verb \in DOMAIN From, LoadSuiteMove(s, verb), UNCHANGED clock
      PROVE  SuiteInv' /\ OnlySlot(s) /\ inflight'[s].op \notin OnBug
  <2>1. /\ OnlySlot(s)
        /\ inflight'[s] = [op |-> "suite", verb |-> verb, seen |-> suite.state]
        /\ suite.state \in From[verb]
    BY <1>3, StartOnly DEF LoadSuiteMove
  <2>2. TestRequest(inflight[s])'
    BY <2>1 DEF TestRequest, OnCase
  <2> QED
    BY <1>0, <1>2, <1>3, <2>1, <2>2 DEF OnBug
<1>4. ASSUME NEW t \in DOMAIN Filed, LoadLink(s, t), UNCHANGED clock
      PROVE  SuiteInv' /\ OnlySlot(s) /\ inflight'[s].op \notin OnBug
  <2>1. /\ OnlySlot(s)
        /\ inflight'[s] = [op |-> "link", ticket |-> t, seen |-> suite.state]
    BY <1>4, StartOnly DEF LoadLink
  <2>2. TestRequest(inflight[s])'
    BY <2>1 DEF TestRequest, OnCase
  <2> QED
    BY <1>0, <1>2, <1>4, <2>1, <2>2 DEF OnBug
<1>5. ASSUME NEW t \in 0 .. Len(Filed), LoadCreate(s, t), UNCHANGED clock
      PROVE  SuiteInv' /\ OnlySlot(s) /\ inflight'[s].op \notin OnBug
  <2>1. /\ OnlySlot(s)
        /\ inflight'[s] = [op |-> "create", covers |-> t, seen |-> <<suite.state, LastOrder>>]
    BY <1>5, StartOnly DEF LoadCreate
  <2>2. LastOrder + 1 \in 0 .. Len(results) /\ results' = results
    BY <1>1, LastOrderIs
  <2>3. inflight'[s].seen[2] = LastOrder /\ inflight'[s].op = "create" /\ inflight'[s].covers = t
    BY <2>1
  <2>4. TestRequest(inflight[s])'
    BY <2>2, <2>3 DEF TestRequest, OnCase
  <2> QED
    BY <1>0, <1>2, <1>5, <2>3, <2>1, <2>4 DEF OnBug
<1>6. ASSUME NEW c \in DOMAIN cases, NEW t \in 0 .. Len(Filed), LoadEdit(s, c, t), UNCHANGED clock
      PROVE  SuiteInv' /\ OnlySlot(s) /\ inflight'[s].op \notin OnBug
  <2>1. /\ OnlySlot(s)
        /\ inflight'[s] = [op |-> "edit", case |-> c, covers |-> t, seen |-> cases[c]]
    BY <1>6, StartOnly DEF LoadEdit
  <2>2. TestRequest(inflight[s])'
    BY <1>1, <2>1, CaseList DEF TestRequest, OnCase
  <2> QED
    BY <1>0, <1>2, <1>6, <2>1, <2>2 DEF OnBug
<1>7. ASSUME NEW c \in DOMAIN cases, NEW target \in 0 .. LastPlace(cases),
             LoadReorder(s, c, target), UNCHANGED clock
      PROVE  SuiteInv' /\ OnlySlot(s) /\ inflight'[s].op \notin OnBug
  <2> DEFINE list == MovedTo(cases, c, target)
             seen == [d \in DOMAIN cases |-> cases[d].order]
  <2>1. /\ OnlySlot(s)
        /\ inflight'[s] = [op |-> "reorder", list |-> list, seen |-> seen]
    BY <1>7, StartOnly DEF LoadReorder
  <2>2. Numbered(list) /\ DOMAIN list = DOMAIN seen /\ results' = results
    BY <1>1, MovedIsNumbered
  <2> HIDE DEF list, seen
  <2>3. TestRequest(inflight[s])'
    BY <2>1, <2>2 DEF TestRequest, Numbered, OnCase
  <2> QED
    BY <1>0, <1>2, <1>7, <2>1, <2>3 DEF OnBug
<1>8. ASSUME NEW c \in DOMAIN cases, LoadPublish(s, c), UNCHANGED clock
      PROVE  SuiteInv' /\ OnlySlot(s) /\ inflight'[s].op \notin OnBug
  <2>1. /\ OnlySlot(s)
        /\ inflight'[s] = [op |-> "publish", case |-> c, seen |-> cases[c]]
    BY <1>8, StartOnly DEF LoadPublish
  <2>2. TestRequest(inflight[s])'
    BY <1>1, <2>1, CaseList DEF TestRequest, OnCase
  <2> QED
    BY <1>0, <1>2, <1>8, <2>1, <2>2 DEF OnBug
<1>9. ASSUME NEW c \in DOMAIN cases, LoadRemove(s, c), UNCHANGED clock
      PROVE  SuiteInv' /\ OnlySlot(s) /\ inflight'[s].op \notin OnBug
  <2>1. /\ OnlySlot(s)
        /\ inflight'[s] = [op |-> IF cases[c].state = "DRAFT" THEN "delete" ELSE "retire",
                           case |-> c, seen |-> cases[c]]
    BY <1>9, StartOnly DEF LoadRemove
  <2>2. TestRequest(inflight[s])' /\ inflight'[s].op \in { "delete", "retire" }
    BY <1>1, <2>1, CaseList DEF TestRequest, OnCase
  <2> QED
    BY <1>0, <1>2, <1>9, <2>1, <2>2 DEF OnBug
<1>10. ASSUME NEW c \in DOMAIN cases, NEW result \in TestResult, LoadRecord(s, c, result)
       PROVE  SuiteInv' /\ OnlySlot(s) /\ inflight'[s].op \notin OnBug
  <2>1. /\ OnlySlot(s) /\ clock' = clock + 1 /\ clock < MaxRuns
        /\ inflight'[s] = [op |-> "record", case |-> c, result |-> result, at |-> clock',
                           seen |-> cases[c]]
        /\ cases[c].state = "ACTIVE"
    BY <1>10, StartOnly DEF LoadRecord
  <2>2. TestRequest(inflight[s])'
    BY <1>0, <1>1, <2>1, CaseList DEF TestRequest, OnCase
  <2> QED
    BY <1>0, <1>2, <2>1, <2>2 DEF OnBug
<1> QED
  BY <1>3, <1>4, <1>5, <1>6, <1>7, <1>8, <1>9, <1>10 DEF LoadTests, LoadCase

\* Steps that leave the cases and their results alone.
LEMMA MoveSuiteKeeps ==
  ASSUME SuiteInv, NEW s \in Slot, MoveSuite(s)
  PROVE  SuiteInv'
<1> USE DEF SuiteInv
<1> DEFINE verb == inflight[s].verb
<1>1. /\ OnlySlot(s) /\ inflight'[s] = Idle
      /\ overlapped' \in BOOLEAN /\ (overlapped => overlapped')
      /\ ~overlapped' => ~overlapped /\ inflight[s].seen = suite.state
  BY SettleOnly DEF MoveSuite
<1>2. UNCHANGED <<links, cases, results, clock>> /\ suite' = SuiteMoved(verb)
  BY DEF MoveSuite
<1>3. verb \in DOMAIN From /\ inflight[s].seen \in From[verb]
  BY DEF MoveSuite, Is, Requests, TestRequest
<1>4. /\ suite' \in [state : TestState, isArchived : BOOLEAN, ran : 0 .. MaxRuns]
      /\ suite'.ran = suite.ran
      /\ suite.isArchived = (suite.state = "ARCHIVED") /\ suite.state \in From[verb] =>
           suite'.isArchived = (suite'.state = "ARCHIVED")
  <2>1. suite \in [state : TestState, isArchived : BOOLEAN, ran : 0 .. MaxRuns]
    BY DEF TestsTyped
  <2>2. verb \in { "publish", "archive", "unarchive" }
    BY <1>3 DEF From
  <2>3. CASE verb = "publish"
    BY <1>2, <2>1, <2>3 DEF SuiteMoved, TestState, From
  <2>4. CASE verb = "archive"
    BY <1>2, <2>1, <2>4 DEF SuiteMoved, TestState, From
  <2>5. CASE verb = "unarchive"
    BY <1>2, <2>1, <2>5 DEF SuiteMoved, TestState, From
  <2> QED
    BY <2>2, <2>3, <2>4, <2>5
<1>5. Onward /\ LocksKept(s)
  BY <1>1, <1>2, CasesLeft
<1>6. TestsTyped'
  <2>1. links' \subseteq DOMAIN Filed /\ clock' \in 0 .. MaxRuns
    BY <1>2 DEF TestsTyped
  <2>3. DOMAIN inflight' = Slot /\ overlapped' \in BOOLEAN
    BY <1>1, Zenon DEF OnlySlot
  <2>2. /\ results' \in Seq(Seq(TestResultRow)) /\ Len(results') <= MaxCases
        /\ cases' \in [DOMAIN cases' -> TestCase] /\ DOMAIN cases' \subseteq 1 .. Len(results')
    BY <1>2 DEF TestsTyped
  <2> QED
    BY <1>4, <2>1, <2>2, <2>3 DEF TestsTyped
<1>7. CasesSound'
  BY <1>2 DEF CasesSound
<1>8. TestsUndisturbed'
  BY <1>1, <1>2, <1>3, <1>4 DEF TestsUndisturbed
<1> QED
  BY <1>1, <1>5, <1>6, <1>7, <1>8, WriteDone

LEMMA LinkKeeps ==
  ASSUME SuiteInv, NEW s \in Slot, Link(s)
  PROVE  SuiteInv'
<1> USE DEF SuiteInv
<1>1. /\ OnlySlot(s) /\ inflight'[s] = Idle
      /\ overlapped' \in BOOLEAN /\ (overlapped => overlapped')
      /\ ~overlapped' => ~overlapped /\ inflight[s].seen = suite.state
  BY SettleOnly DEF Link
<1>2. UNCHANGED <<suite, cases, results, clock>> /\ links' = links \cup {inflight[s].ticket}
  BY DEF Link
<1>3. inflight[s].ticket \in DOMAIN Filed
  BY DEF Link, Is, Requests, TestRequest
<1>5. Onward /\ LocksKept(s)
  BY <1>1, <1>2, CasesLeft
<1>6. TestsTyped'
  <2>1. links' \subseteq DOMAIN Filed /\ clock' \in 0 .. MaxRuns
    BY <1>2, <1>3 DEF TestsTyped
  <2>3. DOMAIN inflight' = Slot /\ overlapped' \in BOOLEAN
    BY <1>1, Zenon DEF OnlySlot
  <2>2. /\ suite' \in [state : TestState, isArchived : BOOLEAN, ran : 0 .. MaxRuns]
        /\ results' \in Seq(Seq(TestResultRow)) /\ Len(results') <= MaxCases
        /\ cases' \in [DOMAIN cases' -> TestCase] /\ DOMAIN cases' \subseteq 1 .. Len(results')
    BY <1>2 DEF TestsTyped
  <2> QED
    BY <2>1, <2>2, <2>3 DEF TestsTyped
<1>7. CasesSound' /\ TestsUndisturbed'
  BY <1>1, <1>2 DEF CasesSound, TestsUndisturbed
<1> QED
  BY <1>1, <1>5, <1>6, <1>7, WriteDone

LEMMA UnlinkKeeps ==
  ASSUME SuiteInv, NEW t \in links, Unlink(t)
  PROVE  SuiteInv'
<1> USE DEF SuiteInv
<1>1. UNCHANGED <<suite, cases, results, clock, inflight, overlapped>> /\ links' = links \ {t}
  BY DEF Unlink
<1>2. TestsTyped'
  BY <1>1 DEF TestsTyped
<1>3. CasesSound' /\ OneLock' /\ TestsUndisturbed'
  BY <1>1 DEF CasesSound, OneLock, TestsUndisturbed, Is
<1>4. Requests'
  BY <1>1 DEF Requests, TestRequest, Numbered
<1>5. OpenRows'
  BY <1>1 DEF OpenRows, OpenRow, Is
<1> QED
  BY <1>2, <1>3, <1>4, <1>5

\* Rows whose states and runs stay have the same latest run.
LEMMA LatestKept ==
  ASSUME NEW r, NEW old, NEW new, LatestOf(r, old),
         \A c : c \in DOMAIN old /\ old[c].state = "ACTIVE" <=>
                c \in DOMAIN new /\ new[c].state = "ACTIVE",
         \A c \in DOMAIN old \cap DOMAIN new : old[c].ran = new[c].ran
  PROVE  LatestOf(r, new)
BY DEF LatestOf

LEMMA CreateKeeps ==
  ASSUME SuiteInv, NEW s \in Slot, Create(s)
  PROVE  SuiteInv' /\ DOMAIN cases \subseteq DOMAIN cases'
<1> USE DEF SuiteInv
<1> DEFINE c   == Len(results) + 1
           q   == inflight[s]
           row == [state |-> "DRAFT", result |-> "NOT_RUN", ran |-> 0,
                   order |-> q.seen[2] + 1, covers |-> q.covers]
<1>1. /\ OnlySlot(s) /\ inflight'[s] = Idle
      /\ overlapped' \in BOOLEAN /\ (overlapped => overlapped')
      /\ ~overlapped' => ~overlapped /\ q.seen = <<suite.state, LastOrder>>
  BY SettleOnly DEF Create
<1>2. /\ UNCHANGED <<suite, links, clock>> /\ c <= MaxCases
      /\ results' = Append(results, <<>>)
      /\ cases' = [d \in DOMAIN cases \cup {c} |-> IF d # c THEN cases[d] ELSE row]
  BY DEF Create
<1>3. /\ q.covers \in 0 .. Len(Filed) /\ q.seen[2] + 1 \in 0 .. Len(results)
  BY DEF Create, Is, Requests, TestRequest
<1>4. Len(results) \in Nat /\ c \notin DOMAIN cases /\ \A d \in DOMAIN cases : d \in 1 .. Len(results)
  BY CaseList
<1>5. /\ results' \in Seq(Seq(TestResultRow)) /\ Len(results') = c
      /\ results'[c] = <<>> /\ \A d \in 1 .. Len(results) : results'[d] = results[d]
  <2>1. results \in Seq(Seq(TestResultRow)) /\ <<>> \in Seq(TestResultRow)
    BY EmptySeq DEF TestsTyped
  <2> QED
    BY <1>2, <2>1, AppendProperties
<1>6. /\ DOMAIN cases' = DOMAIN cases \cup {c} /\ cases'[c] = row
      /\ \A d \in DOMAIN cases : cases'[d] = cases[d]
  BY <1>2, <1>4
<1>7. row \in TestCase /\ row.order <= Len(results) /\ row.order \in Nat
  <2>1. q.seen[2] + 1 \in 0 .. MaxCases /\ MaxRuns \in Nat
    BY <1>2, <1>3, <1>4, TestCasesAssumption
  <2> QED
    BY <1>3, <2>1, TestCasesAssumption DEF TestCase, TestState
<1>8. row.state = "DRAFT" /\ row.ran = 0 /\ row.result = "NOT_RUN" /\ row.order = q.seen[2] + 1
  OBVIOUS
<1> HIDE DEF row, c, q
<1>9. Onward /\ LocksKept(s)
  <2>1. c \in Nat /\ Len(results) <= c /\ c \notin 1 .. Len(results)
    BY <1>4 DEF c
  <2>2. clock \in Nat
    BY DEF TestsTyped
  <2>3. Onward
    BY <1>1, <1>2, <1>5, <1>6, <2>1, <2>2 DEF Onward
  <2>4. LocksKept(s)
    BY <1>6 DEF LocksKept, OpenRows, OpenRow
  <2> QED
    BY <2>3, <2>4
<1>10. TestsTyped'
  <2>1. cases' \in [DOMAIN cases' -> TestCase]
    BY <1>2, <1>6, <1>7 DEF TestsTyped
  <2>2. DOMAIN cases' \subseteq 1 .. Len(results')
    BY <1>4, <1>5, <1>6 DEF c
  <2>3. /\ suite' \in [state : TestState, isArchived : BOOLEAN, ran : 0 .. MaxRuns]
        /\ links' \subseteq DOMAIN Filed /\ clock' \in 0 .. MaxRuns
    BY <1>2 DEF TestsTyped
  <2>4. DOMAIN inflight' = Slot /\ overlapped' \in BOOLEAN
    BY <1>1, Zenon DEF OnlySlot
  <2>5. results' \in Seq(Seq(TestResultRow)) /\ Len(results') <= MaxCases
    BY <1>2, <1>5
  <2> QED
    BY <2>1, <2>2, <2>3, <2>4, <2>5 DEF TestsTyped
<1>11. CasesSound'
  <2>1. ASSUME NEW d \in DOMAIN cases
        PROVE  cases'[d].order < Len(results') /\ SoundCase(cases'[d], results'[d])
    <3>1. cases[d].order < Len(results) /\ SoundCase(cases[d], results[d]) /\ cases[d].order \in Nat
      BY CaseList DEF CasesSound
    <3> QED
      BY <1>4, <1>5, <1>6, <3>1 DEF c
  <2>2. cases'[c].order < Len(results') /\ SoundCase(cases'[c], results'[c])
    BY <1>4, <1>5, <1>6, <1>7, <1>8 DEF SoundCase, c
  <2> QED
    BY <1>6, <2>1, <2>2 DEF CasesSound
<1>12. TestsUndisturbed'
  <2> SUFFICES ASSUME ~overlapped'
               PROVE  /\ LatestOf(suite'.ran, cases')
                      /\ suite'.isArchived = (suite'.state = "ARCHIVED")
                      /\ \A d, e \in DOMAIN cases' : d # e => cases'[d].order # cases'[e].order
                      /\ \A d \in DOMAIN cases' : Chained(results'[d], cases'[d].result)
    BY DEF TestsUndisturbed
  <2>1. /\ LatestOf(suite.ran, cases)
        /\ suite.isArchived = (suite.state = "ARCHIVED")
        /\ \A d, e \in DOMAIN cases : d # e => cases[d].order # cases[e].order
        /\ \A d \in DOMAIN cases : Chained(results[d], cases[d].result)
    BY <1>1 DEF TestsUndisturbed
  <2>2. LatestOf(suite.ran, cases')
    BY <1>4, <1>6, <1>8, <2>1, LatestKept
  <2>3. row.order = LastOrder + 1
    BY <1>1, <1>8
  <2>4. \A d \in DOMAIN cases : cases[d].order # row.order
    <3>1. \A d \in DOMAIN cases : cases[d].order <= LastOrder /\ cases[d].order \in Nat
      BY CaseList, LastOrderIs
    <3>2. LastOrder \in Int
      BY LastOrderIs
    <3> QED
      BY <2>3, <3>1, <3>2
  <2>5. Chained(results'[c], cases'[c].result)
    BY <1>5 DEF Chained
  <2> QED
    BY <1>2, <1>4, <1>5, <1>6, <2>1, <2>2, <2>4, <2>5
<1> QED
  BY <1>1, <1>6, <1>9, <1>10, <1>11, <1>12, WriteDone

\* A write to rows that gives none another state or result.
LEMMA RewriteKeeps ==
  ASSUME SuiteInv, NEW s \in Slot, OnlySlot(s), inflight'[s] = Idle,
         overlapped' \in BOOLEAN, overlapped => overlapped',
         UNCHANGED <<suite, links, results, clock>>,
         DOMAIN cases' = DOMAIN cases, cases' \in [DOMAIN cases' -> TestCase], LocksKept(s),
         \A c \in DOMAIN cases : /\ cases'[c].state = cases[c].state
                                 /\ cases'[c].result = cases[c].result
                                 /\ cases'[c].ran = cases[c].ran
                                 /\ cases'[c].order < Len(results),
         ~overlapped' => \A c, d \in DOMAIN cases : c # d => cases'[c].order # cases'[d].order
  PROVE  SuiteInv'
<1> USE DEF SuiteInv
<1>1. Onward
  BY CaseList DEF Onward, TestsTyped
<1>2. TestsTyped'
  <2>1. /\ suite' \in [state : TestState, isArchived : BOOLEAN, ran : 0 .. MaxRuns]
        /\ links' \subseteq DOMAIN Filed /\ clock' \in 0 .. MaxRuns
        /\ results' \in Seq(Seq(TestResultRow)) /\ Len(results') <= MaxCases
        /\ DOMAIN cases' \subseteq 1 .. Len(results')
    BY DEF TestsTyped
  <2> QED
    BY <2>1 DEF TestsTyped, OnlySlot
<1>3. CasesSound'
  BY DEF CasesSound, SoundCase
<1>4. TestsUndisturbed'
  <2> SUFFICES ASSUME ~overlapped' PROVE TestsUndisturbed'
    BY DEF TestsUndisturbed
  <2>1. /\ LatestOf(suite.ran, cases)
        /\ suite.isArchived = (suite.state = "ARCHIVED")
        /\ \A c \in DOMAIN cases : Chained(results[c], cases[c].result)
    BY DEF TestsUndisturbed
  <2>2. LatestOf(suite.ran, cases')
    BY <2>1, LatestKept
  <2> QED
    BY <2>1, <2>2 DEF TestsUndisturbed
<1> QED
  BY <1>1, <1>2, <1>3, <1>4, WriteDone

LEMMA EditKeeps ==
  ASSUME SuiteInv, NEW s \in Slot, Edit(s)
  PROVE  SuiteInv' /\ DOMAIN cases' = DOMAIN cases
<1> DEFINE q == inflight[s]
<1>1. /\ OnlySlot(s) /\ inflight'[s] = Idle
      /\ overlapped' \in BOOLEAN /\ (overlapped => overlapped')
      /\ ~overlapped' => ~overlapped /\ q.seen = cases[q.case]
  BY SettleOnly DEF Edit, SuiteInv
<1>2. /\ UNCHANGED <<suite, links, results, clock>>
      /\ q.case \in DOMAIN cases /\ ~Locked(q.case)
      /\ cases' = [cases EXCEPT ![q.case].covers = q.covers]
  BY DEF Edit
<1>3. q.covers \in 0 .. Len(Filed)
  BY DEF Edit, Is, SuiteInv, Requests, TestRequest
<1>4. /\ DOMAIN cases' = DOMAIN cases
      /\ \A c \in DOMAIN cases \ {q.case} : cases'[c] = cases[c]
      /\ cases'[q.case] = [cases[q.case] EXCEPT !.covers = q.covers]
      /\ cases' = [c \in DOMAIN cases |-> cases'[c]]
  BY <1>2
<1>5. \A c \in DOMAIN cases : /\ cases'[c] \in TestCase
                              /\ cases'[c].state = cases[c].state
                              /\ cases'[c].result = cases[c].result
                              /\ cases'[c].ran = cases[c].ran
                              /\ cases'[c].order = cases[c].order
  <2>1. \A c \in DOMAIN cases : cases[c] \in TestCase
    BY CaseList DEF SuiteInv
  <2>2. /\ cases'[q.case] \in TestCase
        /\ cases'[q.case].state = cases[q.case].state
        /\ cases'[q.case].result = cases[q.case].result
        /\ cases'[q.case].ran = cases[q.case].ran
        /\ cases'[q.case].order = cases[q.case].order
    BY <1>2, <1>3, <1>4, <2>1 DEF TestCase
  <2> QED
    BY <1>4, <2>1, <2>2
<1> HIDE DEF q
<1>6. cases' \in [DOMAIN cases' -> TestCase]
  BY <1>4, <1>5
<1>7. LocksKept(s)
  BY <1>2, <1>4 DEF LocksKept, Locked, SuiteInv, OpenRows, OpenRow
<1>8. \A c \in DOMAIN cases : cases'[c].order < Len(results)
  BY <1>5 DEF SuiteInv, CasesSound
<1>9. ~overlapped' => \A c, d \in DOMAIN cases : c # d => cases'[c].order # cases'[d].order
  BY <1>1, <1>5 DEF SuiteInv, TestsUndisturbed
<1> QED
  BY <1>1, <1>2, <1>4, <1>5, <1>6, <1>7, <1>8, <1>9, RewriteKeeps

LEMMA ReorderKeeps ==
  ASSUME SuiteInv, NEW s \in Slot, Reorder(s)
  PROVE  SuiteInv' /\ DOMAIN cases' = DOMAIN cases
<1> DEFINE q    == inflight[s]
           list == q.list
           now  == [d \in DOMAIN cases |-> cases[d].order]
<1>1. /\ OnlySlot(s) /\ inflight'[s] = Idle
      /\ overlapped' \in BOOLEAN /\ (overlapped => overlapped')
      /\ ~overlapped' => ~overlapped /\ q.seen = now
  BY SettleOnly DEF Reorder, SuiteInv
<1>2. /\ UNCHANGED <<suite, links, results, clock>>
      /\ DOMAIN list \subseteq DOMAIN cases /\ \A c \in DOMAIN list : ~Locked(c)
      /\ cases' = [c \in DOMAIN cases |->
           IF c \in DOMAIN list THEN [cases[c] EXCEPT !.order = list[c].order] ELSE cases[c]]
  BY DEF Reorder
<1>3. Numbered(list) /\ DOMAIN list = DOMAIN q.seen
  BY DEF Reorder, Is, SuiteInv, Requests, TestRequest
<1>4. ~overlapped' => DOMAIN list = DOMAIN cases
  BY <1>1, <1>3
<1> HIDE DEF q, list, now
<1>5. /\ DOMAIN cases' = DOMAIN cases
      /\ \A c \in DOMAIN cases \ DOMAIN list : cases'[c] = cases[c]
      /\ \A c \in DOMAIN list : cases'[c] = [cases[c] EXCEPT !.order = list[c].order]
  BY <1>2
<1>6. \A c \in DOMAIN cases : cases[c] \in TestCase /\ cases[c].order < Len(results)
  BY CaseList DEF SuiteInv, CasesSound
<1>7. \A c \in DOMAIN list : list[c].order \in 0 .. MaxCases /\ list[c].order < Len(results)
  <2>1. Len(results) \in Nat /\ Len(results) <= MaxCases /\ MaxCases \in Nat
    BY CaseList, TestCasesAssumption DEF SuiteInv, TestsTyped
  <2>2. \A c \in DOMAIN list : list[c].order \in 0 .. Len(results) - 1
    BY <1>3 DEF Numbered
  <2> QED
    BY <2>1, <2>2
<1>8. \A c \in DOMAIN list : /\ cases'[c] \in TestCase
                             /\ cases'[c].state = cases[c].state
                             /\ cases'[c].result = cases[c].result
                             /\ cases'[c].ran = cases[c].ran
                             /\ cases'[c].order = list[c].order
  BY <1>2, <1>5, <1>6, <1>7 DEF TestCase
<1>9. \A c \in DOMAIN cases : /\ cases'[c] \in TestCase
                              /\ cases'[c].state = cases[c].state
                              /\ cases'[c].result = cases[c].result
                              /\ cases'[c].ran = cases[c].ran
                              /\ cases'[c].order < Len(results)
  BY <1>2, <1>5, <1>6, <1>7, <1>8
<1>10. cases' \in [DOMAIN cases' -> TestCase]
  BY <1>2, <1>5, <1>9
<1>11. LocksKept(s)
  BY <1>2, <1>5 DEF LocksKept, Locked, SuiteInv, OpenRows, OpenRow
<1>12. ~overlapped' => \A c, d \in DOMAIN cases : c # d => cases'[c].order # cases'[d].order
  BY <1>3, <1>4, <1>8 DEF Numbered
<1> QED
  BY <1>1, <1>2, <1>5, <1>9, <1>10, <1>11, <1>12, RewriteKeeps

LEMMA DeleteKeeps ==
  ASSUME SuiteInv, NEW s \in Slot, Delete(s)
  PROVE  SuiteInv' /\ DOMAIN cases' = DOMAIN cases \ {inflight[s].case}
<1> USE DEF SuiteInv
<1> DEFINE q == inflight[s]
           x == q.case
<1>1. /\ OnlySlot(s) /\ inflight'[s] = Idle
      /\ overlapped' \in BOOLEAN /\ (overlapped => overlapped')
      /\ ~overlapped' => ~overlapped /\ q.seen = cases[x]
  BY SettleOnly DEF Delete
<1>2. /\ UNCHANGED <<suite, links, clock>>
      /\ x \in DOMAIN cases /\ ~Locked(x)
      /\ cases' = [c \in DOMAIN cases \ {x} |-> cases[c]]
      /\ results' = [results EXCEPT ![x] = <<>>]
  BY DEF Delete
<1>3. q.seen.state = "DRAFT"
  BY DEF Delete, Is, Requests, TestRequest
<1> HIDE DEF q, x
<1>4. /\ DOMAIN cases' = DOMAIN cases \ {x}
      /\ \A c \in DOMAIN cases' : cases'[c] = cases[c]
  BY <1>2
<1>5. /\ results' \in Seq(Seq(TestResultRow)) /\ Len(results') = Len(results)
      /\ \A c \in 1 .. Len(results) \ {x} : results'[c] = results[c]
  <2>1. results \in Seq(Seq(TestResultRow)) /\ <<>> \in Seq(TestResultRow) /\ x \in 1 .. Len(results)
    BY <1>2, EmptySeq, CaseList DEF TestsTyped
  <2> QED
    BY <1>2, <2>1, ExceptSeq
<1>6. Onward
  BY <1>1, <1>2, <1>4, <1>5, CaseList DEF Onward, TestsTyped
<1>7. LocksKept(s)
  BY <1>2, <1>4 DEF LocksKept, Locked, OpenRows, OpenRow
<1>8. TestsTyped'
  <2>1. cases' \in [DOMAIN cases' -> TestCase]
    BY <1>2, <1>4, CaseList
  <2>2. /\ suite' \in [state : TestState, isArchived : BOOLEAN, ran : 0 .. MaxRuns]
        /\ links' \subseteq DOMAIN Filed /\ clock' \in 0 .. MaxRuns
        /\ DOMAIN cases' \subseteq 1 .. Len(results')
    BY <1>2, <1>4, <1>5 DEF TestsTyped
  <2>3. Len(results') <= MaxCases
    BY <1>5 DEF TestsTyped
  <2> QED
    BY <1>1, <1>5, <2>1, <2>2, <2>3 DEF TestsTyped, OnlySlot
<1>9. CasesSound'
  BY <1>4, <1>5, CaseList DEF CasesSound
<1>10. TestsUndisturbed'
  <2> SUFFICES ASSUME ~overlapped' PROVE TestsUndisturbed'
    BY DEF TestsUndisturbed
  <2>1. /\ LatestOf(suite.ran, cases)
        /\ suite.isArchived = (suite.state = "ARCHIVED")
        /\ \A c, d \in DOMAIN cases : c # d => cases[c].order # cases[d].order
        /\ \A c \in DOMAIN cases : Chained(results[c], cases[c].result)
    BY <1>1 DEF TestsUndisturbed
  <2>2. cases[x].state = "DRAFT"
    BY <1>1, <1>3
  <2>3. LatestOf(suite.ran, cases')
    BY <1>4, <2>1, <2>2, LatestKept
  <2> QED
    BY <1>2, <1>4, <1>5, <2>1, <2>3, CaseList DEF TestsUndisturbed
<1> QED
  BY <1>1, <1>4, <1>6, <1>7, <1>8, <1>9, <1>10, WriteDone DEF x, q

\* A transaction begins: its row is the locked one with the change decided.
LEMMA DecidedRow ==
  ASSUME SuiteInv, NEW q, TestRequest(q), q.op \in { "publish", "retire", "record" },
         q.case \in DOMAIN cases
  PROVE  LET old == cases[q.case]
             row == Decided(q, old)
         IN  /\ row \in TestCase /\ row.state # "DRAFT" /\ row.order = old.order
             /\ \/ Entry(q) = <<>> /\ row.ran = old.ran /\ row.result = old.result
                \/ \E from \in TestResult :
                     /\ Entry(q) = <<[from |-> from, to |-> row.result]>> /\ row.ran # 0
                     /\ q.seen = old => from = old.result /\ old.state = "ACTIVE"
<1> DEFINE old == cases[q.case]
           row == Decided(q, old)
<1>1. old \in TestCase
  BY CaseList DEF SuiteInv
<1> HIDE DEF old
<1>2. CASE q.op \in { "publish", "retire" }
  <2>1. Entry(q) = <<>>
    BY <1>2 DEF Entry
  <2>2. row = [old EXCEPT !.state = "ACTIVE"] \/ row = [old EXCEPT !.state = "ARCHIVED"]
    BY <1>2 DEF Decided
  <2>3. /\ row \in TestCase /\ row.state # "DRAFT" /\ row.order = old.order
        /\ row.ran = old.ran /\ row.result = old.result
    BY <1>1, <2>2 DEF TestCase, TestState
  <2> QED
    BY <2>1, <2>3 DEF old
<1>3. CASE q.op = "record"
  <2>1. /\ q.result \in TestResult /\ q.at \in 1 .. MaxRuns
        /\ q.seen.result \in TestResult /\ q.seen.state = "ACTIVE" /\ old.state # "DRAFT"
    <3>1. q.result \in TestResult /\ q.at \in 1 .. clock /\ clock \in 0 .. MaxRuns
      BY <1>3 DEF TestRequest, SuiteInv, TestsTyped
    <3>2. q.seen \in TestCase /\ q.seen.state = "ACTIVE" /\ old.state # "DRAFT"
      BY <1>3 DEF TestRequest, old
    <3> QED
      BY <3>1, <3>2, TestCasesAssumption DEF TestCase
  <2>2. Entry(q) = <<[from |-> q.seen.result, to |-> q.result]>>
    BY <1>3 DEF Entry
  <2>3. row = [old EXCEPT !.result = q.result, !.ran = q.at]
    BY <1>3 DEF Decided
  <2>4. /\ row \in TestCase /\ row.state = old.state /\ row.order = old.order
        /\ row.result = q.result /\ row.ran # 0
    <3>1. q.at \in 0 .. MaxRuns /\ q.at # 0
      BY <2>1, TestCasesAssumption
    <3>2. old \in [ state : TestState, result : TestResult, ran : 0 .. MaxRuns,
                    order : 0 .. MaxCases, covers : 0 .. Len(Filed) ]
      BY <1>1 DEF TestCase
    <3>3. row \in [ state : TestState, result : TestResult, ran : 0 .. MaxRuns,
                    order : 0 .. MaxCases, covers : 0 .. Len(Filed) ]
      BY <2>1, <2>3, <3>1, <3>2
    <3>4. row.state = old.state /\ row.order = old.order /\ row.result = q.result /\ row.ran = q.at
      BY <2>3, <3>2
    <3> QED
      BY <3>1, <3>3, <3>4 DEF TestCase
  <2> HIDE DEF row
  <2> QED
    BY <2>1, <2>2, <2>4 DEF old, row
<1> QED
  BY <1>2, <1>3

LEMMA BeginKeeps ==
  ASSUME SuiteInv, NEW s \in Slot, Begin(s)
  PROVE  SuiteInv' /\ OnlySlot(s) /\ inflight'[s].op \notin OnBug
<1> USE DEF SuiteInv
<1> DEFINE q     == inflight[s]
           x     == q.case
           row   == Decided(q, cases[x])
           after == [cases EXCEPT ![x] = row]
           new   == [op |-> "open", case |-> x, row |-> row, entry |-> Entry(q),
                     stamp |-> Latest(after), seen |-> Runs(after, {x})]
<1>1. /\ q.op \in { "publish", "retire", "record" }
      /\ x \in DOMAIN cases /\ ~Locked(x)
      /\ inflight' = [inflight EXCEPT ![s] = new]
      /\ overlapped' = (overlapped \/ q.seen # cases[x])
      /\ UNCHANGED <<suite, links, cases, results, clock>>
  BY DEF Begin, suiteVars
<1>2. OnlySlot(s) /\ inflight'[s] = new
  BY <1>1 DEF TestsTyped, OnlySlot
<1>3. TestRequest(q)
  BY DEF Requests
<1>4. /\ row \in TestCase /\ row.state # "DRAFT" /\ row.order = cases[x].order
      /\ \/ Entry(q) = <<>> /\ row.ran = cases[x].ran /\ row.result = cases[x].result
         \/ \E from \in TestResult :
              /\ Entry(q) = <<[from |-> from, to |-> row.result]>> /\ row.ran # 0
              /\ q.seen = cases[x] => from = cases[x].result /\ cases[x].state = "ACTIVE"
  BY <1>1, <1>3, DecidedRow
<1> HIDE DEF q, x, row
<1>5. /\ Latest(after) \in 0 .. MaxRuns
      /\ IsLatest(Latest(after), Runs(after, {x}) \cup OwnRun(row))
  BY <1>1, <1>4, StampIs
<1> HIDE DEF after
<1>6. /\ inflight'[s].op = "open" /\ inflight'[s].case = x
      /\ inflight'[s].row = row /\ inflight'[s].entry = Entry(q)
      /\ inflight'[s].stamp = Latest(after) /\ inflight'[s].seen = Runs(after, {x})
  BY <1>2
<1>7. /\ overlapped' \in BOOLEAN /\ (overlapped => overlapped')
      /\ ~overlapped' => q.seen = cases[x]
  BY <1>1 DEF TestsTyped
<1>8. OpenRow(inflight[s])'
  <2>1. UNCHANGED cases
    BY <1>1
  <2>2. \/ Entry(q) = <<>> /\ row.ran = cases[x].ran /\ row.result = cases[x].result
        \/ \E from \in TestResult :
             /\ Entry(q) = <<[from |-> from, to |-> row.result]>> /\ row.ran # 0
             /\ ~overlapped' => from = cases[x].result /\ cases[x].state = "ACTIVE"
    BY <1>4, <1>7
  <2> QED
    BY <1>1, <1>4, <1>5, <1>6, <2>1, <2>2 DEF OpenRow
<1>9. Onward /\ LocksKept(s)
  BY <1>1, <1>7, CasesLeft
<1>10. TestRequest(inflight[s])'
  BY <1>6, NothingAsked
<1>11. Requests'
  BY <1>2, <1>9, <1>10, KeepRequests
<1>12. OpenRows'
  BY <1>2, <1>7, <1>8, <1>9, KeepOpenRows
<1>13. OneLock'
  <2>1. \A t \in Slot \ {s} : Is(t, "open") => inflight[t].case # x
    BY <1>1 DEF Locked
  <2> QED
    BY <1>2, <1>6, <2>1 DEF OneLock, OnlySlot, Is
<1>14. TestsTyped'
  BY <1>1, <1>2, <1>7 DEF TestsTyped, OnlySlot
<1>15. CasesSound' /\ TestsUndisturbed'
  BY <1>1, <1>7 DEF CasesSound, TestsUndisturbed
<1> QED
  BY <1>2, <1>6, <1>11, <1>12, <1>13, <1>14, <1>15 DEF OnBug

\* The rows of a case after a commit: none more, or one that takes up the last.
LEMMA RowsAfter ==
  ASSUME NEW rows \in Seq(TestResultRow), NEW old, NEW row, NEW entry, SoundCase(old, rows),
         \/ entry = <<>> /\ row.ran = old.ran /\ row.result = old.result
         \/ \E from \in TestResult :
              entry = <<[from |-> from, to |-> row.result]>> /\ row.ran # 0,
         row.state # "DRAFT", row.result \in TestResult
  PROVE  /\ rows \o entry \in Seq(TestResultRow)
         /\ SoundCase(row, rows \o entry)
         /\ entry = <<>> /\ Chained(rows, old.result) => Chained(rows \o entry, row.result)
         /\ entry # <<>> /\ Chained(rows, old.result) /\ entry[1].from = old.result =>
              Chained(rows \o entry, row.result)
         /\ Len(rows) <= Len(rows \o entry)
         /\ entry = <<>> => rows \o entry = rows
<1>1. CASE entry = <<>> /\ row.ran = old.ran /\ row.result = old.result
  <2>1. rows \o entry = rows
    BY <1>1, ConcatEmptySeq
  <2>2. Len(rows) \in Nat
    BY LenProperties
  <2> QED
    BY <1>1, <2>1, <2>2 DEF SoundCase, Chained
<1>2. ASSUME NEW from \in TestResult, entry = <<[from |-> from, to |-> row.result]>>, row.ran # 0
      PROVE  /\ rows \o entry \in Seq(TestResultRow)
             /\ SoundCase(row, rows \o entry)
             /\ entry # <<>>
             /\ Chained(rows, old.result) /\ entry[1].from = old.result =>
                  Chained(rows \o entry, row.result)
             /\ Len(rows) <= Len(rows \o entry)
  <2> DEFINE new == rows \o entry
             n   == Len(rows)
  <2>1. entry \in Seq(TestResultRow) /\ Len(entry) = 1
    BY <1>2 DEF TestResultRow
  <2>2. /\ new \in Seq(TestResultRow) /\ Len(new) = n + 1 /\ n \in Nat
        /\ \A i \in 1 .. n + 1 : new[i] = IF i <= n THEN rows[i] ELSE entry[i - n]
    <3>1. n \in Nat
      BY LenProperties
    <3>2. /\ new \in Seq(TestResultRow) /\ Len(new) = n + Len(entry)
          /\ \A i \in 1 .. n + Len(entry) : new[i] = IF i <= n THEN rows[i] ELSE entry[i - n]
      BY <2>1, ConcatProperties, Zenon
    <3> QED
      BY <2>1, <3>1, <3>2
  <2>3. /\ new[n + 1] = entry[1] /\ \A i \in 1 .. n : new[i] = rows[i]
        /\ entry[1].to = row.result /\ entry[1].from = from /\ entry # <<>>
    <3>1. n + 1 \in 1 .. n + 1 /\ ~(n + 1 <= n) /\ (n + 1) - n = 1
      BY <2>2
    <3>2. new[n + 1] = entry[1]
      BY <2>2, <3>1
    <3>3. \A i \in 1 .. n : new[i] = rows[i]
      BY <2>2
    <3> QED
      BY <1>2, <2>1, <3>2, <3>3
  <2>4. new # <<>>
    BY <2>2
  <2> HIDE DEF new, n
  <2>5. SoundCase(row, new)
    BY <1>2, <2>2, <2>3, <2>4 DEF SoundCase
  <2>6. ASSUME Chained(rows, old.result), entry[1].from = old.result
        PROVE  Chained(new, row.result)
    <3>1. CASE rows = <<>>
      <4>1. old.result = "NOT_RUN" /\ n = 0
        BY <3>1 DEF SoundCase, n
      <4> QED
        BY <2>2, <2>3, <2>6, <4>1 DEF Chained
    <3>2. CASE rows # <<>>
      <4>1. n >= 1
        BY <2>2, <3>2, EmptySeq DEF n
      <4>2. rows[1].from = "NOT_RUN" /\ rows[n].to = old.result
        BY <2>6, <3>2 DEF Chained, n
      <4>3. \A i \in 2 .. n : rows[i].from = rows[i - 1].to
        BY <2>6 DEF Chained, n
      <4>4. new[1].from = "NOT_RUN" /\ new[Len(new)].to = row.result
        BY <2>2, <2>3, <4>1, <4>2
      <4>5. ASSUME NEW i \in 2 .. n + 1 PROVE new[i].from = new[i - 1].to
        <5>1. CASE i = n + 1
          BY <2>2, <2>3, <2>6, <4>1, <4>2, <5>1
        <5>2. CASE i \in 2 .. n
          <6>1. i - 1 \in 1 .. n /\ i \in 1 .. n
            BY <2>2, <5>2
          <6> QED
            BY <2>3, <4>3, <5>2, <6>1
        <5> QED
          BY <2>2, <5>1, <5>2
      <4> QED
        BY <2>2, <4>4, <4>5 DEF Chained
    <3> QED
      BY <3>1, <3>2
  <2>7. n <= Len(new)
    BY <2>2
  <2> QED
    BY <2>2, <2>3, <2>5, <2>6, <2>7 DEF new, n
<1> QED
  BY <1>1, <1>2

\* What the record promises of the results while no write was decided late.
ResultsKept ==
  ~overlapped' =>
    \A c \in DOMAIN results :
      /\ Len(results[c]) <= Len(results'[c])
      /\ c \in DOMAIN cases /\ cases[c].state = "ARCHIVED" => results'[c] = results[c]

LEMMA CommitKeeps ==
  ASSUME SuiteInv, NEW s \in Slot, Commit(s)
  PROVE  SuiteInv' /\ DOMAIN cases' = DOMAIN cases /\ ResultsKept
<1> USE DEF SuiteInv
<1> DEFINE q   == inflight[s]
           x   == q.case
           row == q.row
<1>1. /\ OnlySlot(s) /\ inflight'[s] = Idle
      /\ overlapped' \in BOOLEAN /\ (overlapped => overlapped')
      /\ ~overlapped' => ~overlapped /\ q.seen = Runs(cases, {x})
  BY SettleOnly DEF Commit
<1>2. /\ UNCHANGED <<links, clock>> /\ Is(s, "open")
      /\ cases' = [cases EXCEPT ![x] = row]
      /\ results' = [results EXCEPT ![x] = @ \o q.entry]
      /\ suite' = [suite EXCEPT !.ran = q.stamp]
  BY DEF Commit
<1>3. OpenRow(q)
  BY <1>2 DEF OpenRows
<1>4. /\ x \in DOMAIN cases /\ row \in TestCase /\ row.state # "DRAFT"
      /\ row.order = cases[x].order
      /\ IsLatest(q.stamp, q.seen \cup OwnRun(row)) /\ q.stamp \in 0 .. MaxRuns
  BY <1>3 DEF OpenRow
<1>5. \/ q.entry = <<>> /\ row.ran = cases[x].ran /\ row.result = cases[x].result
      \/ \E from \in TestResult :
           /\ q.entry = <<[from |-> from, to |-> row.result]>> /\ row.ran # 0
           /\ ~overlapped => from = cases[x].result /\ cases[x].state = "ACTIVE"
  BY <1>3 DEF OpenRow
<1>6. \A t \in Slot \ {s} : Is(t, "open") => inflight[t].case # x
  BY <1>2 DEF OneLock
<1> HIDE DEF q, x, row
<1>7. /\ DOMAIN cases' = DOMAIN cases /\ cases'[x] = row
      /\ \A c \in DOMAIN cases \ {x} : cases'[c] = cases[c]
      /\ cases' \in [DOMAIN cases' -> TestCase]
  BY <1>2, <1>4 DEF TestsTyped
<1>8. /\ results \in Seq(Seq(TestResultRow)) /\ Len(results) \in Nat
      /\ x \in 1 .. Len(results) /\ results[x] \in Seq(TestResultRow)
      /\ DOMAIN results = 1 .. Len(results)
  <2>1. x \in 1 .. Len(results) /\ results \in Seq(Seq(TestResultRow)) /\ Len(results) \in Nat
    BY <1>4, CaseList DEF TestsTyped
  <2> QED
    BY <2>1, ElementOfSeq, LenProperties
<1>9. LET rows == results[x] \o q.entry
      IN  /\ rows \in Seq(TestResultRow)
          /\ SoundCase(row, rows)
          /\ q.entry = <<>> /\ Chained(results[x], cases[x].result) => Chained(rows, row.result)
          /\ q.entry # <<>> /\ Chained(results[x], cases[x].result)
             /\ q.entry[1].from = cases[x].result => Chained(rows, row.result)
          /\ Len(results[x]) <= Len(rows)
          /\ q.entry = <<>> => rows = results[x]
  <2>1. SoundCase(cases[x], results[x])
    BY <1>4 DEF CasesSound
  <2>2. row.result \in TestResult
    BY <1>4 DEF TestCase
  <2>3. \/ q.entry = <<>> /\ row.ran = cases[x].ran /\ row.result = cases[x].result
        \/ \E from \in TestResult :
             q.entry = <<[from |-> from, to |-> row.result]>> /\ row.ran # 0
    BY <1>5
  <2> QED
    BY <1>4, <1>8, <2>1, <2>2, <2>3, RowsAfter
<1>10. /\ results' \in Seq(Seq(TestResultRow)) /\ Len(results') = Len(results)
       /\ results'[x] = results[x] \o q.entry
       /\ \A c \in 1 .. Len(results) \ {x} : results'[c] = results[c]
  BY <1>2, <1>8, <1>9, ExceptSeq
<1>11. ~overlapped' =>
         /\ Chained(results[x], cases[x].result)
         /\ Chained(results'[x], row.result)
         /\ q.entry # <<>> => cases[x].state = "ACTIVE"
  <2> SUFFICES ASSUME ~overlapped'
               PROVE  /\ Chained(results[x], cases[x].result)
                      /\ Chained(results'[x], row.result)
                      /\ q.entry # <<>> => cases[x].state = "ACTIVE"
    OBVIOUS
  <2>1. ~overlapped /\ Chained(results[x], cases[x].result)
    BY <1>1, <1>4 DEF TestsUndisturbed
  <2>2. CASE q.entry = <<>>
    BY <1>9, <1>10, <2>1, <2>2
  <2>3. CASE q.entry # <<>>
    <3>1. PICK from \in TestResult :
            /\ q.entry = <<[from |-> from, to |-> row.result]>>
            /\ from = cases[x].result /\ cases[x].state = "ACTIVE"
      BY <1>5, <2>1, <2>3
    <3>2. q.entry[1].from = cases[x].result
      BY <3>1
    <3> QED
      BY <1>9, <1>10, <2>1, <2>3, <3>1, <3>2
  <2> QED
    BY <2>2, <2>3
<1>12. Onward
  BY <1>1, <1>2, <1>4, <1>7, <1>8, <1>10 DEF Onward, TestsTyped
<1>13. LocksKept(s)
  BY <1>6, <1>7 DEF LocksKept, OpenRows, OpenRow
<1>14. TestsTyped'
  <2>1. suite' \in [state : TestState, isArchived : BOOLEAN, ran : 0 .. MaxRuns]
    <3>1. suite \in [state : TestState, isArchived : BOOLEAN, ran : 0 .. MaxRuns]
      BY DEF TestsTyped
    <3> QED
      BY <1>2, <1>4, <3>1
  <2>2. /\ links' \subseteq DOMAIN Filed /\ clock' \in 0 .. MaxRuns
        /\ Len(results') <= MaxCases
        /\ DOMAIN cases' \subseteq 1 .. Len(results')
    BY <1>2, <1>7, <1>10 DEF TestsTyped
  <2> QED
    BY <1>1, <1>7, <1>10, <2>1, <2>2 DEF TestsTyped, OnlySlot
<1>15. CasesSound'
  <2>1. ASSUME NEW c \in DOMAIN cases \ {x}
        PROVE  cases'[c].order < Len(results') /\ SoundCase(cases'[c], results'[c])
    BY <1>7, <1>10, CaseList DEF CasesSound
  <2>2. cases'[x].order < Len(results') /\ SoundCase(cases'[x], results'[x])
    BY <1>4, <1>7, <1>9, <1>10 DEF CasesSound
  <2> QED
    BY <1>7, <2>1, <2>2 DEF CasesSound
<1>16. TestsUndisturbed'
  <2> SUFFICES ASSUME ~overlapped' PROVE TestsUndisturbed'
    BY DEF TestsUndisturbed
  <2>1. /\ suite.isArchived = (suite.state = "ARCHIVED")
        /\ \A c, d \in DOMAIN cases : c # d => cases[c].order # cases[d].order
        /\ \A c \in DOMAIN cases : Chained(results[c], cases[c].result)
    BY <1>1 DEF TestsUndisturbed
  <2>2. LatestOf(q.stamp, cases')
    BY <1>1, <1>2, <1>4, StampHolds
  <2>3. suite'.ran = q.stamp /\ suite'.isArchived = suite.isArchived /\ suite'.state = suite.state
    BY <1>2 DEF TestsTyped
  <2>4. \A c, d \in DOMAIN cases' : c # d => cases'[c].order # cases'[d].order
    BY <1>4, <1>7, <2>1
  <2>5. \A c \in DOMAIN cases' : Chained(results'[c], cases'[c].result)
    BY <1>7, <1>10, <1>11, <2>1, CaseList
  <2> QED
    BY <2>1, <2>2, <2>3, <2>4, <2>5 DEF TestsUndisturbed
<1>17. ResultsKept
  <2> SUFFICES ASSUME ~overlapped', NEW c \in 1 .. Len(results)
               PROVE  /\ Len(results[c]) <= Len(results'[c])
                      /\ c \in DOMAIN cases /\ cases[c].state = "ARCHIVED" =>
                           results'[c] = results[c]
    BY <1>8 DEF ResultsKept
  <2>1. CASE c = x
    BY <1>9, <1>10, <1>11, <2>1
  <2>2. CASE c # x
    <3>1. results[c] \in Seq(TestResultRow)
      BY <1>8, ElementOfSeq
    <3>2. Len(results[c]) \in Nat
      BY <3>1, LenProperties
    <3> QED
      BY <1>10, <2>2, <3>2
  <2> QED
    BY <2>1, <2>2
<1> QED
  BY <1>1, <1>7, <1>12, <1>13, <1>14, <1>15, <1>16, <1>17, WriteDone

LEMMA ResultsLeft ==
  ASSUME SuiteInv, NEW D, D \subseteq DOMAIN results, \A c \in D : results'[c] = results[c]
  PROVE  \A c \in D : Len(results[c]) <= Len(results'[c])
<1> SUFFICES ASSUME NEW c \in D PROVE Len(results[c]) <= Len(results'[c])
  OBVIOUS
<1>1. results \in Seq(Seq(TestResultRow)) /\ c \in 1 .. Len(results)
  BY LenProperties DEF SuiteInv, TestsTyped
<1>2. Len(results[c]) \in Nat
  BY <1>1, ElementOfSeq, LenProperties
<1> QED
  BY <1>2

LEMMA SameResultsKept == ASSUME SuiteInv, results' = results PROVE ResultsKept
<1>1. \A c \in DOMAIN results : Len(results[c]) <= Len(results'[c])
  BY ResultsLeft
<1> QED
  BY <1>1 DEF ResultsKept

LEMMA SuiteStepKeeps ==
  ASSUME SuiteInv, NEW s \in Slot, SuiteStep(s)
  PROVE  /\ SuiteInv' /\ ResultsKept /\ DOMAIN cases \subseteq DOMAIN cases'
         /\ overlapped => overlapped'
         /\ inflight' = inflight \/ (OnlySlot(s) /\ inflight'[s].op \notin OnBug)
<1>0. Idle.op \notin OnBug
  BY DEF Idle, OnBug
<1>1. CASE LoadTests(s)
  <2>1. UNCHANGED <<cases, results, overlapped>>
    BY <1>1 DEF LoadTests
  <2> QED
    BY <1>1, <2>1, LoadTestsKeeps, SameResultsKept
<1>2. CASE \E t \in links : Unlink(t)
  <2>1. PICK t \in links : Unlink(t)
    BY <1>2
  <2>2. UNCHANGED <<cases, results, inflight, overlapped>>
    BY <2>1 DEF Unlink
  <2> QED
    BY <2>1, <2>2, UnlinkKeeps, SameResultsKept
<1>3. CASE MoveSuite(s)
  <2>1. UNCHANGED <<cases, results>> /\ OnlySlot(s) /\ inflight'[s] = Idle /\ (overlapped => overlapped')
    BY <1>3, SettleOnly DEF MoveSuite, SuiteInv
  <2> QED
    BY <1>0, <1>3, <2>1, MoveSuiteKeeps, SameResultsKept
<1>4. CASE Link(s)
  <2>1. UNCHANGED <<cases, results>> /\ OnlySlot(s) /\ inflight'[s] = Idle /\ (overlapped => overlapped')
    BY <1>4, SettleOnly DEF Link, SuiteInv
  <2> QED
    BY <1>0, <1>4, <2>1, LinkKeeps, SameResultsKept
<1>5. CASE Create(s)
  <2>1. OnlySlot(s) /\ inflight'[s] = Idle /\ (overlapped => overlapped')
    BY <1>5, SettleOnly DEF Create, SuiteInv
  <2>2. results \in Seq(Seq(TestResultRow)) /\ results' = Append(results, <<>>)
    BY <1>5 DEF Create, SuiteInv, TestsTyped
  <2>3. DOMAIN results = 1 .. Len(results) /\ \A c \in 1 .. Len(results) : results'[c] = results[c]
    <3>1. <<>> \in Seq(TestResultRow)
      BY EmptySeq
    <3> QED
      BY <2>2, <3>1, AppendProperties, LenProperties
  <2>4. \A c \in DOMAIN results : Len(results[c]) <= Len(results'[c])
    BY <2>3, ResultsLeft
  <2>5. ResultsKept
    BY <2>3, <2>4 DEF ResultsKept
  <2> QED
    BY <1>0, <1>5, <2>1, <2>5, CreateKeeps
<1>6. CASE Edit(s)
  <2>1. UNCHANGED results /\ OnlySlot(s) /\ inflight'[s] = Idle /\ (overlapped => overlapped')
    BY <1>6, SettleOnly DEF Edit, SuiteInv
  <2> QED
    BY <1>0, <1>6, <2>1, EditKeeps, SameResultsKept
<1>7. CASE Reorder(s)
  <2>1. UNCHANGED results /\ OnlySlot(s) /\ inflight'[s] = Idle /\ (overlapped => overlapped')
    BY <1>7, SettleOnly DEF Reorder, SuiteInv
  <2> QED
    BY <1>0, <1>7, <2>1, ReorderKeeps, SameResultsKept
<1>8. CASE Begin(s)
  <2>1. UNCHANGED <<cases, results>> /\ (overlapped => overlapped')
    BY <1>8 DEF Begin, suiteVars
  <2> QED
    BY <1>8, <2>1, BeginKeeps, SameResultsKept
<1>9. CASE Commit(s)
  <2>1. OnlySlot(s) /\ inflight'[s] = Idle /\ (overlapped => overlapped')
    BY <1>9, SettleOnly DEF Commit, SuiteInv
  <2> QED
    BY <1>0, <1>9, <2>1, CommitKeeps
<1> QED
  BY <1>1, <1>2, <1>3, <1>4, <1>5, <1>6, <1>7, <1>8, <1>9 DEF SuiteStep, WriteTests

\* A case that goes was never run, unless it was decided late.
LEMMA DeletedNeverRan ==
  ASSUME SuiteInv, NEW s \in Slot, Delete(s)
  PROVE  ResultsKept
<1> DEFINE x == inflight[s].case
<1> SUFFICES ASSUME ~overlapped'
             PROVE  \A c \in DOMAIN results :
                      /\ Len(results[c]) <= Len(results'[c])
                      /\ c \in DOMAIN cases /\ cases[c].state = "ARCHIVED" =>
                           results'[c] = results[c]
  BY DEF ResultsKept
<1>1. inflight[s].seen = cases[x] /\ x \in DOMAIN cases /\ results' = [results EXCEPT ![x] = <<>>]
  BY SettleOnly DEF Delete, SuiteInv
<1>2. inflight[s].seen.state = "DRAFT"
  BY DEF Delete, Is, SuiteInv, Requests, TestRequest
<1>3. results[x] = <<>>
  BY <1>1, <1>2 DEF SuiteInv, CasesSound, SoundCase
<1>4. \A c \in DOMAIN results : results'[c] = results[c]
  BY <1>1, <1>3
<1>5. \A c \in DOMAIN results : Len(results[c]) <= Len(results'[c])
  BY <1>4, ResultsLeft
<1> QED
  BY <1>4, <1>5

\* A step about bugs alone.
LEMMA TestsUntouched ==
  ASSUME SuiteInv, UNCHANGED suiteVars, overlapped' \in BOOLEAN, overlapped => overlapped',
         NEW s \in Slot, OnlySlot(s), inflight'[s].op \in OnBug \cup { "idle" }
  PROVE  SuiteInv' /\ ResultsKept
<1>1. UNCHANGED <<suite, links, cases, results, clock>>
  BY DEF suiteVars
<1>2. clock' \in 0 .. MaxRuns /\ clock <= clock'
  BY <1>1 DEF SuiteInv, TestsTyped
<1>3. inflight'[s].op # "open" /\ TestRequest(inflight[s])'
  BY NothingAsked DEF OnBug
<1> QED
  BY <1>1, <1>2, <1>3, TestsLeft, SameResultsKept

-----------------------------------------------------------------------------
(* Bugs                                                                    *)

LEMMA BugsInitially == QualityInit => BugInv
<1> SUFFICES ASSUME QualityInit PROVE BugInv
  OBVIOUS
<1> USE DEF QualityInit, SuiteInit
<1>1. BugsTyped
  <2>1. bugs \in Seq(Bug) /\ bugMoves \in Seq(Seq(BugMove)) /\ Len(bugs) = 0 /\ Len(bugMoves) = 0
    BY EmptySeq
  <2> QED
    BY <2>1, QualityAssumption DEF BugsTyped
<1>2. TicketsTyped
  <2>1. Filed \in Seq(System) /\ Len(Filed) \in Nat /\ DOMAIN Filed = 1 .. Len(Filed)
    BY TestCasesAssumption, LenProperties
  <2>2. \A t \in 1 .. Len(Filed) : [system |-> Filed[t], bug |-> 0] \in Ticket
    BY <2>1, ElementOfSeq, QualityAssumption DEF Ticket
  <2>3. tickets \in [1 .. Len(Filed) -> Ticket]
    BY <2>1, <2>2
  <2>4. tickets \in Seq(Ticket) /\ Len(tickets) = Len(Filed)
    BY <2>1, <2>3
  <2> QED
    BY <2>1, <2>4, QualityAssumption DEF TicketsTyped
<1>3. BugsSound /\ BugsUndisturbed
  BY DEF BugsSound, BugsUndisturbed
<1>4. BugRequests
  BY DEF BugRequests, BugRequest, OnBug
<1> QED
  BY <1>1, <1>2, <1>3, <1>4 DEF BugInv

TicketsOnward ==
  /\ Len(tickets) \in Nat /\ Len(tickets) <= Len(tickets')
  /\ DOMAIN tickets \subseteq DOMAIN tickets'
  /\ \A t \in DOMAIN tickets : tickets'[t] = tickets[t]

LEMMA KeepBugRequests ==
  ASSUME BugRequests, NEW s \in Slot, OnlySlot(s), DOMAIN bugs \subseteq DOMAIN bugs', TicketsOnward,
         BugRequest(inflight[s])'
  PROVE  BugRequests'
<1>1. SUFFICES ASSUME NEW t \in Slot \ {s} PROVE BugRequest(inflight[t])'
  BY DEF BugRequests
<1>2. inflight'[t] = inflight[t] /\ BugRequest(inflight[t])
  BY DEF OnlySlot, BugRequests
<1>3. TicketsOn(inflight[t].seen.system) \subseteq TicketsOn(inflight[t].seen.system)'
  BY <1>2 DEF TicketsOn, TicketsOnward
<1> QED
  BY <1>2, <1>3 DEF BugRequest

LEMMA NoBugAsked ==
  ASSUME NEW s \in Slot, inflight'[s].op \notin OnBug
  PROVE  BugRequest(inflight[s])'
BY DEF BugRequest, OnBug

\* What a step does to a bug that was there before it.
BugKept(b) ==
  /\ bugs[b].archived =>
       \E a \in BOOLEAN, c \in {bugs[b].case, 0} :
         bugs'[b] = [bugs[b] EXCEPT !.archived = a, !.case = c]
  /\ bugs[b].ticket # 0 => \A t \in DOMAIN tickets' \ DOMAIN tickets : tickets'[t].bug # b
  /\ AtHome(b) => AtHome(b)' \/ bugs'[b].case \notin {bugs[b].case, 0}

BugsKept == ~overlapped' => \A b \in DOMAIN bugs : BugKept(b)

LEMMA BugAt ==
  ASSUME BugsTyped
  PROVE  /\ DOMAIN bugs = 1 .. Len(bugs) /\ DOMAIN bugMoves = 1 .. Len(bugs)
         /\ Len(bugs) \in Nat
         /\ \A b \in DOMAIN bugs : bugs[b] \in Bug /\ bugMoves[b] \in Seq(BugMove)
BY ElementOfSeq, LenProperties DEF BugsTyped

LEMMA SameAtHome ==
  ASSUME TicketsOnward, NEW b, AtHome(b),
         bugs'[b].ticket = bugs[b].ticket, bugs'[b].system = bugs[b].system
  PROVE  AtHome(b)'
BY DEF TicketsOnward, AtHome, TicketsOn

\* A bug nothing was written to.
LEMMA BugUntouched ==
  ASSUME BugsTyped, TicketsOnward, NEW b \in DOMAIN bugs, bugs'[b] = bugs[b],
         bugs[b].ticket # 0 => \A t \in DOMAIN tickets' \ DOMAIN tickets : tickets'[t].bug # b
  PROVE  BugKept(b)
<1>1. bugs[b] \in Bug
  BY BugAt
<1>2. bugs[b] = [bugs[b] EXCEPT !.archived = bugs[b].archived, !.case = bugs[b].case]
      /\ bugs[b].archived \in BOOLEAN
  BY <1>1 DEF Bug
<1>3. AtHome(b) => AtHome(b)'
  BY SameAtHome
<1>4. \E a \in BOOLEAN, c \in {bugs[b].case, 0} :
        bugs'[b] = [bugs[b] EXCEPT !.archived = a, !.case = c]
  BY <1>2
<1> QED
  BY <1>3, <1>4 DEF BugKept

\* Steps of the suite: no case goes, and bugs and tickets are left alone.
LEMMA BugsLeft ==
  ASSUME BugInv, UNCHANGED bugVars, DOMAIN cases \subseteq DOMAIN cases',
         overlapped => overlapped', BugRequests'
  PROVE  BugInv' /\ BugsKept
<1>1. UNCHANGED <<bugs, bugMoves, tickets, relates>>
  BY DEF bugVars
<1>2. TicketsOnward
  BY <1>1, LenProperties DEF TicketsOnward, BugInv, TicketsTyped
<1>3. BugsKept
  BY <1>1, <1>2, BugUntouched DEF BugsKept, BugInv
<1>4. BugsTyped' /\ TicketsTyped'
  BY <1>1 DEF BugInv, BugsTyped, TicketsTyped
<1>5. BugsSound' /\ BugsUndisturbed'
  BY <1>1 DEF BugInv, BugsSound, SoundBug, BugsUndisturbed
<1> QED
  BY <1>3, <1>4, <1>5 DEF BugInv

LEMMA AskKeeps ==
  ASSUME BugInv, NEW s \in Slot, OnlySlot(s), UNCHANGED bugVars, UNCHANGED cases, UNCHANGED overlapped,
         BugRequest(inflight[s])'
  PROVE  BugInv' /\ BugsKept
<1>1. UNCHANGED <<bugs, tickets>> /\ TicketsOnward
  BY LenProperties DEF bugVars, TicketsOnward, BugInv, TicketsTyped
<1>2. BugRequests'
  BY <1>1, KeepBugRequests DEF BugInv
<1> QED
  BY <1>2, BugsLeft

LEMMA FileKeeps ==
  ASSUME BugInv, NEW case \in DOMAIN cases \cup {0}, NEW system \in System,
         NEW t \in DOMAIN tickets \cup {0}, File(case, system, t),
         DOMAIN cases \subseteq 1 .. MaxCases
  PROVE  BugInv' /\ BugsKept
<1> DEFINE row == [status |-> "OPEN", resolved |-> FALSE, archived |-> FALSE,
                   system |-> system, case |-> case, inSuite |-> case # 0, ticket |-> t]
           opening == <<[from |-> "none", to |-> row.status]>>
           n == Len(bugs) + 1
<1>1. /\ UNCHANGED <<suite, links, cases, results, clock, tickets, relates, inflight, overlapped>>
      /\ case # 0 => system = Home
      /\ Len(bugs) < MaxBugs
      /\ bugs' = Append(bugs, row) /\ bugMoves' = Append(bugMoves, opening)
  BY DEF File, Opened, suiteVars
<1>2. row \in Bug
  <2>1. case \in 0 .. MaxCases
    BY TestCasesAssumption
  <2>2. t \in 0 .. MaxTickets
    BY LenProperties, QualityAssumption DEF BugInv, TicketsTyped
  <2> QED
    BY <2>1, <2>2, QualityAssumption DEF Bug
<1>3. opening \in Seq(BugMove) /\ opening # <<>> /\ opening[Len(opening)].to = "OPEN"
  BY QualityAssumption DEF BugMove
<1>4. /\ row.case = case /\ row.status = "OPEN" /\ row.resolved = FALSE /\ row.system = system
  OBVIOUS
<1> HIDE DEF row, opening
<1>5. /\ bugs \in Seq(Bug) /\ Len(bugs) \in Nat
      /\ bugMoves \in Seq(Seq(BugMove)) /\ Len(bugMoves) = Len(bugs)
  BY BugAt DEF BugInv, BugsTyped
<1>6. /\ bugs' \in Seq(Bug) /\ Len(bugs') = n
      /\ bugs'[n] = row /\ \A b \in 1 .. Len(bugs) : bugs'[b] = bugs[b]
  BY <1>1, <1>2, <1>5, AppendProperties
<1>7. /\ bugMoves' \in Seq(Seq(BugMove)) /\ Len(bugMoves') = n
      /\ bugMoves'[n] = opening /\ \A b \in 1 .. Len(bugs) : bugMoves'[b] = bugMoves[b]
  BY <1>1, <1>3, <1>5, AppendProperties
<1>8. DOMAIN bugs' = 1 .. n /\ DOMAIN bugs = 1 .. Len(bugs)
  BY <1>5, <1>6, LenProperties
<1>9. BugsTyped' /\ TicketsTyped'
  <2>1. Len(bugs') <= MaxBugs
    BY <1>1, <1>5, <1>6, QualityAssumption
  <2>2. TicketsTyped'
    BY <1>1 DEF BugInv, TicketsTyped
  <2> QED
    BY <1>6, <1>7, <2>1, <2>2 DEF BugsTyped
<1>10. BugsSound'
  <2>1. ASSUME NEW b \in 1 .. Len(bugs) PROVE SoundBug(bugs'[b], bugMoves'[b])
    BY <1>6, <1>7, <1>8 DEF BugInv, BugsSound
  <2>2. SoundBug(row, opening)
    <3>1. opening # <<>> /\ opening[Len(opening)].to = row.status
      BY <1>3, <1>4
    <3>2. row.status \notin Resolved
      BY <1>4, QualityAssumption
    <3>3. row.resolved = (row.status \in Resolved)
      <4>1. row.resolved = FALSE /\ (row.status \in Resolved) = FALSE
        BY <1>4, <3>2
      <4> QED
        BY <4>1
    <3> QED
      BY <1>4, <3>1, <3>3 DEF SoundBug
  <2>3. \A b \in DOMAIN bugs' : SoundBug(bugs'[b], bugMoves'[b])
    <3>1. \A b \in 1 .. n : b = n \/ b \in 1 .. Len(bugs)
      BY <1>5
    <3> QED
      BY <1>6, <1>7, <1>8, <2>1, <2>2, <3>1
  <2> QED
    BY <1>1, <2>3 DEF BugsSound, SoundBug
<1>11. TicketsOnward
  BY <1>1, LenProperties DEF TicketsOnward, BugInv, TicketsTyped
<1>12. BugRequests'
  BY <1>1, <1>5, <1>8 DEF BugInv, BugRequests, BugRequest, TicketsOn
<1>13. BugsUndisturbed'
  BY <1>1, <1>4, <1>5, <1>6, <1>8 DEF BugInv, BugsUndisturbed
<1>14. BugsKept
  BY <1>1, <1>6, <1>8, <1>11, BugUntouched DEF BugsKept, BugInv
<1> QED
  BY <1>9, <1>10, <1>12, <1>13, <1>14 DEF BugInv

LEMMA LoadBugKeeps ==
  ASSUME SuiteInv, BugInv, NEW s \in Slot, LoadBug(s)
  PROVE  /\ BugInv' /\ BugsKept
         /\ OnlySlot(s) /\ inflight'[s].op \in OnBug
<1>1. UNCHANGED bugVars /\ UNCHANGED overlapped /\ UNCHANGED cases
  BY DEF LoadBug, suiteVars
<1>2. PICK b \in DOMAIN bugs :
        \/ \E case \in DOMAIN cases \cup {0} : LoadAdopt(s, b, case)
        \/ \E t \in DOMAIN tickets \cup {0} : LoadAttach(s, b, t)
        \/ \E to \in BugStatus : LoadMove(s, b, to)
        \/ LoadPromote(s, b) \/ LoadShelve(s, b)
  BY DEF LoadBug
<1>3. bugs[b] \in Bug /\ bugs' = bugs /\ tickets' = tickets
  BY <1>1, BugAt DEF BugInv, bugVars
<1>4. ASSUME OnlySlot(s), inflight'[s].op \in OnBug, BugRequest(inflight[s])'
      PROVE  BugInv' /\ BugsKept /\ OnlySlot(s) /\ inflight'[s].op \in OnBug
  BY <1>1, <1>4, AskKeeps
<1>5. ASSUME NEW case \in DOMAIN cases \cup {0}, LoadAdopt(s, b, case)
      PROVE  BugInv' /\ BugsKept /\ OnlySlot(s) /\ inflight'[s].op \in OnBug
  <2>1. /\ OnlySlot(s) /\ ~bugs[b].archived
        /\ inflight'[s] = [op |-> "adopt", bug |-> b, case |-> case, seen |-> bugs[b]]
    BY <1>5, StartOnly DEF LoadAdopt, SuiteInv
  <2>2. case \in 0 .. MaxCases
    BY TestCasesAssumption, CaseList DEF SuiteInv, TestsTyped
  <2>3. BugRequest(inflight[s])' /\ inflight'[s].op \in OnBug
    BY <1>3, <2>1, <2>2 DEF BugRequest, OnBug
  <2> QED
    BY <1>4, <2>1, <2>3
<1>6. ASSUME NEW t \in DOMAIN tickets \cup {0}, LoadAttach(s, b, t)
      PROVE  BugInv' /\ BugsKept /\ OnlySlot(s) /\ inflight'[s].op \in OnBug
  <2>1. /\ OnlySlot(s) /\ ~bugs[b].archived /\ t \in TicketsOn(bugs[b].system) \cup {0}
        /\ inflight'[s] = [op |-> "attach", bug |-> b, ticket |-> t, seen |-> bugs[b]]
    BY <1>6, StartOnly DEF LoadAttach, SuiteInv
  <2>2. inflight'[s].op \in OnBug
    BY <2>1 DEF OnBug
  <2>3. BugRequest(inflight[s])'
    BY <1>3, <2>1 DEF BugRequest, OnBug, TicketsOn
  <2> QED
    BY <1>4, <2>1, <2>2, <2>3
<1>7. ASSUME NEW to \in BugStatus, LoadMove(s, b, to)
      PROVE  BugInv' /\ BugsKept /\ OnlySlot(s) /\ inflight'[s].op \in OnBug
  <2>1. /\ OnlySlot(s) /\ ~bugs[b].archived
        /\ inflight'[s] = [op |-> "move", bug |-> b, to |-> to, seen |-> bugs[b]]
    BY <1>7, StartOnly DEF LoadMove, SuiteInv
  <2>2. BugRequest(inflight[s])' /\ inflight'[s].op \in OnBug
    BY <1>3, <2>1 DEF BugRequest, OnBug
  <2> QED
    BY <1>4, <2>1, <2>2
<1>8. ASSUME LoadPromote(s, b)
      PROVE  BugInv' /\ BugsKept /\ OnlySlot(s) /\ inflight'[s].op \in OnBug
  <2>1. /\ OnlySlot(s) /\ ~bugs[b].archived /\ bugs[b].ticket = 0
        /\ inflight'[s] = [op |-> "promote", bug |-> b, seen |-> bugs[b]]
    BY <1>8, StartOnly DEF LoadPromote, Ask, SuiteInv
  <2>2. BugRequest(inflight[s])' /\ inflight'[s].op \in OnBug
    BY <1>3, <2>1 DEF BugRequest, OnBug
  <2> QED
    BY <1>4, <2>1, <2>2
<1>9. ASSUME LoadShelve(s, b)
      PROVE  BugInv' /\ BugsKept /\ OnlySlot(s) /\ inflight'[s].op \in OnBug
  <2>1. /\ OnlySlot(s)
        /\ inflight'[s] = [op |-> "shelve", bug |-> b, seen |-> bugs[b]]
    BY <1>9, StartOnly DEF LoadShelve, Ask, SuiteInv
  <2>2. BugRequest(inflight[s])' /\ inflight'[s].op \in OnBug
    BY <1>3, <2>1 DEF BugRequest, OnBug
  <2> QED
    BY <1>4, <2>1, <2>2
<1> QED
  BY <1>2, <1>5, <1>6, <1>7, <1>8, <1>9

(***************************************************************************)
(* A write to one bug, maybe with its history or a ticket made from it.    *)
(***************************************************************************)
LEMMA BugWriteKeeps ==
  ASSUME BugInv, NEW s \in Slot, NEW b \in DOMAIN bugs, OnlySlot(s), inflight'[s] = Idle,
         UNCHANGED cases, overlapped => overlapped',
         bugs' = [bugs EXCEPT ![b] = bugs'[b]], bugs'[b] \in Bug,
         bugMoves' = [bugMoves EXCEPT ![b] = bugMoves'[b]], bugMoves'[b] \in Seq(BugMove),
         SoundBug(bugs'[b], bugMoves'[b]),
         ~overlapped' => (bugs'[b].case # 0 => bugs'[b].system = Home),
         TicketsTyped', TicketsOnward,
         \A t \in DOMAIN tickets' \ DOMAIN tickets : tickets'[t].bug = b,
         ~overlapped' => BugKept(b)
  PROVE  BugInv' /\ BugsKept
<1>1. /\ bugs \in Seq(Bug) /\ b \in 1 .. Len(bugs) /\ DOMAIN bugs = 1 .. Len(bugs)
      /\ bugMoves \in Seq(Seq(BugMove)) /\ b \in 1 .. Len(bugMoves) /\ Len(bugMoves) = Len(bugs)
  BY BugAt DEF BugInv, BugsTyped
<1>2. /\ bugs' \in Seq(Bug) /\ Len(bugs') = Len(bugs)
      /\ \A d \in DOMAIN bugs \ {b} : bugs'[d] = bugs[d]
  <2>1. ASSUME NEW new \in Bug, bugs' = [bugs EXCEPT ![b] = new]
        PROVE  /\ bugs' \in Seq(Bug) /\ Len(bugs') = Len(bugs)
               /\ \A d \in DOMAIN bugs \ {b} : bugs'[d] = bugs[d]
    BY <1>1, <2>1, ExceptSeq
  <2> QED
    BY <2>1
<1>3. /\ bugMoves' \in Seq(Seq(BugMove)) /\ Len(bugMoves') = Len(bugMoves)
      /\ \A d \in DOMAIN bugs \ {b} : bugMoves'[d] = bugMoves[d]
  <2>1. ASSUME NEW new \in Seq(BugMove), bugMoves' = [bugMoves EXCEPT ![b] = new]
        PROVE  /\ bugMoves' \in Seq(Seq(BugMove)) /\ Len(bugMoves') = Len(bugMoves)
               /\ \A d \in DOMAIN bugs \ {b} : bugMoves'[d] = bugMoves[d]
    BY <1>1, <2>1, ExceptSeq
  <2> QED
    BY <2>1
<1>4. DOMAIN bugs' = DOMAIN bugs
  BY <1>1, <1>2, LenProperties
<1>5. BugsTyped'
  BY <1>1, <1>2, <1>3 DEF BugInv, BugsTyped
<1>6. BugsSound'
  <2>1. \A d \in DOMAIN bugs : SoundBug(bugs'[d], bugMoves'[d])
    BY <1>2, <1>3 DEF BugInv, BugsSound
  <2> QED
    BY <1>4, <2>1 DEF BugsSound, SoundBug
<1>7. BugRequests'
  <2>1. BugRequest(inflight[s])'
    BY NoBugAsked DEF Idle, OnBug
  <2> QED
    BY <1>4, <2>1, KeepBugRequests DEF BugInv
<1>8. BugsUndisturbed'
  BY <1>2, <1>4 DEF BugInv, BugsUndisturbed
<1>9. BugsKept
  <2>1. ASSUME NEW d \in DOMAIN bugs \ {b} PROVE BugKept(d)
    BY <1>2, BugUntouched DEF BugInv
  <2> QED
    BY <2>1 DEF BugsKept
<1> QED
  BY <1>5, <1>6, <1>7, <1>8, <1>9 DEF BugInv

\* What every write to a bug starts from.
LEMMA BugWritten ==
  ASSUME SuiteInv, BugInv, NEW s \in Slot, inflight[s].op \in OnBug
  PROVE  LET q == inflight[s]
             b == q.bug
         IN  /\ BugRequest(q) /\ b \in DOMAIN bugs /\ bugs[b] \in Bug
             /\ SoundBug(bugs[b], bugMoves[b])
             /\ bugMoves[b] \in Seq(BugMove)
             /\ bugMoves = [bugMoves EXCEPT ![b] = bugMoves[b]]
             /\ Len(tickets) \in Nat /\ DOMAIN tickets = 1 .. Len(tickets)
<1>1. BugRequest(inflight[s]) /\ inflight[s].bug \in DOMAIN bugs
  BY DEF BugInv, BugRequests, BugRequest
<1>2. bugMoves = [d \in DOMAIN bugMoves |-> bugMoves[d]]
  BY LenProperties DEF BugInv, BugsTyped
<1>3. bugMoves = [bugMoves EXCEPT ![inflight[s].bug] = bugMoves[inflight[s].bug]]
  BY <1>2
<1> QED
  BY <1>1, <1>3, BugAt, LenProperties DEF BugInv, BugsSound, TicketsTyped

LEMMA TicketsLeft ==
  ASSUME BugInv, UNCHANGED <<tickets, relates>>
  PROVE  /\ TicketsTyped' /\ TicketsOnward
         /\ \A t : t \notin DOMAIN tickets' \ DOMAIN tickets
BY LenProperties DEF BugInv, TicketsTyped, TicketsOnward

LEMMA AdoptKeeps ==
  ASSUME SuiteInv, BugInv, NEW s \in Slot, Adopt(s)
  PROVE  BugInv' /\ BugsKept
<1> DEFINE q == inflight[s]
<1>0. PICK b : b = q.bug
  OBVIOUS
<1> DEFINE system == IF q.case # 0 /\ q.seen.system # Home THEN Home ELSE bugs[b].system
<1>1. /\ OnlySlot(s) /\ inflight'[s] = Idle /\ (overlapped => overlapped')
      /\ ~overlapped' => ~overlapped /\ q.seen = bugs[b]
  BY <1>0, SettleOnly DEF Adopt, SuiteInv
<1>2. /\ q.op = "adopt" /\ q.case \in DOMAIN cases \cup {0}
      /\ UNCHANGED cases /\ UNCHANGED <<bugMoves, tickets, relates>>
      /\ bugs' = [bugs EXCEPT ![b].case = q.case,
                              ![b].inSuite = @ \/ q.case # 0,
                              ![b].system = IF q.case # 0 /\ q.seen.system # Home
                                              THEN Home ELSE @]
  BY <1>0 DEF Adopt, Is, suiteVars
<1>3. /\ BugRequest(q) /\ b \in DOMAIN bugs /\ bugs[b] \in Bug
      /\ SoundBug(bugs[b], bugMoves[b])
      /\ bugMoves[b] \in Seq(BugMove)
      /\ bugMoves' = [bugMoves EXCEPT ![b] = bugMoves'[b]]
  BY <1>0, <1>2, BugWritten DEF OnBug
<1>4. ~q.seen.archived /\ q.case \in 0 .. MaxCases
  BY <1>0, <1>2, <1>3 DEF BugRequest, OnBug
<1> HIDE DEF q
<1>5. /\ bugs'[b] = [bugs[b] EXCEPT !.case = q.case, !.inSuite = @ \/ q.case # 0, !.system = system]
      /\ bugs' = [bugs EXCEPT ![b] = bugs'[b]]
  BY <1>2, <1>3
<1>6. system \in System
  BY <1>3, TestCasesAssumption DEF Bug
<1>7. /\ bugs'[b] \in Bug
      /\ bugs'[b].case = q.case /\ bugs'[b].system = system
      /\ bugs'[b].status = bugs[b].status /\ bugs'[b].resolved = bugs[b].resolved
      /\ bugs'[b].ticket = bugs[b].ticket
  <2> HIDE DEF system
  <2> QED
    BY <1>3, <1>4, <1>5, <1>6 DEF Bug
<1>8. SoundBug(bugs'[b], bugMoves'[b])
  BY <1>2, <1>3, <1>7 DEF SoundBug
<1>9. ~overlapped' => (bugs'[b].case # 0 => bugs'[b].system = Home)
  BY <1>1, <1>7
<1>10. /\ TicketsTyped' /\ TicketsOnward
       /\ \A t : t \notin DOMAIN tickets' \ DOMAIN tickets
  BY <1>2, TicketsLeft
<1>11. ~overlapped' => BugKept(b)
  <2> SUFFICES ASSUME ~overlapped' PROVE BugKept(b)
    OBVIOUS
  <2>1. q.seen = bugs[b] /\ ~bugs[b].archived
    BY <1>1, <1>4
  <2>2. bugs'[b].case \in {bugs[b].case, 0} => bugs'[b].system = bugs[b].system
    <3>1. bugs[b].case # 0 => bugs[b].system = Home
      BY <1>1, <1>3 DEF BugInv, BugsUndisturbed
    <3> QED
      BY <1>7, <2>1, <3>1
  <2>3. AtHome(b) => AtHome(b)' \/ bugs'[b].case \notin {bugs[b].case, 0}
    BY <1>7, <1>10, <2>2, SameAtHome
  <2> QED
    BY <1>10, <2>1, <2>3 DEF BugKept
<1> QED
  BY <1>1, <1>2, <1>3, <1>5, <1>7, <1>8, <1>9, <1>10, <1>11, BugWriteKeeps

LEMMA AttachKeeps ==
  ASSUME SuiteInv, BugInv, NEW s \in Slot, Attach(s)
  PROVE  BugInv' /\ BugsKept
<1> DEFINE q == inflight[s]
<1>0. PICK b : b = q.bug
  OBVIOUS
<1>1. /\ OnlySlot(s) /\ inflight'[s] = Idle /\ (overlapped => overlapped')
      /\ ~overlapped' => ~overlapped /\ q.seen = bugs[b]
  BY <1>0, SettleOnly DEF Attach, SuiteInv
<1>2. /\ q.op = "attach" /\ UNCHANGED cases /\ UNCHANGED <<bugMoves, tickets, relates>>
      /\ bugs' = [bugs EXCEPT ![b].ticket = q.ticket]
  BY <1>0 DEF Attach, Is, suiteVars
<1>3. /\ BugRequest(q) /\ b \in DOMAIN bugs /\ bugs[b] \in Bug
      /\ SoundBug(bugs[b], bugMoves[b])
      /\ bugMoves[b] \in Seq(BugMove)
      /\ bugMoves' = [bugMoves EXCEPT ![b] = bugMoves'[b]]
      /\ Len(tickets) \in Nat /\ DOMAIN tickets = 1 .. Len(tickets)
  BY <1>0, <1>2, BugWritten DEF OnBug
<1>4. ~q.seen.archived /\ q.ticket \in TicketsOn(q.seen.system) \cup {0}
  BY <1>0, <1>2, <1>3 DEF BugRequest, OnBug
<1>5. q.ticket \in 0 .. MaxTickets
  BY <1>3, <1>4, QualityAssumption DEF TicketsOn, BugInv, TicketsTyped
<1> HIDE DEF q
<1>6. /\ bugs'[b] = [bugs[b] EXCEPT !.ticket = q.ticket]
      /\ bugs' = [bugs EXCEPT ![b] = bugs'[b]]
  BY <1>2, <1>3
<1>7. /\ bugs'[b] \in Bug
      /\ bugs'[b].case = bugs[b].case /\ bugs'[b].system = bugs[b].system
      /\ bugs'[b].status = bugs[b].status /\ bugs'[b].resolved = bugs[b].resolved
      /\ bugs'[b].ticket = q.ticket
  BY <1>3, <1>5, <1>6 DEF Bug
<1>8. SoundBug(bugs'[b], bugMoves'[b])
  BY <1>2, <1>3, <1>7 DEF SoundBug
<1>9. ~overlapped' => (bugs'[b].case # 0 => bugs'[b].system = Home)
  BY <1>1, <1>3, <1>7 DEF BugInv, BugsUndisturbed
<1>10. /\ TicketsTyped' /\ TicketsOnward
       /\ \A t : t \notin DOMAIN tickets' \ DOMAIN tickets
  BY <1>2, TicketsLeft
<1>11. ~overlapped' => BugKept(b)
  <2> SUFFICES ASSUME ~overlapped' PROVE BugKept(b)
    OBVIOUS
  <2>1. q.seen = bugs[b] /\ ~bugs[b].archived
    BY <1>1, <1>4
  <2>2. AtHome(b)'
    BY <1>2, <1>4, <1>7, <2>1 DEF AtHome, TicketsOn
  <2> QED
    BY <1>10, <2>1, <2>2 DEF BugKept
<1> QED
  BY <1>1, <1>2, <1>3, <1>6, <1>7, <1>8, <1>9, <1>10, <1>11, BugWriteKeeps

LEMMA MoveKeeps ==
  ASSUME SuiteInv, BugInv, NEW s \in Slot, Move(s)
  PROVE  BugInv' /\ BugsKept
<1> DEFINE q == inflight[s]
<1>0. PICK b : b = q.bug
  OBVIOUS
<1> DEFINE move == [from |-> q.seen.status, to |-> q.to]
<1>1. /\ OnlySlot(s) /\ inflight'[s] = Idle /\ (overlapped => overlapped')
      /\ ~overlapped' => ~overlapped /\ q.seen = bugs[b]
  BY <1>0, SettleOnly DEF Move, SuiteInv
<1>2. /\ q.op = "move" /\ UNCHANGED cases /\ UNCHANGED <<tickets, relates>>
      /\ bugs' = [bugs EXCEPT ![b].status = q.to, ![b].resolved = q.to \in Resolved]
      /\ bugMoves' = [bugMoves EXCEPT ![b] = Append(@, move)]
  BY <1>0 DEF Move, Is, suiteVars
<1>3. /\ BugRequest(q) /\ b \in DOMAIN bugs /\ bugs[b] \in Bug
      /\ SoundBug(bugs[b], bugMoves[b])
      /\ bugMoves[b] \in Seq(BugMove)
      /\ b \in DOMAIN bugMoves
  BY <1>0, <1>2, BugWritten, BugAt DEF OnBug, BugInv
<1>4. ~q.seen.archived /\ q.seen \in Bug /\ q.to \in BugStatus
  BY <1>0, <1>2, <1>3 DEF BugRequest, OnBug
<1>5. move \in BugMove /\ move.to = q.to
  BY <1>4 DEF Bug, BugMove
<1> HIDE DEF q, move
<1>6. /\ bugs'[b] = [bugs[b] EXCEPT !.status = q.to, !.resolved = q.to \in Resolved]
      /\ bugs' = [bugs EXCEPT ![b] = bugs'[b]]
  BY <1>2, <1>3
<1>7. /\ bugs'[b] \in Bug
      /\ bugs'[b].case = bugs[b].case /\ bugs'[b].system = bugs[b].system
      /\ bugs'[b].status = q.to /\ bugs'[b].resolved = (q.to \in Resolved)
      /\ bugs'[b].ticket = bugs[b].ticket
  <2>1. ASSUME NEW r \in BOOLEAN, bugs'[b] = [bugs[b] EXCEPT !.status = q.to, !.resolved = r]
        PROVE  /\ bugs'[b] \in Bug
               /\ bugs'[b].case = bugs[b].case /\ bugs'[b].system = bugs[b].system
               /\ bugs'[b].status = q.to /\ bugs'[b].resolved = r
               /\ bugs'[b].ticket = bugs[b].ticket
    BY <1>3, <1>4, <2>1 DEF Bug
  <2>2. (q.to \in Resolved) \in BOOLEAN
    OBVIOUS
  <2> QED
    BY <1>6, <2>1, <2>2
<1>8. /\ bugMoves'[b] = Append(bugMoves[b], move)
      /\ bugMoves' = [bugMoves EXCEPT ![b] = bugMoves'[b]]
  BY <1>2, <1>3
<1>9. /\ bugMoves'[b] \in Seq(BugMove) /\ bugMoves'[b] # <<>>
      /\ bugMoves'[b][Len(bugMoves'[b])] = move
  BY <1>3, <1>5, <1>8, AppendProperties
<1>10. SoundBug(bugs'[b], bugMoves'[b])
  BY <1>3, <1>5, <1>7, <1>9 DEF SoundBug
<1>11. ~overlapped' => (bugs'[b].case # 0 => bugs'[b].system = Home)
  BY <1>1, <1>3, <1>7 DEF BugInv, BugsUndisturbed
<1>12. /\ TicketsTyped' /\ TicketsOnward
       /\ \A t : t \notin DOMAIN tickets' \ DOMAIN tickets
  BY <1>2, TicketsLeft
<1>13. ~overlapped' => BugKept(b)
  <2> SUFFICES ASSUME ~overlapped' PROVE BugKept(b)
    OBVIOUS
  <2>1. q.seen = bugs[b] /\ ~bugs[b].archived
    BY <1>1, <1>4
  <2>2. AtHome(b) => AtHome(b)'
    BY <1>7, <1>12, SameAtHome
  <2> QED
    BY <1>12, <2>1, <2>2 DEF BugKept
<1> QED
  BY <1>1, <1>2, <1>3, <1>6, <1>7, <1>8, <1>9, <1>10, <1>11, <1>12, <1>13, BugWriteKeeps

\* What a promoted ticket is related to was there to begin with.
LEMMA CoveringFiled == ASSUME SuiteInv, NEW bug PROVE Covering(bug) \subseteq DOMAIN Filed
<1>1. DOMAIN Filed = 1 .. Len(Filed) /\ Len(Filed) \in Nat
  BY TestCasesAssumption, LenProperties
<1>2. \A c \in DOMAIN cases : cases[c].covers \in 0 .. Len(Filed)
  BY CaseList DEF SuiteInv, TestCase
<1>3. links \subseteq DOMAIN Filed
  BY DEF SuiteInv, TestsTyped
<1>4. ASSUME NEW t \in Covering(bug) PROVE t \in DOMAIN Filed
  <2>1. t # 0 /\ (t \in links \/ \E c \in DOMAIN cases : t = cases[c].covers)
    BY DEF Covering
  <2> QED
    BY <1>1, <1>2, <1>3, <2>1
<1> QED
  BY <1>4

LEMMA PromoteKeeps ==
  ASSUME SuiteInv, BugInv, NEW s \in Slot, Promote(s)
  PROVE  BugInv' /\ BugsKept
<1> DEFINE q == inflight[s]
<1>0. PICK b, t, new : b = q.bug /\ t = Len(tickets) + 1 /\ new = [system |-> q.seen.system, bug |-> b]
  OBVIOUS
<1>1. /\ OnlySlot(s) /\ inflight'[s] = Idle /\ (overlapped => overlapped')
      /\ ~overlapped' => ~overlapped /\ q.seen = bugs[b]
  BY <1>0, SettleOnly DEF Promote, SuiteInv
<1>2. /\ q.op = "promote" /\ UNCHANGED cases /\ UNCHANGED bugMoves /\ t <= MaxTickets
      /\ tickets' = Append(tickets, new)
      /\ bugs' = [bugs EXCEPT ![b].ticket = t]
      /\ relates' = relates \cup ({t} \X Covering(q.seen))
  BY <1>0 DEF Promote, Is, suiteVars
<1>3. /\ BugRequest(q) /\ b \in DOMAIN bugs /\ bugs[b] \in Bug
      /\ SoundBug(bugs[b], bugMoves[b])
      /\ bugMoves[b] \in Seq(BugMove)
      /\ bugMoves' = [bugMoves EXCEPT ![b] = bugMoves'[b]]
      /\ Len(tickets) \in Nat /\ DOMAIN tickets = 1 .. Len(tickets)
  BY <1>0, <1>2, BugWritten DEF OnBug
<1>4. ~q.seen.archived /\ q.seen \in Bug /\ q.seen.ticket = 0
  BY <1>2, <1>3 DEF BugRequest, OnBug
<1>5. new \in Ticket /\ new.bug = b /\ new.system = q.seen.system
  <2>1. b \in 0 .. MaxBugs
    BY <1>3, BugAt, QualityAssumption DEF BugInv, BugsTyped
  <2> QED
    BY <1>0, <1>4, <2>1 DEF Bug, Ticket
<1>6. Covering(q.seen) \subseteq DOMAIN Filed
  BY CoveringFiled
<1> HIDE DEF q
<1>7. /\ bugs'[b] = [bugs[b] EXCEPT !.ticket = t]
      /\ bugs' = [bugs EXCEPT ![b] = bugs'[b]]
  BY <1>2, <1>3
<1>8. /\ bugs'[b] \in Bug
      /\ bugs'[b].case = bugs[b].case /\ bugs'[b].system = bugs[b].system
      /\ bugs'[b].status = bugs[b].status /\ bugs'[b].resolved = bugs[b].resolved
      /\ bugs'[b].ticket = t
  <2>1. t \in 0 .. MaxTickets
    BY <1>0, <1>2, <1>3, QualityAssumption
  <2> QED
    BY <1>3, <1>7, <2>1 DEF Bug
<1>9. SoundBug(bugs'[b], bugMoves'[b])
  BY <1>2, <1>3, <1>8 DEF SoundBug
<1>10. ~overlapped' => (bugs'[b].case # 0 => bugs'[b].system = Home)
  BY <1>1, <1>3, <1>8 DEF BugInv, BugsUndisturbed
<1>11. /\ tickets \in Seq(Ticket) /\ Len(Filed) <= Len(tickets) /\ Len(tickets) <= MaxTickets
       /\ relates \subseteq { p \in (DOMAIN tickets) \X DOMAIN Filed : p[1] # p[2] }
       /\ DOMAIN Filed = 1 .. Len(Filed) /\ Len(Filed) \in Nat
  BY TestCasesAssumption, LenProperties DEF BugInv, TicketsTyped
<1>12. /\ tickets' \in Seq(Ticket) /\ Len(tickets') = t /\ tickets'[t] = new
       /\ \A u \in 1 .. Len(tickets) : tickets'[u] = tickets[u]
  BY <1>0, <1>2, <1>5, <1>11, AppendProperties
<1>13. DOMAIN tickets' = 1 .. t
  BY <1>12, LenProperties
<1>14. TicketsTyped'
  <2>1. t \notin DOMAIN Filed /\ t \in DOMAIN tickets' /\ DOMAIN tickets \subseteq DOMAIN tickets'
    BY <1>0, <1>3, <1>11, <1>13
  <2>2. relates' \subseteq { p \in (DOMAIN tickets') \X DOMAIN Filed : p[1] # p[2] }
    <3>1. {t} \X Covering(q.seen)
            \subseteq { p \in (DOMAIN tickets') \X DOMAIN Filed : p[1] # p[2] }
      BY <1>6, <2>1
    <3>2. relates \subseteq { p \in (DOMAIN tickets') \X DOMAIN Filed : p[1] # p[2] }
      BY <1>11, <2>1
    <3> QED
      BY <1>2, <3>1, <3>2
  <2>3. Len(Filed) <= Len(tickets') /\ Len(tickets') <= MaxTickets
    BY <1>0, <1>2, <1>3, <1>11, <1>12
  <2> QED
    BY <1>12, <2>2, <2>3 DEF TicketsTyped
<1>15. TicketsOnward
  BY <1>0, <1>3, <1>12, <1>13 DEF TicketsOnward
<1>16. DOMAIN tickets' \ DOMAIN tickets = {t}
  BY <1>0, <1>3, <1>13
<1>17. ~overlapped' => BugKept(b)
  <2> SUFFICES ASSUME ~overlapped' PROVE BugKept(b)
    OBVIOUS
  <2>1. q.seen = bugs[b] /\ ~bugs[b].archived /\ bugs[b].ticket = 0
    BY <1>1, <1>4
  <2>2. AtHome(b)'
    BY <1>5, <1>8, <1>12, <1>16, <2>1 DEF AtHome, TicketsOn
  <2> QED
    BY <2>1, <2>2 DEF BugKept
<1>18. \A u \in DOMAIN tickets' \ DOMAIN tickets : tickets'[u].bug = b
  BY <1>5, <1>12, <1>16
<1> QED
  BY <1>1, <1>2, <1>3, <1>7, <1>8, <1>9, <1>10, <1>14, <1>15, <1>17, <1>18, BugWriteKeeps

LEMMA ShelveKeeps ==
  ASSUME SuiteInv, BugInv, NEW s \in Slot, Shelve(s)
  PROVE  BugInv' /\ BugsKept
<1> DEFINE q == inflight[s]
<1>0. PICK b : b = q.bug
  OBVIOUS
<1>1. /\ OnlySlot(s) /\ inflight'[s] = Idle /\ (overlapped => overlapped')
      /\ ~overlapped' => ~overlapped /\ q.seen = bugs[b]
  BY <1>0, SettleOnly DEF Shelve, SuiteInv
<1>2. /\ q.op = "shelve" /\ UNCHANGED cases /\ UNCHANGED <<bugMoves, tickets, relates>>
      /\ bugs' = [bugs EXCEPT ![b].archived = ~q.seen.archived]
  BY <1>0 DEF Shelve, Is, suiteVars
<1>3. /\ BugRequest(q) /\ b \in DOMAIN bugs /\ bugs[b] \in Bug
      /\ SoundBug(bugs[b], bugMoves[b])
      /\ bugMoves[b] \in Seq(BugMove)
      /\ bugMoves' = [bugMoves EXCEPT ![b] = bugMoves'[b]]
  BY <1>0, <1>2, BugWritten DEF OnBug
<1>4. PICK shelved \in BOOLEAN : shelved = ~q.seen.archived
  OBVIOUS
<1> HIDE DEF q
<1>5. /\ bugs'[b] = [bugs[b] EXCEPT !.archived = shelved]
      /\ bugs' = [bugs EXCEPT ![b] = bugs'[b]]
  BY <1>2, <1>3, <1>4
<1>6. /\ bugs'[b] \in Bug
      /\ bugs'[b].case = bugs[b].case /\ bugs'[b].system = bugs[b].system
      /\ bugs'[b].status = bugs[b].status /\ bugs'[b].resolved = bugs[b].resolved
      /\ bugs'[b].ticket = bugs[b].ticket
      /\ bugs'[b] = [bugs[b] EXCEPT !.archived = shelved, !.case = bugs[b].case]
  BY <1>3, <1>5 DEF Bug
<1>7. SoundBug(bugs'[b], bugMoves'[b])
  BY <1>2, <1>3, <1>6 DEF SoundBug
<1>8. ~overlapped' => (bugs'[b].case # 0 => bugs'[b].system = Home)
  BY <1>1, <1>3, <1>6 DEF BugInv, BugsUndisturbed
<1>9. /\ TicketsTyped' /\ TicketsOnward
      /\ \A t : t \notin DOMAIN tickets' \ DOMAIN tickets
  BY <1>2, TicketsLeft
<1>10. BugKept(b)
  <2>1. AtHome(b) => AtHome(b)'
    BY <1>6, <1>9, SameAtHome
  <2> QED
    BY <1>6, <1>9, <2>1 DEF BugKept
<1> QED
  BY <1>1, <1>2, <1>3, <1>5, <1>6, <1>7, <1>8, <1>9, <1>10, BugWriteKeeps

LEMMA WriteBugKeeps ==
  ASSUME SuiteInv, BugInv, NEW s \in Slot, WriteBug(s)
  PROVE  SuiteInv' /\ ResultsKept /\ BugInv' /\ BugsKept
<1>1. BugInv' /\ BugsKept
  BY AdoptKeeps, AttachKeeps, MoveKeeps, PromoteKeeps, ShelveKeeps DEF WriteBug
<1>2. UNCHANGED suiteVars
  BY DEF WriteBug, Adopt, Attach, Move, Promote, Shelve
<1>3. \E now : Settle(s, now)
  BY DEF WriteBug, Adopt, Attach, Move, Promote, Shelve
<1>4. /\ OnlySlot(s) /\ inflight'[s] = Idle
      /\ overlapped' \in BOOLEAN /\ (overlapped => overlapped')
  BY <1>3, SettleOnly DEF SuiteInv
<1>5. inflight'[s].op = "idle"
  BY <1>4 DEF Idle
<1> QED
  BY <1>1, <1>2, <1>4, <1>5, TestsUntouched

\* A draft goes, and the bugs it found are kept without it.
LEMMA DeleteCaseKeeps ==
  ASSUME SuiteInv, BugInv, NEW s \in Slot, DeleteCase(s)
  PROVE  SuiteInv' /\ ResultsKept /\ BugInv' /\ BugsKept
<1>0. PICK x : x = inflight[s].case
  OBVIOUS
<1>1. /\ Delete(s) /\ x \in DOMAIN cases /\ UNCHANGED <<bugMoves, tickets, relates>>
      /\ bugs' = Orphaned(x)
  BY <1>0 DEF DeleteCase, Delete
<1>2. SuiteInv' /\ ResultsKept /\ DOMAIN cases' = DOMAIN cases \ {x}
  BY <1>0, <1>1, DeleteKeeps, DeletedNeverRan
<1>3. OnlySlot(s) /\ inflight'[s] = Idle /\ (overlapped => overlapped')
  BY <1>1, SettleOnly DEF Delete, SuiteInv
<1>4. x # 0
  BY <1>1, CaseList DEF SuiteInv
<1>5. bugs \in Seq(Bug) /\ DOMAIN bugs = 1 .. Len(bugs) /\ Len(bugs) \in Nat
  BY BugAt DEF BugInv, BugsTyped
<1>6. /\ DOMAIN bugs' = DOMAIN bugs
      /\ \A b \in DOMAIN bugs : bugs'[b] = [bugs[b] EXCEPT !.case = IF @ = x THEN 0 ELSE @]
      /\ bugs' = [b \in DOMAIN bugs |-> bugs'[b]]
  BY <1>1 DEF Orphaned
<1>7. \A b \in DOMAIN bugs :
        /\ bugs'[b] \in Bug
        /\ bugs'[b].case = IF bugs[b].case = x THEN 0 ELSE bugs[b].case
        /\ bugs'[b].system = bugs[b].system /\ bugs'[b].status = bugs[b].status
        /\ bugs'[b].resolved = bugs[b].resolved /\ bugs'[b].ticket = bugs[b].ticket
        /\ bugs'[b] = [bugs[b] EXCEPT !.archived = bugs[b].archived, !.case = bugs'[b].case]
        /\ bugs[b].archived \in BOOLEAN
  <2> SUFFICES ASSUME NEW b \in DOMAIN bugs
               PROVE
        /\ bugs'[b] \in Bug
        /\ bugs'[b].case = IF bugs[b].case = x THEN 0 ELSE bugs[b].case
        /\ bugs'[b].system = bugs[b].system /\ bugs'[b].status = bugs[b].status
        /\ bugs'[b].resolved = bugs[b].resolved /\ bugs'[b].ticket = bugs[b].ticket
        /\ bugs'[b] = [bugs[b] EXCEPT !.archived = bugs[b].archived, !.case = bugs'[b].case]
        /\ bugs[b].archived \in BOOLEAN
    OBVIOUS
  <2>1. bugs[b] \in Bug
    BY <1>5, ElementOfSeq
  <2>2. bugs'[b] = [bugs[b] EXCEPT !.case = IF bugs[b].case = x THEN 0 ELSE bugs[b].case]
    BY <1>6
  <2>3. (IF bugs[b].case = x THEN 0 ELSE bugs[b].case) \in 0 .. MaxCases
    BY <2>1, TestCasesAssumption DEF Bug
  <2> QED
    BY <2>1, <2>2, <2>3 DEF Bug
<1>8. /\ TicketsTyped' /\ TicketsOnward
      /\ \A t : t \notin DOMAIN tickets' \ DOMAIN tickets
  BY <1>1, TicketsLeft
<1>9. bugs' \in Seq(Bug) /\ Len(bugs') = Len(bugs)
  <2>1. bugs' \in [1 .. Len(bugs) -> Bug]
    BY <1>5, <1>6, <1>7
  <2> QED
    BY <1>5, <2>1
<1>10. BugsTyped'
  BY <1>1, <1>9 DEF BugInv, BugsTyped
<1>11. BugsSound'
  <2>1. SUFFICES ASSUME NEW b \in DOMAIN bugs
                 PROVE  /\ bugs'[b].case \in DOMAIN cases' \cup {0}
                        /\ bugMoves[b] # <<>> /\ bugMoves[b][Len(bugMoves[b])].to = bugs'[b].status
                        /\ bugs'[b].resolved = (bugs'[b].status \in Resolved)
    BY <1>1, <1>6 DEF BugsSound, SoundBug
  <2>2. SoundBug(bugs[b], bugMoves[b])
    BY DEF BugInv, BugsSound
  <2>3. bugs'[b].case \in DOMAIN cases' \cup {0}
    BY <1>2, <1>7, <2>2 DEF SoundBug
  <2>4. bugs'[b].status = bugs[b].status /\ bugs'[b].resolved = bugs[b].resolved
    BY <1>7
  <2> QED
    BY <2>2, <2>3, <2>4 DEF SoundBug
<1>12. BugRequests'
  <2>1. BugRequest(inflight[s])'
    BY <1>3, NoBugAsked DEF Idle, OnBug
  <2> QED
    BY <1>3, <1>6, <1>8, <2>1, KeepBugRequests DEF BugInv
<1>13. BugsUndisturbed'
  BY <1>3, <1>4, <1>6, <1>7 DEF BugInv, BugsUndisturbed
<1>14. ASSUME NEW b \in DOMAIN bugs PROVE BugKept(b)
  <2>1. AtHome(b) => AtHome(b)'
    BY <1>7, <1>8, SameAtHome
  <2>2. bugs'[b].case \in {bugs[b].case, 0}
    BY <1>7
  <2>3. \E a \in BOOLEAN, c \in {bugs[b].case, 0} :
          bugs'[b] = [bugs[b] EXCEPT !.archived = a, !.case = c]
    BY <1>7, <2>2
  <2> QED
    BY <1>8, <2>1, <2>3 DEF BugKept
<1> QED
  BY <1>2, <1>8, <1>10, <1>11, <1>12, <1>13, <1>14 DEF BugInv, BugsKept

LEMMA DropKeeps ==
  ASSUME SuiteInv, BugInv, NEW s \in Slot, Drop(s)
  PROVE  SuiteInv' /\ ResultsKept /\ BugInv' /\ BugsKept
<1>1. /\ inflight' = [inflight EXCEPT ![s] = Idle]
      /\ UNCHANGED suiteVars /\ UNCHANGED bugVars /\ UNCHANGED overlapped /\ UNCHANGED cases
  BY DEF Drop, suiteVars
<1>2. OnlySlot(s) /\ inflight'[s] = Idle
  BY <1>1 DEF SuiteInv, TestsTyped, OnlySlot
<1>3. inflight'[s].op = "idle"
  BY <1>2 DEF Idle
<1>4. overlapped' \in BOOLEAN /\ (overlapped => overlapped')
  BY <1>1 DEF SuiteInv, TestsTyped
<1>5. SuiteInv' /\ ResultsKept
  BY <1>1, <1>2, <1>3, <1>4, TestsUntouched
<1>6. BugRequest(inflight[s])'
  BY <1>3, NoBugAsked DEF OnBug
<1>7. BugInv' /\ BugsKept
  BY <1>1, <1>2, <1>6, AskKeeps
<1> QED
  BY <1>5, <1>7

-----------------------------------------------------------------------------
(* Theorems                                                                *)

QualityInv == SuiteInv /\ BugInv

LEMMA SuiteStill ==
  ASSUME SuiteInv, UNCHANGED <<suite, links, cases, results, clock, inflight, overlapped>>
  PROVE  SuiteInv'
<1> USE DEF SuiteInv
<1>1. TestsTyped' /\ CasesSound'
  BY DEF TestsTyped, CasesSound
<1>2. Requests'
  BY DEF Requests, TestRequest, Numbered
<1>3. OpenRows' /\ OneLock'
  BY DEF OpenRows, OpenRow, OneLock, Is
<1>4. TestsUndisturbed'
  BY DEF TestsUndisturbed
<1> QED
  BY <1>1, <1>2, <1>3, <1>4

LEMMA QualityStep ==
  ASSUME QualityInv, [QualityNext]_vars
  PROVE  QualityInv' /\ ResultsKept /\ BugsKept
<1> USE DEF QualityInv
<1>1. CASE UNCHANGED vars
  <2>1. /\ UNCHANGED <<suite, links, cases, results, clock, inflight, overlapped>>
        /\ UNCHANGED bugVars
    BY <1>1 DEF vars, suiteVars
  <2>2. SuiteInv'
    BY <2>1, SuiteStill
  <2>3. BugRequests'
    BY <2>1 DEF BugInv, BugRequests, BugRequest, TicketsOn, bugVars
  <2>4. BugInv' /\ BugsKept
    BY <2>1, <2>3, BugsLeft
  <2> QED
    BY <2>1, <2>2, <2>4, SameResultsKept
<1>2. ASSUME NEW case \in DOMAIN cases \cup {0}, NEW system \in System,
             NEW t \in DOMAIN tickets \cup {0}, File(case, system, t)
      PROVE  QualityInv' /\ ResultsKept /\ BugsKept
  <2>1. UNCHANGED <<suite, links, cases, results, clock, inflight, overlapped>>
    BY <1>2 DEF File, suiteVars
  <2>2. SuiteInv'
    BY <2>1, SuiteStill
  <2>3. DOMAIN cases \subseteq 1 .. MaxCases
    BY CaseList, TestCasesAssumption DEF SuiteInv, TestsTyped
  <2>4. BugInv' /\ BugsKept
    BY <1>2, <2>3, FileKeeps
  <2> QED
    BY <2>1, <2>2, <2>4, SameResultsKept
<1>3. ASSUME NEW s \in Slot, SuiteStep(s)
      PROVE  QualityInv' /\ ResultsKept /\ BugsKept
  <2>1. /\ SuiteInv' /\ ResultsKept /\ DOMAIN cases \subseteq DOMAIN cases'
        /\ overlapped => overlapped'
        /\ inflight' = inflight \/ (OnlySlot(s) /\ inflight'[s].op \notin OnBug)
    BY <1>3, SuiteStepKeeps
  <2>2. UNCHANGED bugVars /\ UNCHANGED <<bugs, tickets>>
    BY <1>3 DEF SuiteStep, bugVars
  <2>3. BugRequests'
    <3>1. CASE inflight' = inflight
      BY <2>2, <3>1 DEF BugInv, BugRequests, BugRequest, TicketsOn
    <3>2. CASE OnlySlot(s) /\ inflight'[s].op \notin OnBug
      <4>1. TicketsOnward
        BY <2>2, LenProperties DEF TicketsOnward, BugInv, TicketsTyped
      <4> QED
        BY <2>2, <3>2, <4>1, NoBugAsked, KeepBugRequests DEF BugInv
    <3> QED
      BY <2>1, <3>1, <3>2
  <2>4. BugInv' /\ BugsKept
    BY <2>1, <2>2, <2>3, BugsLeft
  <2> QED
    BY <2>1, <2>4
<1>4. ASSUME NEW s \in Slot, LoadBug(s)
      PROVE  QualityInv' /\ ResultsKept /\ BugsKept
  <2>1. BugInv' /\ BugsKept /\ OnlySlot(s) /\ inflight'[s].op \in OnBug
    BY <1>4, LoadBugKeeps
  <2>2. UNCHANGED suiteVars /\ UNCHANGED overlapped
    BY <1>4 DEF LoadBug
  <2>3. overlapped' \in BOOLEAN /\ (overlapped => overlapped')
    BY <2>2 DEF SuiteInv, TestsTyped
  <2>4. SuiteInv' /\ ResultsKept
    BY <2>1, <2>2, <2>3, TestsUntouched
  <2> QED
    BY <2>1, <2>4
<1> QED
  BY <1>1, <1>2, <1>3, <1>4, WriteBugKeeps, DeleteCaseKeeps, DropKeeps DEF QualityNext

LEMMA QualityInvariant == QualitySpec => []QualityInv
<1>1. QualityInit => QualityInv
  BY SuiteInitially, BugsInitially DEF QualityInv
<1>2. QualityInv /\ [QualityNext]_vars => QualityInv'
  BY QualityStep
<1> QED
  BY <1>1, <1>2, PTL DEF QualitySpec

(***************************************************************************)
(* The rows of the suite, its bugs and its tickets are typed, a bug's case *)
(* is one there is, and a promoted ticket is related to those there were   *)
(* to begin with.                                                          *)
(***************************************************************************)
THEOREM QualityTyped == QualitySpec => []QualityTypeOK
<1>1. ASSUME QualityInv PROVE QualityTypeOK
  <2>1. SuiteInv /\ BugInv
    BY <1>1 DEF QualityInv
  <2>2. /\ suite \in [state : TestState, isArchived : BOOLEAN, ran : 0 .. MaxRuns]
        /\ links \subseteq DOMAIN Filed /\ clock \in 0 .. MaxRuns
    BY <2>1 DEF SuiteInv, TestsTyped
  <2>3. DOMAIN cases \subseteq 1 .. MaxCases /\ \A c \in DOMAIN cases : cases[c] \in TestCase
    BY <2>1, CaseList, TestCasesAssumption DEF SuiteInv, TestsTyped
  <2>4. /\ \A b \in DOMAIN bugs : bugs[b] \in Bug /\ bugs[b].case \in DOMAIN cases \cup {0}
        /\ DOMAIN bugMoves = DOMAIN bugs
    BY <2>1, BugAt DEF BugInv, BugsSound, SoundBug
  <2>5. \A t \in DOMAIN tickets : tickets[t] \in Ticket
    BY <2>1, LenProperties, ElementOfSeq DEF BugInv, TicketsTyped
  <2>6. relates \subseteq { p \in (DOMAIN tickets) \X DOMAIN Filed : p[1] # p[2] }
    BY <2>1 DEF BugInv, TicketsTyped
  <2> QED
    BY <2>2, <2>3, <2>4, <2>5, <2>6 DEF QualityTypeOK
<1> QED
  BY <1>1, QualityInvariant, PTL

(***************************************************************************)
(* However requests overlap and fail, the status of a case and of a bug is *)
(* the one its newest history row tells, and a bug is stamped resolved     *)
(* just while its status says so.                                          *)
(***************************************************************************)
THEOREM RecordIsAudited == QualitySpec => []StatusesAudited
<1>1. ASSUME QualityInv PROVE StatusesAudited
  BY <1>1 DEF QualityInv, SuiteInv, CasesSound, SoundCase, BugInv, BugsSound, SoundBug, StatusesAudited
<1> QED
  BY <1>1, QualityInvariant, PTL

(***************************************************************************)
(* While no write was decided from rows that had changed, the suite was    *)
(* last run when its latest ACTIVE case was, its archive columns agree, no *)
(* two cases share a place, and results chain.                             *)
(***************************************************************************)
THEOREM SuiteStaysConsistent == QualitySpec => []UndisturbedSuite
<1>1. ASSUME QualityInv PROVE UndisturbedSuite
  BY <1>1 DEF QualityInv, SuiteInv, TestsUndisturbed, LatestOf, UndisturbedSuite
<1> QED
  BY <1>1, QualityInvariant, PTL

(***************************************************************************)
(* While no write was decided from rows that had changed, no step loses a  *)
(* result, records one on an archived case, changes an archived bug beyond *)
(* the draft it was found by, promotes a bug that is on a ticket, or       *)
(* leaves a bug on a ticket of another system.                             *)
(***************************************************************************)
THEOREM RecordIsKept == QualitySpec => UndisturbedRecord
<1>1. ASSUME QualityInv, [QualityNext]_vars
      PROVE  [ ~overlapped' =>
        /\ \A c \in DOMAIN results :
             /\ Len(results[c]) <= Len(results'[c])
             /\ c \in DOMAIN cases /\ cases[c].state = "ARCHIVED" =>
                  results'[c] = results[c]
        /\ \A b \in DOMAIN bugs :
             /\ bugs[b].archived =>
                  \E a \in BOOLEAN, c \in {bugs[b].case, 0} :
                    bugs'[b] = [bugs[b] EXCEPT !.archived = a, !.case = c]
             /\ bugs[b].ticket # 0 =>
                  \A t \in DOMAIN tickets' \ DOMAIN tickets : tickets'[t].bug # b
             /\ AtHome(b) => AtHome(b)' \/ bugs'[b].case \notin {bugs[b].case, 0} ]_vars
  <2>1. ResultsKept /\ BugsKept
    BY <1>1, QualityStep
  <2> QED
    BY <2>1 DEF ResultsKept, BugsKept, BugKept
<1> QED
  BY <1>1, QualityInvariant, PTL DEF QualitySpec, UndisturbedRecord

=============================================================================
