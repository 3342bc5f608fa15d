--------------------------- MODULE RequestsProofs ---------------------------
(***************************************************************************)
(* Proofs about TaskBoard, TicketWorkflow and TicketRequests, for any      *)
(* users, roles, slots and bounds.                                         *)
(*                                                                         *)
(* First the roster of a ticket: what each roster operation preserves, and *)
(* from it the invariants and the action property of TaskBoard.            *)
(*                                                                         *)
(* Then the ticket with its requests one at a time: its types, the         *)
(* unbroken history, the clock columns, the roster under all that touches  *)
(* it, and that no ticket is developed without an approval in its round.   *)
(*                                                                         *)
(* Then the requests: however they overlap and fail, the history holds     *)
(* moves some endpoint makes, and the status a race leaves behind is       *)
(* recorded.  And one at a time, none failing, they implement              *)
(* TicketWorkflow.                                                         *)
(***************************************************************************)
EXTENDS TicketRequests, TicketScreen, SequenceTheorems, FiniteSetTheorems,
        WellFoundedInduction, TLAPS

\* LeadOnRoster, of any roster.
WellLed(r) ==
  /\ r.lead \subseteq r.active
  /\ \A d, e \in r.lead : d = e

(***************************************************************************)
(* Every operation on a roster yields a roster with one lead, on it.       *)
(***************************************************************************)
LEMMA SetLeadWellLed ==
  ASSUME NEW r \in Rosters, NEW d \in User
  PROVE  SetLead(r, d) \in Rosters /\ WellLed(SetLead(r, d))
BY DEF SetLead, Rosters, WellLed

LEMMA AddAssigneeWellLed ==
  ASSUME NEW r \in Rosters, NEW d \in User, WellLed(r)
  PROVE  AddAssignee(r, d) \in Rosters /\ WellLed(AddAssignee(r, d))
BY DEF AddAssignee, ActiveLeads, Rosters, WellLed

LEMMA RemoveAssigneeWellLed ==
  ASSUME NEW r \in Rosters, NEW d \in User, WellLed(r)
  PROVE  RemoveAssignee(r, d) \in Rosters /\ WellLed(RemoveAssignee(r, d))
BY DEF RemoveAssignee, Rosters, WellLed

LEMMA AssignTeamWellLed ==
  ASSUME NEW r \in Rosters, NEW team \in SUBSET User, NEW l \in team
  PROVE  AssignTeam(r, team, l) \in Rosters /\ WellLed(AssignTeam(r, team, l))
<1>1. [r EXCEPT !.active = team] \in Rosters
  BY DEF Rosters
<1> QED
  BY <1>1, SetLeadWellLed DEF AssignTeam

(***************************************************************************)
(* The sync puts every holder on the roster, leaves the lead alone where   *)
(* there is one and finds one where there is none.                         *)
(***************************************************************************)
LEMMA SyncReconciles ==
  ASSUME NEW r \in Rosters, NEW hs \in SUBSET User, WellLed(r),
         NEW s \in SyncFromTasks(r, hs)
  PROVE  /\ s \in Rosters /\ WellLed(s)
         /\ hs \subseteq s.active
         /\ ActiveLeads(r) # {} => ActiveLeads(s) = ActiveLeads(r)
         /\ ActiveLeads(r) = {} /\ hs # {} => ActiveLeads(s) # {}
<1> DEFINE kept == Reconciled(r, hs)
<1>1. /\ kept \in Rosters /\ WellLed(kept)
      /\ hs \subseteq kept.active
      /\ ActiveLeads(kept) = ActiveLeads(r)
  BY DEF Reconciled, ActiveLeads, Rosters, WellLed
<1>2. CASE ActiveLeads(kept) = {} /\ hs # {}
  <2>1. PICK h \in hs : s = SetLead(kept, h)
    BY <1>2 DEF SyncFromTasks
  <2>2. s \in Rosters /\ WellLed(s)
    BY <1>1, <2>1, SetLeadWellLed
  <2>3. s.active = kept.active \cup {h} /\ s.lead = {h}
    BY <2>1 DEF SetLead
  <2> QED
    BY <1>1, <1>2, <2>2, <2>3 DEF ActiveLeads
<1>3. CASE ~(ActiveLeads(kept) = {} /\ hs # {})
  <2>1. s = kept
    BY <1>3 DEF SyncFromTasks
  <2> QED
    BY <1>1, <1>3, <2>1
<1> QED
  BY <1>2, <1>3

-----------------------------------------------------------------------------
BoardInv == BoardTypeOK /\ LeadOnRoster

LEMMA BoardInitially == BoardInit => BoardInv /\ HoldersOnRoster
<1>1. EmptyRoster \in Rosters /\ WellLed(EmptyRoster)
  BY DEF EmptyRoster, Rosters, WellLed
<1>2. \A d \in User : SetLead(EmptyRoster, d) \in Rosters /\ WellLed(SetLead(EmptyRoster, d))
  BY <1>1, SetLeadWellLed
<1> QED
  BY <1>1, <1>2
  DEF BoardInit, BoardInv, BoardTypeOK, LeadOnRoster, HoldersOnRoster, WellLed

(***************************************************************************)
(* A step that ends in the sync: the facts TaskWriteKeepsLead and the      *)
(* invariants need of it.                                                  *)
(***************************************************************************)
LEMMA SyncStep ==
  ASSUME BoardInv, Sync, holders' \in SUBSET User, open' \in BOOLEAN
  PROVE  /\ BoardInv' /\ HoldersOnRoster'
         /\ ActiveLeads(roster) # {} => ActiveLeads(roster') = ActiveLeads(roster)
         /\ ActiveLeads(roster) = {} /\ holders' # {} => ActiveLeads(roster') # {}
<1>1. roster \in Rosters /\ WellLed(roster)
  BY DEF BoardInv, BoardTypeOK, LeadOnRoster, WellLed
<1>2. roster' \in SyncFromTasks(roster, holders')
  BY DEF Sync
<1>3. /\ roster' \in Rosters /\ WellLed(roster')
      /\ holders' \subseteq roster'.active
      /\ ActiveLeads(roster) # {} => ActiveLeads(roster') = ActiveLeads(roster)
      /\ ActiveLeads(roster) = {} /\ holders' # {} => ActiveLeads(roster') # {}
  BY <1>1, <1>2, SyncReconciles
<1> QED
  BY <1>3 DEF BoardInv, BoardTypeOK, LeadOnRoster, HoldersOnRoster, WellLed

LEMMA RosterStep ==
  ASSUME BoardInv, UNCHANGED <<holders, open>>,
         roster' \in Rosters, WellLed(roster')
  PROVE  BoardInv'
BY DEF BoardInv, BoardTypeOK, LeadOnRoster, WellLed

\* A task write either ends in the sync or leaves holders and roster alone.
LEMMA BoardStepKeeps ==
  ASSUME BoardInv, BoardNext
  PROVE  /\ BoardInv'
         /\ HoldersOnRoster => HoldersOnRoster'
         /\ holders' # holders => Sync /\ holders' \in SUBSET User /\ open' \in BOOLEAN
<1> USE DEF BoardInv
<1>0. /\ holders \in SUBSET User /\ open \in BOOLEAN /\ roster \in Rosters
      /\ WellLed(roster)
      /\ Reachable \subseteq User /\ Assignable \subseteq User
  BY EligibleAssumption
  DEF BoardTypeOK, LeadOnRoster, WellLed, Reachable, Assignable, Rosters
<1>1. ASSUME NEW u \in User, NEW d \in User, CreateTask(u, d)
      PROVE  Sync /\ holders' \in SUBSET User /\ open' \in BOOLEAN
  BY <1>0, <1>1 DEF CreateTask
<1>2. ASSUME NEW u \in User, NEW d \in User, RemoveTask(u, d)
      PROVE  Sync /\ holders' \in SUBSET User /\ open' \in BOOLEAN
  BY <1>0, <1>2 DEF RemoveTask, Without
<1>3. ASSUME NEW u \in User, NEW d \in User, NEW e \in User, ReassignTask(u, d, e)
      PROVE  Sync /\ holders' \in SUBSET User /\ open' \in BOOLEAN
  BY <1>0, <1>3 DEF ReassignTask, Without
<1>4. ASSUME NEW u \in User, NEW d \in User, AddToRoster(u, d)
      PROVE  /\ BoardInv' /\ holders' = holders
             /\ HoldersOnRoster => HoldersOnRoster'
  <2>1. roster' = AddAssignee(roster, d) /\ UNCHANGED <<holders, open>>
    BY <1>4 DEF AddToRoster
  <2>2. BoardInv'
    BY <1>0, <2>1, AddAssigneeWellLed, RosterStep
  <2>3. roster'.active = roster.active \cup {d}
    BY <2>1 DEF AddAssignee
  <2> QED
    BY <2>1, <2>2, <2>3 DEF HoldersOnRoster
<1>5. ASSUME NEW u \in User, NEW d \in User, RemoveFromRoster(u, d)
      PROVE  /\ BoardInv' /\ holders' = holders
             /\ HoldersOnRoster => HoldersOnRoster'
  <2>1. /\ roster' = RemoveAssignee(roster, d) /\ UNCHANGED <<holders, open>>
        /\ d \notin holders
    BY <1>5 DEF RemoveFromRoster
  <2>2. BoardInv'
    BY <1>0, <2>1, RemoveAssigneeWellLed, RosterStep
  <2>3. roster'.active = roster.active \ {d}
    BY <2>1 DEF RemoveAssignee
  <2> QED
    BY <2>1, <2>2, <2>3 DEF HoldersOnRoster
<1>6. ASSUME NEW u \in User, NEW d \in User, HandOverLead(u, d)
      PROVE  /\ BoardInv' /\ holders' = holders
             /\ HoldersOnRoster => HoldersOnRoster'
  <2>1. roster' = SetLead(roster, d) /\ UNCHANGED <<holders, open>>
    BY <1>6 DEF HandOverLead
  <2>2. BoardInv'
    BY <1>0, <2>1, SetLeadWellLed, RosterStep
  <2>3. roster'.active = roster.active \cup {d}
    BY <2>1 DEF SetLead
  <2> QED
    BY <2>1, <2>2, <2>3 DEF HoldersOnRoster
<1>7. ASSUME NEW u \in User, SetTaskStatus(u)
      PROVE  /\ BoardInv' /\ holders' = holders
             /\ HoldersOnRoster => HoldersOnRoster'
  BY <1>7 DEF SetTaskStatus, BoardTypeOK, LeadOnRoster, HoldersOnRoster
<1> QED
  BY <1>1, <1>2, <1>3, <1>4, <1>5, <1>6, <1>7, SyncStep DEF BoardNext

LEMMA BoardStutter ==
  ASSUME UNCHANGED boardVars
  PROVE  /\ BoardInv => BoardInv'
         /\ HoldersOnRoster => HoldersOnRoster'
BY DEF boardVars, BoardInv, BoardTypeOK, LeadOnRoster, HoldersOnRoster

(***************************************************************************)
(* LeadOnRoster is an invariant of the task board: whatever order tasks    *)
(* and roster are edited in, a ticket has at most one lead and he is on    *)
(* its active roster.                                                      *)
(***************************************************************************)
THEOREM BoardLeadOnRoster == BoardSpec => []LeadOnRoster
<1>1. BoardInit => BoardInv
  BY BoardInitially
<1>2. BoardInv /\ [BoardNext]_boardVars => BoardInv'
  BY BoardStepKeeps, BoardStutter
<1>3. BoardInv => LeadOnRoster
  BY DEF BoardInv
<1> QED
  BY <1>1, <1>2, <1>3, PTL DEF BoardSpec

(***************************************************************************)
(* HoldersOnRoster is an invariant of the task board: with tasks and       *)
(* roster written only by the handlers of TaskBoard, nobody holds a task   *)
(* without being on the roster.                                            *)
(***************************************************************************)
THEOREM BoardHoldersOnRoster == BoardSpec => []HoldersOnRoster
<1> DEFINE Inv == BoardInv /\ HoldersOnRoster
<1>1. BoardInit => Inv
  BY BoardInitially
<1>2. Inv /\ [BoardNext]_boardVars => Inv'
  BY BoardStepKeeps, BoardStutter
<1>3. Inv => HoldersOnRoster
  OBVIOUS
<1> QED
  BY <1>1, <1>2, <1>3, PTL DEF BoardSpec

(***************************************************************************)
(* No task write moves the lead, and none leaves held tasks without one.   *)
(***************************************************************************)
THEOREM BoardTaskWriteKeepsLead == BoardSpec => TaskWriteKeepsLead
<1> DEFINE Keeps == holders' # holders =>
                      IF ActiveLeads(roster) # {}
                        THEN ActiveLeads(roster') = ActiveLeads(roster)
                        ELSE holders' # {} => ActiveLeads(roster') # {}
<1>1. BoardInit => BoardInv
  BY BoardInitially
<1>2. BoardInv /\ [BoardNext]_boardVars => BoardInv'
  BY BoardStepKeeps, BoardStutter
<1>3. BoardInv /\ [BoardNext]_boardVars => [Keeps]_boardVars
  <2> SUFFICES ASSUME BoardInv, BoardNext, holders' # holders
               PROVE  Keeps
    BY DEF boardVars
  <2>1. Sync /\ holders' \in SUBSET User /\ open' \in BOOLEAN
    BY BoardStepKeeps
  <2> QED
    BY <2>1, SyncStep
<1> QED
  BY <1>1, <1>2, <1>3, PTL DEF BoardSpec, TaskWriteKeepsLead

-----------------------------------------------------------------------------

(***************************************************************************)
(* The strengthening ApprovedBeforeWork needs: a stopped ticket carries    *)
(* the approval of the status /resume will give back, and only the opening *)
(* row of a promoted ticket has no fromStatus for /resume to read.         *)
(***************************************************************************)
OpeningFirst ==
  \A i \in DOMAIN history :
    history[i].from = NoStatus => i = 1 /\ history[i].to = "DRAFT"

StoppedWorkApproved ==
  status \in Held /\ Last.from \in Development => Sanctioned

HistInv ==
  /\ status \in Status /\ history \in Seq(Edges)
  /\ HistoryChain /\ OpeningFirst
  /\ ApprovedBeforeWork /\ StoppedWorkApproved

ClockInv ==
  /\ started \in Nat /\ completed \in BOOLEAN
  /\ ClockMatchesStatus

Inv ==
  /\ TypeOK /\ LeadOnRoster
  /\ HistInv /\ ClockInv

LEMMA StatusSets ==
  /\ NoStatus \notin Status
  /\ Development \subseteq Status /\ Held \subseteq Status
  /\ Held \subseteq ResumableHold /\ Held \cap Development = {}
  /\ "NEW" \notin Development \cup Held /\ "DRAFT" \notin Development \cup Held
BY DEF NoStatus, Status, Development, Held, ResumableHold

-----------------------------------------------------------------------------
(***************************************************************************)
(* Where a stopped ticket's history is unbroken, its newest row is the one *)
(* /resume stops at: it gives back the status that row came from.          *)
(***************************************************************************)
LEMMA ResumeReadsLast ==
  ASSUME HistInv, status \in Held, NEW assigned \in BOOLEAN
  PROVE  /\ history # <<>>
         /\ ResumeTarget(history, assigned) = Last.from
         /\ Last.from \in Status
<1> DEFINE n == Len(history)
<1>1. history \in Seq(Edges) /\ history # <<>> /\ Last.to = status
  BY StatusSets DEF HistInv, HistoryChain
<1>2. n \in Nat /\ n >= 1 /\ DOMAIN history = 1 .. n /\ n \in DOMAIN history
  BY <1>1
<1>3. Last \in Edges /\ Last = history[n]
  BY <1>1, <1>2 DEF Last
<1>4. Last.from # NoStatus
  BY <1>1, <1>2, <1>3, StatusSets DEF HistInv, OpeningFirst
<1>5. n \in ReturnRows(history)
  BY <1>1, <1>2, <1>3, <1>4, StatusSets DEF ReturnRows, MarksReturn
<1>6. \A j \in ReturnRows(history) : j \in Nat /\ j <= n
  BY <1>2 DEF ReturnRows
<1>7. (CHOOSE i \in ReturnRows(history) : \A j \in ReturnRows(history) : j <= i) = n
  <2> DEFINE top == CHOOSE i \in ReturnRows(history) : \A j \in ReturnRows(history) : j <= i
  <2>1. top \in ReturnRows(history) /\ \A j \in ReturnRows(history) : j <= top
    BY <1>5, <1>6
  <2> QED
    BY <1>2, <1>5, <1>6, <2>1
<1>8. ResumeTarget(history, assigned) = history[n].from
  BY <1>5, <1>7 DEF ResumeTarget
<1> QED
  BY <1>1, <1>3, <1>4, <1>8 DEF Edges

(***************************************************************************)
(* What one more row does to the history, whoever writes it.               *)
(***************************************************************************)
LEMMA WriteAppends ==
  ASSUME NEW to \in Status, NEW f \in BOOLEAN, Write(to, f), HistInv
  PROVE  LET e == [from |-> status, to |-> to, forced |-> f]
         IN  /\ status' = to
             /\ history' \in Seq(Edges)
             /\ Len(history') = Len(history) + 1
             /\ DOMAIN history' = 1 .. Len(history) + 1
             /\ DOMAIN history = 1 .. Len(history)
             /\ \A i \in DOMAIN history : history'[i] = history[i]
             /\ history'[Len(history) + 1] = e
             /\ Last' = e
<1> DEFINE e == [from |-> status, to |-> to, forced |-> f]
<1>1. e \in Edges /\ history \in Seq(Edges)
  BY DEF Edges, HistInv
<1>2. status' = to /\ history' = Append(history, e)
  BY DEF Write
<1>3. /\ history' \in Seq(Edges)
      /\ Len(history') = Len(history) + 1
      /\ DOMAIN history' = 1 .. Len(history) + 1
      /\ DOMAIN history = 1 .. Len(history)
      /\ \A i \in 1 .. Len(history) : history'[i] = history[i]
      /\ history'[Len(history) + 1] = e
  BY <1>1, <1>2
<1> QED
  BY <1>2, <1>3 DEF Last

\* A row that does not reopen the round leaves its approval standing.
LEMMA SanctionKept ==
  ASSUME NEW to \in Status \ {"NEW"}, NEW f \in BOOLEAN, Write(to, f), HistInv,
         Sanctioned
  PROVE  Sanctioned'
<1> DEFINE n == Len(history)
<1>0. to \in Status /\ to # "NEW"
  OBVIOUS
<1>1. /\ DOMAIN history' = 1 .. n + 1 /\ DOMAIN history = 1 .. n /\ n \in Nat
      /\ \A i \in DOMAIN history : history'[i] = history[i]
      /\ history'[n + 1] = [from |-> status, to |-> to, forced |-> f]
  BY <1>0, WriteAppends DEF HistInv
<1>2. PICK i \in DOMAIN history :
        /\ Approves(history[i]) \/ history[i].forced
        /\ \A j \in DOMAIN history : j > i => ~Restarts(history[j])
  BY DEF Sanctioned
<1>3. i \in DOMAIN history' /\ history'[i] = history[i]
  BY <1>1
<1>4. ASSUME NEW j \in DOMAIN history', j > i
      PROVE  ~Restarts(history'[j])
  BY <1>0, <1>1, <1>2, <1>4 DEF Restarts
<1> QED
  BY <1>2, <1>3, <1>4 DEF Sanctioned

\* The approval of a ticket that waits for one.
Granted(to) == to = "APPROVED" /\ status \in { "NEW", "AWAITING_APPROVAL" }

\* A forced row, and an approval, sanction by themselves.
LEMMA SanctionGiven ==
  ASSUME NEW to \in Status, NEW f \in BOOLEAN, Write(to, f), HistInv,
         f = TRUE \/ Granted(to)
  PROVE  Sanctioned'
<1> DEFINE n == Len(history)
<1>1. /\ DOMAIN history' = 1 .. n + 1 /\ n \in Nat
      /\ history'[n + 1] = [from |-> status, to |-> to, forced |-> f]
  BY WriteAppends DEF HistInv
<1>2. Approves(history'[n + 1]) \/ history'[n + 1].forced
  BY <1>1 DEF Approves, Granted
<1>3. \A j \in DOMAIN history' : ~(j > n + 1)
  BY <1>1
<1> QED
  BY <1>1, <1>2, <1>3 DEF Sanctioned

(***************************************************************************)
(* The heart of the argument: a write keeps the history invariant if it    *)
(* enters development only with an approval standing, by giving one, or by *)
(* force.                                                                  *)
(***************************************************************************)
Earned(to, f) ==
  f = TRUE \/ to \notin Development \/ Sanctioned \/ Granted(to)

LEMMA WriteKeepsHistInv ==
  ASSUME NEW to \in Status, NEW f \in BOOLEAN, Write(to, f), HistInv, Earned(to, f)
  PROVE  HistInv'
<1> DEFINE n == Len(history)
<1>1. /\ status' = to /\ history' \in Seq(Edges)
      /\ Len(history') = n + 1 /\ n \in Nat
      /\ DOMAIN history' = 1 .. n + 1 /\ DOMAIN history = 1 .. n
      /\ \A i \in DOMAIN history : history'[i] = history[i]
      /\ history'[n + 1] = [from |-> status, to |-> to, forced |-> f]
      /\ Last' = [from |-> status, to |-> to, forced |-> f]
  BY WriteAppends DEF HistInv
<1>2. HistoryChain'
  <2>1. history' # <<>>
    BY <1>1
  <2>2. Last'.to = status'
    BY <1>1
  <2>3. ASSUME NEW i \in DOMAIN history'
        PROVE  IF i = 1 THEN history'[i].from \in { NoStatus, "DRAFT" }
                        ELSE history'[i].from = history'[i - 1].to
    <3>1. CASE i \in DOMAIN history
      <4>1. i = 1 \/ i - 1 \in DOMAIN history
        BY <1>1, <3>1
      <4> QED
        BY <1>1, <3>1, <4>1 DEF HistInv, HistoryChain
    <3>2. CASE i = n + 1 /\ n = 0
      <4>1. history = <<>>
        BY <3>2 DEF HistInv
      <4> QED
        BY <1>1, <3>2, <4>1 DEF HistInv, HistoryChain
    <3>3. CASE i = n + 1 /\ n # 0
      <4>1. history # <<>> /\ n \in DOMAIN history /\ i - 1 = n /\ i # 1
        BY <1>1, <3>3
      <4> QED
        BY <1>1, <3>3, <4>1 DEF HistInv, HistoryChain, Last
    <3> QED
      BY <1>1, <3>1, <3>2, <3>3
  <2> QED
    BY <2>1, <2>2, <2>3 DEF HistoryChain
<1>3. OpeningFirst'
  BY <1>1, StatusSets DEF HistInv, OpeningFirst
<1>4. ApprovedBeforeWork'
  <2> SUFFICES ASSUME to \in Development PROVE Sanctioned'
    BY <1>1 DEF ApprovedBeforeWork
  <2>1. to \in Status \ {"NEW"}
    BY StatusSets
  <2>2. CASE f = TRUE \/ Granted(to)
    BY <2>2, SanctionGiven
  <2>3. CASE Sanctioned
    BY <2>1, <2>3, SanctionKept
  <2>4. f = TRUE \/ Granted(to) \/ Sanctioned
    BY DEF Earned
  <2> QED
    BY <2>2, <2>3, <2>4
<1>5. StoppedWorkApproved'
  <2> SUFFICES ASSUME to \in Held, status \in Development PROVE Sanctioned'
    BY <1>1 DEF StoppedWorkApproved
  <2> QED
    BY SanctionKept, StatusSets DEF HistInv, ApprovedBeforeWork
<1> QED
  BY <1>1, <1>2, <1>3, <1>4, <1>5 DEF HistInv

LEMMA WriteKeepsClock ==
  ASSUME NEW to \in Status, NEW f \in BOOLEAN, Write(to, f), ClockInv
  PROVE  ClockInv'
<1>1. /\ status' = to
      /\ started' = StampStarted(started, started, to)
      /\ completed' = StampCompleted(completed, completed, to)
  BY DEF Write
<1>2. started \in Nat /\ started <= 1 /\ completed \in BOOLEAN
  BY DEF ClockInv, ClockMatchesStatus
<1>3. /\ started' \in Nat /\ started' <= 1
      /\ to = "IN_PROGRESS" => started' = 1
  BY <1>1, <1>2 DEF StampStarted
<1>4. completed' \in BOOLEAN /\ (completed' <=> to \in Done)
  BY <1>1, <1>2 DEF StampCompleted
<1> QED
  BY <1>1, <1>3, <1>4 DEF ClockInv, ClockMatchesStatus

-----------------------------------------------------------------------------
LEMMA Initially == Init => Inv
<1> SUFFICES ASSUME Init PROVE Inv
  OBVIOUS
<1>1. BoardTypeOK /\ LeadOnRoster
  BY BoardInitially DEF Init, BoardInv
<1>2. /\ status = "DRAFT" /\ status \in Status
      /\ history = <<>> \/ history = <<OpeningRow>>
  BY DEF Init, Status
<1>3. OpeningRow \in Edges
  BY DEF OpeningRow, Edges, Status
<1>4. history \in Seq(Edges)
  <2>1. <<>> \in Seq(Edges) /\ <<OpeningRow>> \in Seq(Edges)
    BY <1>3
  <2> QED
    BY <1>2, <2>1
<1>5. TypeOK
  BY <1>1, <1>2, <1>4 DEF Init, TypeOK
<1>6. HistInv
  <2>1. "DRAFT" \notin Development \cup Held
    BY StatusSets
  <2>2. CASE history = <<>>
    BY <1>2, <1>4, <2>1, <2>2
    DEF HistInv, HistoryChain, OpeningFirst, ApprovedBeforeWork, StoppedWorkApproved
  <2>3. CASE history = <<OpeningRow>>
    <3>1. /\ DOMAIN history = {1} /\ history[1] = OpeningRow /\ Len(history) = 1
          /\ history # <<>>
      BY <2>3
    <3> QED
      BY <1>2, <1>4, <2>1, <3>1
      DEF HistInv, HistoryChain, OpeningFirst, ApprovedBeforeWork, StoppedWorkApproved,
          Last, OpeningRow
  <2> QED
    BY <1>2, <2>2, <2>3
<1>7. ClockInv
  <2>1. started \in Nat /\ started <= 1
    BY DEF Init
  <2>2. completed \in BOOLEAN /\ (completed <=> status \in Done)
    BY DEF Init, Done
  <2> QED
    BY <1>2, <2>1, <2>2 DEF ClockInv, ClockMatchesStatus
<1> QED
  BY <1>1, <1>5, <1>6, <1>7 DEF Inv

(***************************************************************************)
(* A handler that writes the status, with the roster in order after it.    *)
(***************************************************************************)
LEMMA WriteKeepsInv ==
  ASSUME Inv, NEW to \in Status, NEW f \in BOOLEAN, Write(to, f), Earned(to, f),
         BoardTypeOK', LeadOnRoster',
         reason' \in BOOLEAN, deadline' \in BOOLEAN, unmet' \in BOOLEAN
  PROVE  Inv'
<1>1. HistInv'
  BY WriteKeepsHistInv DEF Inv
<1>2. ClockInv'
  BY WriteKeepsClock DEF Inv
<1>3. TypeOK'
  BY <1>1, <1>2 DEF TypeOK, HistInv, ClockInv
<1> QED
  BY <1>1, <1>2, <1>3 DEF Inv

LEMMA ChangeKeepsInv ==
  ASSUME Inv, NEW to \in Status, ChangeStatus(to), Earned(to, FALSE)
  PROVE  Inv'
<1>1. Write(to, FALSE) /\ UNCHANGED <<reason, planVars, boardVars>>
  BY DEF ChangeStatus
<1>2. /\ BoardTypeOK' /\ LeadOnRoster'
      /\ reason' \in BOOLEAN /\ deadline' \in BOOLEAN /\ unmet' \in BOOLEAN
  BY <1>1 DEF Inv, TypeOK, BoardTypeOK, LeadOnRoster, boardVars, planVars
<1> QED
  BY <1>1, <1>2, WriteKeepsInv

\* A step that leaves the ticket row and its history alone.
LEMMA RowKept ==
  ASSUME Inv, UNCHANGED rowVars, BoardTypeOK', LeadOnRoster',
         deadline' \in BOOLEAN, unmet' \in BOOLEAN
  PROVE  Inv'
<1>1. HistInv' /\ ClockInv'
  BY DEF Inv, rowVars, HistInv, ClockInv, HistoryChain, OpeningFirst, ClockMatchesStatus,
         ApprovedBeforeWork, StoppedWorkApproved, Sanctioned, Last
<1>2. TypeOK'
  BY DEF Inv, TypeOK, rowVars
<1> QED
  BY <1>1, <1>2 DEF Inv

LEMMA BoardUntouched ==
  ASSUME Inv, UNCHANGED boardVars
  PROVE  BoardTypeOK' /\ LeadOnRoster'
BY DEF Inv, TypeOK, BoardTypeOK, LeadOnRoster, boardVars

(***************************************************************************)
(* What Inv says of the statuses a handler's guard admits.                 *)
(***************************************************************************)
LEMMA WorkIsSanctioned ==
  ASSUME Inv, status \in Development
  PROVE  Sanctioned
BY DEF Inv, HistInv, ApprovedBeforeWork

LEMMA TransitionKeepsInv ==
  ASSUME Inv, NEW u \in User
  PROVE  Transition(u) => Inv'
<1>1. ASSUME Submit(u) PROVE Inv'
  <2>1. "NEW" \in Status /\ Earned("NEW", FALSE) /\ ChangeStatus("NEW")
    BY <1>1, StatusSets DEF Submit, Earned, Status
  <2> QED
    BY <2>1, ChangeKeepsInv
<1>2. ASSUME Approve(u) PROVE Inv'
  <2>1. PICK to \in DecisionStatus : ChangeStatus(to)
    BY <1>2 DEF Approve
  <2>2. to \in Status /\ Earned(to, FALSE)
    BY <1>2 DEF Approve, TakesApprove, DecisionStatus, Earned, Granted, Development, Status
  <2> QED
    BY <2>1, <2>2, ChangeKeepsInv
<1>3. ASSUME Assign(u) PROVE Inv'
  <2>1. /\ Write("SCHEDULED", FALSE)
        /\ UNCHANGED <<reason, planVars, holders, open>>
        /\ status = "APPROVED"
    BY <1>3 DEF Assign, TakesAssign
  <2>2. "SCHEDULED" \in Status /\ Earned("SCHEDULED", FALSE)
    BY <2>1, WorkIsSanctioned DEF Earned, Development, Status
  <2>3. roster \in Rosters /\ WellLed(roster)
    BY DEF Inv, TypeOK, BoardTypeOK, LeadOnRoster, WellLed
  <2>4. roster' \in Rosters /\ WellLed(roster')
    <3>1. Assignable \subseteq User /\ roster.active \subseteq User
      BY <2>3, EligibleAssumption
      DEF Assignable, Reachable, Rosters, Inv, TypeOK, BoardTypeOK
    <3>2. CASE \E team \in SUBSET Assignable : \E l \in team :
                  roster' = AssignTeam(roster, team, l)
      BY <2>3, <3>1, <3>2, AssignTeamWellLed
    <3>3. CASE \E l \in roster.active : roster' = SetLead(roster, l)
      BY <2>3, <3>1, <3>3, SetLeadWellLed
    <3> QED
      BY <1>3, <3>2, <3>3 DEF Assign
  <2>5. /\ BoardTypeOK' /\ LeadOnRoster'
        /\ reason' \in BOOLEAN /\ deadline' \in BOOLEAN /\ unmet' \in BOOLEAN
    BY <2>1, <2>4 DEF Inv, TypeOK, BoardTypeOK, LeadOnRoster, WellLed, planVars
  <2> QED
    BY <2>1, <2>2, <2>5, WriteKeepsInv
<1>4. ASSUME StartWork(u) PROVE Inv'
  <2>1. "IN_PROGRESS" \in Status /\ Earned("IN_PROGRESS", FALSE) /\ ChangeStatus("IN_PROGRESS")
    BY <1>4, WorkIsSanctioned DEF StartWork, TakesStart, Earned, Development, Status
  <2> QED
    BY <2>1, ChangeKeepsInv
<1>5. ASSUME SubmitForTesting(u) PROVE Inv'
  <2>1. /\ "AWAITING_TESTING" \in Status /\ Earned("AWAITING_TESTING", FALSE)
        /\ ChangeStatus("AWAITING_TESTING")
    BY <1>5, WorkIsSanctioned
      DEF SubmitForTesting, TakesSubmitForTesting, Earned, Development, Status
  <2> QED
    BY <2>1, ChangeKeepsInv
<1>6. ASSUME RequestChanges(u) PROVE Inv'
  <2>1. "IN_PROGRESS" \in Status /\ Earned("IN_PROGRESS", FALSE) /\ ChangeStatus("IN_PROGRESS")
    BY <1>6, WorkIsSanctioned DEF RequestChanges, TakesTesting, Earned, Development, Status
  <2> QED
    BY <2>1, ChangeKeepsInv
<1>7. ASSUME VerifyTesting(u) PROVE Inv'
  <2>1. /\ "AWAITING_OWNER_APPROVAL" \in Status /\ Earned("AWAITING_OWNER_APPROVAL", FALSE)
        /\ ChangeStatus("AWAITING_OWNER_APPROVAL")
    BY <1>7, WorkIsSanctioned DEF VerifyTesting, TakesTesting, Earned, Development, Status
  <2> QED
    BY <2>1, ChangeKeepsInv
<1>8. ASSUME AcceptDelivery(u) PROVE Inv'
  <2>1. "COMPLETED" \in Status /\ Earned("COMPLETED", FALSE) /\ ChangeStatus("COMPLETED")
    BY <1>8, WorkIsSanctioned DEF AcceptDelivery, TakesDelivery, Earned, Development, Status
  <2> QED
    BY <2>1, ChangeKeepsInv
<1>9. ASSUME NEW to \in Held, Stop(to) PROVE Inv'
  <2>1. /\ Write(to, FALSE) /\ reason' = TRUE /\ UNCHANGED <<planVars, boardVars>>
    BY <1>9 DEF Stop
  <2>2. to \in Status /\ Earned(to, FALSE)
    BY StatusSets DEF Earned
  <2>3. deadline' \in BOOLEAN /\ unmet' \in BOOLEAN
    BY <2>1 DEF Inv, TypeOK, planVars
  <2> QED
    BY <2>1, <2>2, <2>3, BoardUntouched, WriteKeepsInv
<1>10. ASSUME Block(u) \/ Hold(u) PROVE Inv'
  <2>1. "BLOCKED" \in Held /\ "ON_HOLD" \in Held
    BY DEF Held
  <2> QED
    BY <1>9, <1>10, <2>1 DEF Block, Hold
<1>11. ASSUME Resume(u) PROVE Inv'
  <2> DEFINE to == ResumeTarget(history, roster.active # {})
  <2>1. /\ Write(to, FALSE) /\ reason' = FALSE /\ UNCHANGED <<planVars, boardVars>>
        /\ status \in Held
    BY <1>11 DEF Resume, TakesResume
  <2>2. to = Last.from /\ to \in Status
    BY <2>1, ResumeReadsLast DEF Inv
  <2>3. Earned(to, FALSE)
    BY <2>1, <2>2 DEF Inv, HistInv, StoppedWorkApproved, Earned
  <2>4. deadline' \in BOOLEAN /\ unmet' \in BOOLEAN /\ reason' \in BOOLEAN
    BY <2>1 DEF Inv, TypeOK, planVars
  <2> HIDE DEF to
  <2> QED
    BY <2>1, <2>2, <2>3, <2>4, BoardUntouched, WriteKeepsInv
<1>12. ASSUME Close(u) PROVE Inv'
  <2>1. "CLOSED" \in Status /\ Earned("CLOSED", FALSE) /\ ChangeStatus("CLOSED")
    BY <1>12, WorkIsSanctioned DEF Close, TakesClose, Earned, Development, Status
  <2> QED
    BY <2>1, ChangeKeepsInv
<1>13. ASSUME Reopen(u) PROVE Inv'
  <2>1. "NEW" \in Status /\ Earned("NEW", FALSE) /\ ChangeStatus("NEW")
    BY <1>13, StatusSets DEF Reopen, Earned, Status
  <2> QED
    BY <2>1, ChangeKeepsInv
<1>14. ASSUME NEW to \in Status, ForceStatus(u, to) PROVE Inv'
  <2>1. Write(to, TRUE) /\ UNCHANGED <<reason, planVars, boardVars>>
    BY <1>14 DEF ForceStatus
  <2>2. deadline' \in BOOLEAN /\ unmet' \in BOOLEAN /\ reason' \in BOOLEAN
    BY <2>1 DEF Inv, TypeOK, planVars
  <2>3. Earned(to, TRUE)
    BY DEF Earned
  <2> QED
    BY <2>1, <2>2, <2>3, BoardUntouched, WriteKeepsInv
<1> QED
  BY <1>1, <1>2, <1>3, <1>4, <1>5, <1>6, <1>7, <1>8, <1>10, <1>11, <1>12, <1>13, <1>14
  DEF Transition

LEMMA NextKeepsInv == Inv /\ [Next]_vars => Inv'
<1> SUFFICES ASSUME Inv, [Next]_vars PROVE Inv'
  OBVIOUS
<1>1. CASE \E u \in User : Transition(u)
  BY <1>1, TransitionKeepsInv
<1>2. CASE \E u \in User : UpdatePlan(u)
  <2>1. UNCHANGED <<rowVars, boardVars, unmet>> /\ deadline' \in BOOLEAN
    BY <1>2 DEF UpdatePlan
  <2>2. unmet' \in BOOLEAN
    BY <2>1 DEF Inv, TypeOK
  <2> QED
    BY <2>1, <2>2, BoardUntouched, RowKept
<1>3. CASE PrerequisitesMove
  <2>1. UNCHANGED <<rowVars, boardVars, deadline>> /\ unmet' = ~unmet
    BY <1>3 DEF PrerequisitesMove
  <2>2. unmet' \in BOOLEAN /\ deadline' \in BOOLEAN
    BY <2>1 DEF Inv, TypeOK
  <2> QED
    BY <2>1, <2>2, BoardUntouched, RowKept
<1>4. CASE BoardStep
  <2>1. BoardNext /\ UNCHANGED <<rowVars, planVars>>
    BY <1>4 DEF BoardStep
  <2>2. BoardInv
    BY DEF Inv, TypeOK, BoardInv
  <2>3. BoardTypeOK' /\ LeadOnRoster'
    BY <2>1, <2>2, BoardStepKeeps DEF BoardInv
  <2>4. deadline' \in BOOLEAN /\ unmet' \in BOOLEAN
    BY <2>1 DEF Inv, TypeOK, planVars
  <2> QED
    BY <2>1, <2>3, <2>4, RowKept
<1>5. CASE UNCHANGED vars
  <2>1. /\ UNCHANGED rowVars /\ UNCHANGED boardVars
        /\ deadline' = deadline /\ unmet' = unmet
    BY <1>5 DEF vars, planVars
  <2>2. deadline' \in BOOLEAN /\ unmet' \in BOOLEAN
    BY <2>1 DEF Inv, TypeOK
  <2> QED
    BY <2>1, <2>2, BoardUntouched, RowKept
<1> QED
  BY <1>1, <1>2, <1>3, <1>4, <1>5 DEF Next

LEMMA AlwaysInv == Spec => []Inv
BY Initially, NextKeepsInv, PTL DEF Spec

(***************************************************************************)
(* Every variable of the workflow keeps its type.                          *)
(***************************************************************************)
THEOREM TypeCorrect == Spec => []TypeOK
<1>1. Inv => TypeOK
  BY DEF Inv
<1> QED
  BY <1>1, AlwaysInv, PTL

(***************************************************************************)
(* The history of a ticket is unbroken and ends at its status, whatever    *)
(* handlers ran and whoever forced it, as long as they ran one at a time.  *)
(***************************************************************************)
THEOREM HistoryUnbroken == Spec => []HistoryChain
<1>1. Inv => HistoryChain
  BY DEF Inv, HistInv
<1> QED
  BY <1>1, AlwaysInv, PTL

(***************************************************************************)
(* No ticket is in development without an approval, or a force the audit   *)
(* names, in its current round.                                            *)
(***************************************************************************)
THEOREM NoWorkWithoutApproval == Spec => []ApprovedBeforeWork
<1>1. Inv => ApprovedBeforeWork
  BY DEF Inv, HistInv
<1> QED
  BY <1>1, AlwaysInv, PTL

(***************************************************************************)
(* The clock columns agree with the status, and work is stamped once.      *)
(***************************************************************************)
THEOREM ClockAgrees == Spec => []ClockMatchesStatus
<1>1. Inv => ClockMatchesStatus
  BY DEF Inv, ClockInv
<1> QED
  BY <1>1, AlwaysInv, PTL

(***************************************************************************)
(* With /assign rewriting the roster as well, the lead stays unique and on *)
(* the active roster.                                                      *)
(***************************************************************************)
THEOREM WorkflowLeadOnRoster == Spec => []LeadOnRoster
<1>1. Inv => LeadOnRoster
  BY DEF Inv
<1> QED
  BY <1>1, AlwaysInv, PTL

-----------------------------------------------------------------------------
(***************************************************************************)
(* Stages and resumes.  What a stopped ticket goes back to is read in the  *)
(* newest row that stopped it while it ran; there is such a row as long as *)
(* the ticket is stopped (StopInv), and the rows of the stop do not change *)
(* what it says (StandingAfter).                                           *)
(***************************************************************************)
Stops(e) == e.to \in Held /\ e.from \notin Held

NewestStop(n) ==
  /\ n \in DOMAIN history /\ Stops(history[n])
  /\ \A j \in DOMAIN history : Stops(history[j]) => j <= n

StopInv == status \in Held => \E n \in DOMAIN history : NewestStop(n)

LEMMA NewestIs ==
  ASSUME NEW h \in Seq(Edges), NEW n \in DOMAIN h, Stops(h[n]),
         \A j \in DOMAIN h : Stops(h[j]) => j <= n
  PROVE  LET stops == { i \in DOMAIN h : h[i].to \in Held /\ h[i].from \notin Held }
         IN  (CHOOSE i \in stops : \A j \in stops : j <= i) = n
<1> DEFINE stops == { i \in DOMAIN h : h[i].to \in Held /\ h[i].from \notin Held }
           newest == CHOOSE i \in stops : \A j \in stops : j <= i
<1>1. DOMAIN h = 1 .. Len(h) /\ Len(h) \in Nat
  OBVIOUS
<1>2. n \in stops /\ \A j \in stops : j <= n
  BY DEF Stops
<1>3. newest \in stops /\ \A j \in stops : j <= newest
  BY <1>2
<1>4. newest = n
  BY <1>1, <1>2, <1>3
<1> QED
  BY <1>4

LEMMA StandingIs ==
  ASSUME HistInv, status \in Held, NEW n \in DOMAIN history, NewestStop(n)
  PROVE  Standing = history[n].from
BY NewestIs DEF Standing, HistInv, NewestStop

LEMMA StandingAfter ==
  ASSUME HistInv, HistInv', StopInv, NEW to \in Status, NEW f \in BOOLEAN, Write(to, f)
  PROVE  /\ StopInv'
         /\ Standing' = IF to \in Held THEN Standing ELSE to
<1> DEFINE n == Len(history)
<1>1. /\ status' = to
      /\ DOMAIN history' = 1 .. n + 1 /\ DOMAIN history = 1 .. n /\ n \in Nat
      /\ \A i \in DOMAIN history : history'[i] = history[i]
      /\ history'[n + 1] = [from |-> status, to |-> to, forced |-> f]
  BY WriteAppends DEF HistInv
<1>2. CASE to \notin Held
  BY <1>1, <1>2 DEF StopInv, Standing
<1>3. CASE to \in Held /\ status \notin Held
  <2>1. PICK m \in Nat : m = n + 1
    BY <1>1
  <2>2. NewestStop(m)' /\ m \in DOMAIN history'
    BY <1>1, <1>3, <2>1 DEF NewestStop, Stops
  <2>3. status' \in Held /\ history' \in Seq(Edges)
    BY <1>1, <1>3 DEF HistInv
  <2>4. Standing' = history'[m].from
    BY <2>2, <2>3, NewestIs DEF Standing, NewestStop
  <2>5. Standing = status
    BY <1>3 DEF Standing
  <2> QED
    BY <1>1, <1>3, <2>1, <2>2, <2>4, <2>5 DEF StopInv
<1>4. CASE to \in Held /\ status \in Held
  <2>1. PICK m \in DOMAIN history : NewestStop(m)
    BY <1>4 DEF StopInv
  <2>2. NewestStop(m)' /\ m \in DOMAIN history'
    BY <1>1, <1>4, <2>1 DEF NewestStop, Stops
  <2>3. Standing = history[m].from
    BY <1>4, <2>1, StandingIs
  <2>4. Standing' = history'[m].from
    <3>1. status' \in Held /\ history' \in Seq(Edges)
      BY <1>1, <1>4 DEF HistInv
    <3> QED
      BY <2>2, <3>1, NewestIs DEF Standing, NewestStop
  <2> QED
    BY <1>1, <1>4, <2>1, <2>2, <2>3, <2>4 DEF StopInv
<1> QED
  BY <1>2, <1>3, <1>4

\* A ticket stopped by its newest row stands where that row came from.
LEMMA StandingIsLast ==
  ASSUME HistInv, status \in Held, Last.from \notin Held
  PROVE  Standing = Last.from
<1>1. /\ history \in Seq(Edges) /\ history # <<>> /\ Last.to = status
      /\ Len(history) \in DOMAIN history /\ DOMAIN history = 1 .. Len(history)
      /\ Len(history) \in Nat
  BY StatusSets DEF HistInv, HistoryChain
<1>2. NewestStop(Len(history))
  BY <1>1 DEF NewestStop, Stops, Last
<1> QED
  BY <1>1, <1>2, StandingIs DEF Last

\* A row that does not open a round leaves what the round has visited.
LEMMA VisitedGrows ==
  ASSUME HistInv, NEW to \in Status, NEW f \in BOOLEAN, Write(to, f),
         to # "NEW" \/ status \in Held \/ f
  PROVE  Visited \subseteq Visited'
<1> DEFINE n == Len(history)
<1>1. /\ DOMAIN history' = 1 .. n + 1 /\ DOMAIN history = 1 .. n /\ n \in Nat
      /\ \A i \in DOMAIN history : history'[i] = history[i]
      /\ history'[n + 1] = [from |-> status, to |-> to, forced |-> f]
  BY WriteAppends DEF HistInv
<1>2. ~Restarts(history'[n + 1])
  BY <1>1 DEF Restarts
<1>3. ASSUME NEW k \in DOMAIN history, \A j \in DOMAIN history : j > k => ~Restarts(history[j])
      PROVE  history[k].to \in Visited'
  <2>1. k \in DOMAIN history' /\ history'[k] = history[k]
    BY <1>1
  <2>2. \A j \in DOMAIN history' : j > k => ~Restarts(history'[j])
    BY <1>1, <1>2, <1>3 DEF Restarts
  <2> QED
    BY <2>1, <2>2 DEF Visited
<1> QED
  BY <1>3 DEF Visited

LEMMA HereIsVisited ==
  ASSUME HistInv, status # "DRAFT"
  PROVE  status \in Visited
<1>1. /\ history # <<>> /\ Last.to = status /\ history \in Seq(Edges)
      /\ Len(history) \in DOMAIN history /\ DOMAIN history = 1 .. Len(history)
      /\ Len(history) \in Nat
  BY DEF HistInv, HistoryChain
<1>2. \A j \in DOMAIN history : ~(j > Len(history))
  BY <1>1
<1> QED
  BY <1>1, <1>2 DEF Visited, Last

(***************************************************************************)
(* All stages before s are in V.                                           *)
(***************************************************************************)
Climbed(s, V) ==
  \A k \in DOMAIN Stages : s = Stages[k] => \A j \in 1 .. k - 1 : Stages[j] \in V

LEMMA ClimbKept ==
  ASSUME NEW s, NEW V, NEW W, Climbed(s, V), V \subseteq W
  PROVE  Climbed(s, W)
BY DEF Climbed

LEMMA ClimbUp ==
  ASSUME NEW k \in 2 .. 8, NEW V, Climbed(Stages[k - 1], V), Stages[k - 1] \in V
  PROVE  Climbed(Stages[k], V)
<1>1. DOMAIN Stages = 1 .. 8 /\ k - 1 \in DOMAIN Stages
  BY DEF Stages
<1>2. \A m \in DOMAIN Stages : Stages[m] = Stages[k] => m = k
  BY DEF Stages
<1>3. \A j \in 1 .. k - 2 : Stages[j] \in V
  BY <1>1 DEF Climbed
<1>4. \A j \in 1 .. k - 1 : Stages[j] \in V
  BY <1>3
<1> QED
  BY <1>2, <1>4 DEF Climbed

LEMMA ClimbDown ==
  ASSUME NEW V, Climbed("AWAITING_TESTING", V)
  PROVE  Climbed("IN_PROGRESS", V)
<1>1. DOMAIN Stages = 1 .. 8 /\ Stages[5] = "AWAITING_TESTING" /\ Stages[4] = "IN_PROGRESS"
  BY DEF Stages
<1>2. \A m \in DOMAIN Stages : Stages[m] = "IN_PROGRESS" => m = 4
  BY DEF Stages
<1>3. \A j \in 1 .. 4 : Stages[j] \in V
  BY <1>1 DEF Climbed
<1> QED
  BY <1>2, <1>3 DEF Climbed

LEMMA NotAStage ==
  ASSUME NEW s, NEW V,
         s \in { "DRAFT", "NEW", "REJECTED", "AWAITING_INFO" }
  PROVE  Climbed(s, V)
BY DEF Climbed, Stages

StageInv == Unforced => Climbed(Standing, Visited) /\ Standing # "AWAITING_APPROVAL"

RoundInv == Inv /\ StopInv /\ StageInv

(***************************************************************************)
(* The moves that skip nothing: to a stop, out of the stages, back to      *)
(* where a stopped ticket stands, one stage up, or from testing to work.   *)
(***************************************************************************)
SkipsNothing(to) ==
  \/ to \in Held \cup { "DRAFT", "NEW", "REJECTED", "AWAITING_INFO" }
  \/ status \in Held /\ to = Standing
  \/ Granted(to)
  \/ \E k \in 3 .. 8 : status = Stages[k - 1] /\ to = Stages[k]
  \/ status = "AWAITING_TESTING" /\ to = "IN_PROGRESS"

LEMMA UnforcedBefore ==
  ASSUME HistInv, NEW to \in Status, NEW f \in BOOLEAN, Write(to, f), Unforced'
  PROVE  Unforced /\ f = FALSE
<1> DEFINE n == Len(history)
<1>1. /\ DOMAIN history' = 1 .. n + 1 /\ DOMAIN history = 1 .. n /\ n \in Nat
      /\ \A i \in DOMAIN history : history'[i] = history[i]
      /\ history'[n + 1] = [from |-> status, to |-> to, forced |-> f]
  BY WriteAppends DEF HistInv
<1>2. \A i \in DOMAIN history' : ~history'[i].forced
  BY DEF Unforced, Forced
<1> QED
  BY <1>1, <1>2 DEF Unforced, Forced

LEMMA WriteKeepsRound ==
  ASSUME RoundInv, Inv', NEW to \in Status, NEW f \in BOOLEAN, Write(to, f),
         f = TRUE \/ SkipsNothing(to)
  PROVE  RoundInv'
<1>1. HistInv /\ HistInv' /\ StopInv
  BY DEF RoundInv, Inv
<1>2. StopInv' /\ Standing' = IF to \in Held THEN Standing ELSE to
  BY <1>1, StandingAfter
<1>3. ASSUME Unforced'
      PROVE  Climbed(Standing', Visited') /\ Standing' # "AWAITING_APPROVAL"
  <2>1. Unforced /\ f = FALSE /\ SkipsNothing(to)
    BY <1>1, <1>3, UnforcedBefore
  <2>2. Climbed(Standing, Visited) /\ Standing # "AWAITING_APPROVAL"
    BY <2>1 DEF RoundInv, StageInv
  <2>3. to # "NEW" \/ status \in Held => Visited \subseteq Visited'
    BY <1>1, VisitedGrows
  <2>4. status \notin Held => status = Standing
    BY DEF Standing
  <2>5. CASE to \in Held
    BY <1>2, <2>2, <2>3, <2>5, ClimbKept, StatusSets DEF Development
  <2>6. CASE to \in { "DRAFT", "NEW", "REJECTED", "AWAITING_INFO" }
    <3>1. to \notin Held
      BY <2>6 DEF Held
    <3> QED
      BY <1>2, <2>6, <3>1, NotAStage
  <2>7. CASE status \in Held /\ to = Standing /\ to \notin Held
    BY <1>2, <2>2, <2>3, <2>7, ClimbKept
  <2>8. CASE Granted(to)
    <3>1. status = "NEW" /\ to = "APPROVED" /\ status \notin Held /\ to \notin Held
      BY <2>2, <2>4, <2>8 DEF Granted, Held
    <3>2. Climbed("NEW", Visited) /\ "NEW" \in Visited
      BY <1>1, <3>1, HereIsVisited, NotAStage
    <3>3. Stages[2 - 1] = "NEW" /\ Stages[2] = "APPROVED"
      BY DEF Stages
    <3>4. Climbed("APPROVED", Visited)
      BY <3>2, <3>3, ClimbUp
    <3> QED
      BY <1>2, <2>3, <3>1, <3>4, ClimbKept
  <2>9. ASSUME NEW k \in 3 .. 8, status = Stages[k - 1], to = Stages[k]
        PROVE  Climbed(Standing', Visited') /\ Standing' # "AWAITING_APPROVAL"
    <3>1. /\ status \notin Held /\ to \notin Held /\ to # "NEW" /\ status # "DRAFT"
          /\ to # "AWAITING_APPROVAL"
      BY <2>9 DEF Held, Stages
    <3>2. Climbed(Stages[k - 1], Visited) /\ Stages[k - 1] \in Visited
      BY <1>1, <2>2, <2>4, <2>9, <3>1, HereIsVisited
    <3>3. Climbed(to, Visited)
      BY <2>9, <3>2, ClimbUp
    <3> QED
      BY <1>2, <2>3, <3>1, <3>3, ClimbKept
  <2>10. CASE status = "AWAITING_TESTING" /\ to = "IN_PROGRESS"
    <3>1. status \notin Held /\ to \notin Held
      BY <2>10 DEF Held
    <3>2. Climbed("IN_PROGRESS", Visited)
      BY <2>2, <2>4, <2>10, <3>1, ClimbDown
    <3> QED
      BY <1>2, <2>3, <2>10, <3>1, <3>2, ClimbKept
  <2> QED
    BY <2>1, <2>5, <2>6, <2>7, <2>8, <2>9, <2>10 DEF SkipsNothing
<1> QED
  BY <1>2, <1>3 DEF RoundInv, StageInv

LEMMA TransitionKeepsRound ==
  ASSUME RoundInv, NEW u \in User, Transition(u)
  PROVE  RoundInv'
<1>1. Inv /\ Inv'
  BY TransitionKeepsInv DEF RoundInv
<1>2. ASSUME NEW to \in Status, Write(to, FALSE), SkipsNothing(to) PROVE RoundInv'
  BY <1>1, <1>2, WriteKeepsRound
<1>3. CASE Submit(u) \/ Reopen(u)
  BY <1>2, <1>3 DEF Submit, Reopen, ChangeStatus, SkipsNothing, Status
<1>4. CASE Approve(u)
  <2>1. PICK to \in DecisionStatus : ChangeStatus(to)
    BY <1>4 DEF Approve
  <2> QED
    BY <1>2, <1>4, <2>1
    DEF Approve, TakesApprove, DecisionStatus, ChangeStatus, SkipsNothing, Granted, Status, Held
<1>5. ASSUME NEW k \in 3 .. 8, status = Stages[k - 1], Write(Stages[k], FALSE)
      PROVE  RoundInv'
  <2>1. Stages[k] \in Status
    BY DEF Stages, Status
  <2> QED
    BY <1>2, <1>5, <2>1 DEF SkipsNothing
<1>6. CASE Assign(u)
  BY <1>5, <1>6 DEF Assign, TakesAssign, Stages
<1>7. CASE StartWork(u)
  BY <1>5, <1>7 DEF StartWork, TakesStart, ChangeStatus, Stages
<1>8. CASE SubmitForTesting(u)
  BY <1>5, <1>8 DEF SubmitForTesting, TakesSubmitForTesting, ChangeStatus, Stages
<1>9. CASE RequestChanges(u)
  BY <1>2, <1>9 DEF RequestChanges, TakesTesting, ChangeStatus, SkipsNothing, Status
<1>10. CASE VerifyTesting(u)
  BY <1>5, <1>10 DEF VerifyTesting, TakesTesting, ChangeStatus, Stages
<1>11. CASE AcceptDelivery(u)
  BY <1>5, <1>11 DEF AcceptDelivery, TakesDelivery, ChangeStatus, Stages
<1>12. CASE Close(u)
  BY <1>5, <1>12 DEF Close, TakesClose, ChangeStatus, Stages
<1>13. CASE Block(u) \/ Hold(u)
  BY <1>2, <1>13 DEF Block, Hold, Stop, SkipsNothing, Held, Status
<1>14. CASE Resume(u)
  <2>1. status \in Held /\ HistInv
    BY <1>1, <1>14 DEF Resume, TakesResume, Inv
  <2>2. Last.from \in Status /\ ResumeTarget(history, roster.active # {}) = Last.from
    BY <2>1, ResumeReadsLast
  <2>3. Write(Last.from, FALSE)
    BY <1>14, <2>2 DEF Resume
  <2>4. Last.from \notin Held => Last.from = Standing
    BY <2>1, StandingIsLast
  <2> QED
    BY <1>2, <2>1, <2>2, <2>3, <2>4 DEF SkipsNothing
<1>15. ASSUME NEW to \in Status, ForceStatus(u, to) PROVE RoundInv'
  BY <1>1, <1>15, WriteKeepsRound DEF ForceStatus
<1> QED
  BY <1>3, <1>4, <1>6, <1>7, <1>8, <1>9, <1>10, <1>11, <1>12, <1>13, <1>14, <1>15
  DEF Transition

LEMMA OthersKeepHistory ==
  ASSUME NEW u \in User, UpdatePlan(u) \/ PrerequisitesMove \/ BoardStep \/ UNCHANGED vars
  PROVE  UNCHANGED <<status, history>>
BY DEF UpdatePlan, PrerequisitesMove, BoardStep, vars, rowVars

LEMMA RoundInitially == Init => RoundInv
<1> SUFFICES ASSUME Init PROVE StopInv /\ StageInv
  BY Initially DEF RoundInv
<1>1. status = "DRAFT" /\ status \notin Held
  BY DEF Init, Held
<1> QED
  BY <1>1, NotAStage DEF StopInv, StageInv, Standing

LEMMA NextKeepsRound == RoundInv /\ [Next]_vars => RoundInv'
<1> SUFFICES ASSUME RoundInv, [Next]_vars PROVE RoundInv'
  OBVIOUS
<1>1. Inv'
  BY NextKeepsInv DEF RoundInv
<1>2. CASE \E u \in User : Transition(u)
  BY <1>2, TransitionKeepsRound
<1>3. CASE UNCHANGED <<status, history>>
  BY <1>1, <1>3
  DEF RoundInv, StopInv, NewestStop, StageInv, Unforced, Forced, Standing, Visited
<1> QED
  BY <1>2, <1>3, OthersKeepHistory, CreatorAssumption DEF Next

LEMMA AlwaysRound == Spec => []RoundInv
BY RoundInitially, NextKeepsRound, PTL DEF Spec

(***************************************************************************)
(* Without a force no stage of a round is skipped, whatever the bounds.    *)
(***************************************************************************)
THEOREM StagesInOrder == Spec => []NoStageSkipped
<1>1. RoundInv => NoStageSkipped
  BY DEF RoundInv, StageInv, Climbed, NoStageSkipped
<1> QED
  BY <1>1, AlwaysRound, PTL

(***************************************************************************)
(* A resume gives back the status the ticket was first stopped in, or      *)
(* leaves it stopped.                                                      *)
(***************************************************************************)
THEOREM ResumesHome == Spec => ResumeNeverStrays
<1>1. ASSUME Inv, Next, Unforced', status \in Held, status' # status
      PROVE  status' \in Held \cup {Standing}
  <2>1. HistInv
    BY <1>1 DEF Inv
  <2>2. PICK u \in User : Transition(u)
    BY <1>1, OthersKeepHistory, CreatorAssumption DEF Next
  <2>3. CASE Resume(u)
    <3>1. status' = Last.from
      BY <1>1, <2>1, <2>3, ResumeReadsLast DEF Resume, Write
    <3> QED
      BY <1>1, <2>1, <3>1, StandingIsLast
  <2>4. CASE Block(u) \/ Hold(u)
    BY <2>4 DEF Block, Hold, Stop, Write, Held
  <2>5. ASSUME NEW to \in Status, ForceStatus(u, to) PROVE FALSE
    BY <1>1, <2>1, <2>5, UnforcedBefore DEF ForceStatus
  <2>6. status \in { "BLOCKED", "ON_HOLD" }
    BY <1>1 DEF Held
  <2> QED
    BY <2>2, <2>3, <2>4, <2>5, <2>6
    DEF Transition, Submit, TakesSubmit, Approve, TakesApprove, Assign, TakesAssign, StartWork,
        TakesStart, SubmitForTesting, TakesSubmitForTesting, RequestChanges, TakesTesting,
        VerifyTesting, AcceptDelivery, TakesDelivery, Close, TakesClose, Reopen, TakesReopen
<1>2. Inv /\ [Next]_vars
        => [ Unforced' /\ status \in Held /\ status' # status
               => status' \in Held \cup {Standing} ]_vars
  BY <1>1
<1> QED
  BY <1>2, AlwaysInv, PTL DEF Spec, ResumeNeverStrays

-----------------------------------------------------------------------------
(***************************************************************************)
(* The ticket page.  What the rules of the page and those of the handlers  *)
(* come to is the matrix: everybody may submit, only developers start, and *)
(* who may close a ticket is who leads the department.                     *)
(***************************************************************************)
LEMMA MatrixOfWorkflow ==
  ASSUME NEW u \in User
  PROVE  /\ Can(u, "ticket:submit")
         /\ Can(u, "ticket:start") <=> IsDeveloper(u)
         /\ Can(u, "ticket:submit-testing") <=> IsDeveloper(u)
         /\ Can(u, "ticket:close") <=> RoleOf[u] \in Leadership
<1>1. RoleOf[u] \in Role
  BY RoleAssumption
<1>2. /\ "ticket:submit" \in RoleActions[RoleOf[u]]
      /\ "ticket:start" \in RoleActions[RoleOf[u]] <=> RoleOf[u] = "DEVELOPER"
      /\ "ticket:submit-testing" \in RoleActions[RoleOf[u]] <=> RoleOf[u] = "DEVELOPER"
      /\ "ticket:close" \in RoleActions[RoleOf[u]] <=> RoleOf[u] \in Leadership
  BY <1>1 DEF Role, RoleActions, Leadership, Filing, Requester, SystemOwner, Testing,
    Developer, Qa, Oversight, ProjectManager, ProgrammingHead
<1> QED
  BY <1>2 DEF Can, May, IsDeveloper

\* What is shown is taken, up to KnownRefusal, button by button.
LEMMA EachShownIsTaken ==
  ASSUME NEW u \in User
  PROVE  /\ Screen(u)["resume"] => Accepts(u)["resume"]
         /\ Screen(u)["block"] => Accepts(u)["block"]
         /\ Screen(u)["hold"] => Accepts(u)["hold"]
         /\ Screen(u)["submit"] => Accepts(u)["submit"]
         /\ Screen(u)["approve"] => Accepts(u)["approve"]
         /\ Screen(u)["assign"] => Accepts(u)["assign"]
         /\ Screen(u)["start"] => Accepts(u)["start"] \/ ~Leads(u) \/ unmet
         /\ Screen(u)["submitForTesting"] => Accepts(u)["submitForTesting"] \/ ~Leads(u)
         /\ Screen(u)["requestChanges"] => Accepts(u)["requestChanges"]
         /\ Screen(u)["approveCompletion"] => Accepts(u)["approveCompletion"]
         /\ Screen(u)["close"] => Accepts(u)["close"]
         /\ Screen(u)["reopen"] => Accepts(u)["reopen"]
         /\ Screen(u)["editPlan"] => Accepts(u)["editPlan"]
<1>1. /\ Screen(u)["resume"] => Accepts(u)["resume"]
      /\ Screen(u)["block"] => Accepts(u)["block"]
      /\ Screen(u)["hold"] => Accepts(u)["hold"]
  BY DEF Screen, Accepts, MayResume, TakesResume, MayBlock, TakesBlock, MayStop,
    ShownBlockable, Blockable, TakesHold, ShownTerminal, Terminal, Held
<1>2. /\ Screen(u)["submit"] => Accepts(u)["submit"]
      /\ Screen(u)["approve"] => Accepts(u)["approve"]
      /\ Screen(u)["close"] => Accepts(u)["close"]
      /\ Screen(u)["reopen"] => Accepts(u)["reopen"]
  BY MatrixOfWorkflow
  DEF Screen, Accepts, TakesSubmit, OwnsTicket, TakesApprove, TakesClose, TakesReopen
<1>3. /\ Screen(u)["start"] => Accepts(u)["start"] \/ ~Leads(u) \/ unmet
      /\ Screen(u)["submitForTesting"] => Accepts(u)["submitForTesting"] \/ ~Leads(u)
  BY MatrixOfWorkflow DEF Screen, Accepts, TakesStart, TakesSubmitForTesting
<1>4. /\ Screen(u)["requestChanges"] => Accepts(u)["requestChanges"]
      /\ Screen(u)["approveCompletion"] => Accepts(u)["approveCompletion"]
  BY MatrixOfWorkflow DEF Screen, Accepts, TakesTesting, TakesDelivery, MayAccept
<1>5. /\ Screen(u)["assign"] => Accepts(u)["assign"]
      /\ Screen(u)["editPlan"] => Accepts(u)["editPlan"]
  BY DEF Screen, Accepts, TakesAssign, TakesPlan, ShownLocked, PlanLocked
<1> QED
  BY <1>1, <1>2, <1>3, <1>4, <1>5

LEMMA ShownIsTaken ==
  ASSUME NEW u \in User, NEW b \in Buttons, Screen(u)[b]
  PROVE  Accepts(u)[b] \/ KnownRefusal(u, b)
BY EachShownIsTaken DEF Buttons, Onward, KnownRefusal

\* The other way round: a move somebody would be granted is on offer to him, but
\* for those the page waits with, and for a submission, which only the creator
\* is offered.
LEMMA EachTakenIsShown ==
  ASSUME ~Waits, NEW u \in User
  PROVE  /\ Accepts(u)["resume"] => Screen(u)["resume"]
         /\ Accepts(u)["approve"] => Screen(u)["approve"]
         /\ Accepts(u)["assign"] => Screen(u)["assign"]
         /\ Accepts(u)["start"] => Screen(u)["start"]
         /\ Accepts(u)["submitForTesting"] => Screen(u)["submitForTesting"]
         /\ Accepts(u)["requestChanges"] => Screen(u)["requestChanges"]
         /\ Accepts(u)["approveCompletion"] => Screen(u)["approveCompletion"]
         /\ Accepts(u)["close"] => Screen(u)["close"]
         /\ Accepts(u)["reopen"] => Screen(u)["reopen"]
<1>1. /\ Accepts(u)["resume"] => Screen(u)["resume"]
      /\ Accepts(u)["approve"] => Screen(u)["approve"]
      /\ Accepts(u)["close"] => Screen(u)["close"]
      /\ Accepts(u)["reopen"] => Screen(u)["reopen"]
  BY DEF Waits, Screen, Accepts, MayResume, TakesResume, TakesApprove, TakesClose, TakesReopen
<1>2. /\ Accepts(u)["start"] => Screen(u)["start"]
      /\ Accepts(u)["submitForTesting"] => Screen(u)["submitForTesting"]
  BY MatrixOfWorkflow DEF Screen, Accepts, TakesStart, TakesSubmitForTesting
<1>3. /\ Accepts(u)["requestChanges"] => Screen(u)["requestChanges"]
      /\ Accepts(u)["approveCompletion"] => Screen(u)["approveCompletion"]
  BY MatrixOfWorkflow DEF Screen, Accepts, TakesTesting, TakesDelivery, MayAccept
<1>4. Accepts(u)["assign"] => Screen(u)["assign"]
  BY DEF Waits, Screen, Accepts, TakesAssign
<1> QED
  BY <1>1, <1>2, <1>3, <1>4

LEMMA SubmitIsShown ==
  ASSUME NEW u \in User, Accepts(u)["submit"]
  PROVE  Screen(Creator)["submit"] /\ Accepts(Creator)["submit"]
BY CreatorAssumption, MatrixOfWorkflow DEF Screen, Accepts, TakesSubmit, OwnsTicket

LEMMA TakenIsShown ==
  ASSUME ~Waits, NEW u \in User, NEW b \in Onward, Accepts(u)[b]
  PROVE  \E v \in User : Screen(v)[b] /\ Accepts(v)[b]
BY EachTakenIsShown, SubmitIsShown, CreatorAssumption DEF Onward

(***************************************************************************)
(* For any users, roles, creator and owner the page and the handlers       *)
(* agree: what is offered is taken, up to the refusals KnownRefusal names, *)
(* and where a move is open the page offers somebody one.                  *)
(***************************************************************************)
THEOREM PageKeepsItsWord == Spec => []PageAgrees
<1>1. OfferedIsAccepted
  BY ShownIsTaken DEF OfferedIsAccepted
<1>2. NoDeadEnd
  BY TakenIsShown DEF NoDeadEnd
<1>3. PageAgrees
  BY <1>1, <1>2 DEF PageAgrees
<1> QED
  BY <1>3, PTL
-----------------------------------------------------------------------------

LEMMA EndpointIs ==
  Endpoint = { "submit", "approve", "assign", "start", "test", "changes", "verify", "accept",
               "block", "hold", "resume", "close", "reopen", "force" }
BY DEF Endpoint, From

LEMMA Tables ==
  ASSUME NEW ep \in Endpoint
  PROVE  From[ep] \subseteq Status /\ Into[ep] \subseteq Status
<1>1. From[ep] \subseteq Status
  BY EndpointIs DEF From, Status, Blockable, Terminal, Held
<1>2. Into[ep] \subseteq Status
  BY EndpointIs DEF Into, Status, DecisionStatus
<1> QED
  BY <1>1, <1>2

\* Among finitely many places of a list there is a last one.
LEMMA NewestExists ==
  ASSUME NEW n \in Nat, NEW S, S \subseteq 1 .. n, S # {}
  PROVE  \E i \in S : \A j \in S : j <= i
<1> DEFINE Less == OpToRel(<, Nat)
           Back == { n - i : i \in S }
<1>1. IsWellFoundedOn(Less, Nat)
  BY NatLessThanWellFounded
<1>2. \A x, y \in Nat : x < y => <<x, y>> \in Less
  BY DEF OpToRel
<1> HIDE DEF Less
<1>3. Back \subseteq Nat /\ Back # {}
  <2>1. \A i \in S : n - i \in Nat
    OBVIOUS
  <2>2. PICK i \in S : TRUE
    OBVIOUS
  <2> QED
    BY <2>1, <2>2
<1>4. PICK x \in Back : \A y \in Back : ~(<<y, x>> \in Less)
  BY <1>1, <1>3, WFMin
<1>5. PICK i \in S : x = n - i
  OBVIOUS
<1>6. ASSUME NEW j \in S PROVE j <= i
  <2>1. n - j \in Back /\ ~(n - j < x)
    BY <1>2, <1>3, <1>4
  <2> QED
    BY <1>5, <2>1
<1> QED
  BY <1>6

LEMMA ResumesToStatus ==
  ASSUME NEW edges \in Seq(Edges), NEW assigned \in BOOLEAN
  PROVE  ResumeTarget(edges, assigned) \in Status
<1>1. CASE ReturnRows(edges) = {}
  BY <1>1 DEF ResumeTarget, Status
<1>2. CASE ReturnRows(edges) # {}
  <2> DEFINE rows == ReturnRows(edges)
             newest == CHOOSE i \in rows : \A j \in rows : j <= i
  <2>1. rows \subseteq 1 .. Len(edges) /\ Len(edges) \in Nat
    BY DEF ReturnRows
  <2>2. \E i \in rows : \A j \in rows : j <= i
    BY <1>2, <2>1, NewestExists
  <2>3. newest \in rows
    BY <2>2
  <2>4. newest \in DOMAIN edges /\ edges[newest].from # NoStatus
    BY <2>3 DEF ReturnRows, MarksReturn
  <2>5. ResumeTarget(edges, assigned) = edges[newest].from
    BY <1>2 DEF ResumeTarget
  <2> HIDE DEF newest
  <2>6. edges[newest] \in Edges
    BY <2>4
  <2>7. edges[newest].from \in Status
    BY <2>4, <2>6 DEF Edges
  <2> QED
    BY <2>5, <2>7
<1> QED
  BY <1>1, <1>2

\* What a request carries once it is loaded, and once it is decided.
Asked(r) ==
  /\ "phase" \in DOMAIN r
  /\ r.phase \in { "idle", "loaded", "writing" }
  /\ r.phase # "idle" => r.ep \in Endpoint /\ r.status \in From[r.ep]
  /\ r.phase = "writing" =>
       /\ { "ep", "status", "to", "pending" } \subseteq DOMAIN r
       /\ r.to \in Into[r.ep]
       /\ r.pending \subseteq { "row", "history" }

Recorded(to) == \E i \in DOMAIN history : history[i].to = to

(***************************************************************************)
(* While no write has failed: a status still to be written has its row,    *)
(* or the row is still to come, and the status too is recorded or about to *)
(* be.                                                                     *)
(***************************************************************************)
Recording ==
  failures = 0 =>
    /\ \A s \in Slot : inflight[s].phase = "writing" =>
         "history" \in inflight[s].pending \/ Recorded(inflight[s].to)
    /\ \/ status = "DRAFT" \/ Recorded(status)
       \/ \E s \in Slot : /\ inflight[s].phase = "writing"
                          /\ "history" \in inflight[s].pending
                          /\ inflight[s].to = status

RequestInv ==
  /\ status \in Status /\ history \in Seq(Edges) /\ failures \in Nat
  /\ DOMAIN inflight = Slot
  /\ \A s \in Slot : Asked(inflight[s])
  /\ RowsAreMoves /\ Recording

LEMMA RequestInitially == RequestInit => RequestInv
<1> SUFFICES ASSUME RequestInit PROVE RequestInv
  OBVIOUS
<1>1. /\ status = "DRAFT" /\ history \in { <<>>, <<OpeningRow>> } /\ failures = 0
      /\ \A s \in Slot : inflight[s] = [phase |-> "idle"]
      /\ DOMAIN inflight = Slot
  BY DEF RequestInit, Init, Idle
<1>2. status \in Status
  BY <1>1 DEF Status
<1>3. OpeningRow \in Edges
  BY DEF OpeningRow, Edges, Status
<1>4. history \in Seq(Edges) /\ \A i \in DOMAIN history : history[i] = OpeningRow
  <2>1. CASE history = <<>>
    BY <2>1
  <2>2. CASE history = <<OpeningRow>>
    BY <1>3, <2>2
  <2> QED
    BY <1>1, <2>1, <2>2
<1>5. RowsAreMoves
  BY <1>4 DEF RowsAreMoves, OpeningRow
<1>6. \A s \in Slot : Asked(inflight[s])
  BY <1>1 DEF Asked
<1>7. Recording
  BY <1>1 DEF Recording
<1> QED
  BY <1>1, <1>2, <1>4, <1>5, <1>6, <1>7 DEF RequestInv

\* A step of one request that leaves ticket and history alone.
LEMMA RequestMoves ==
  ASSUME RequestInv, NEW s \in Slot, NEW r, inflight' = [inflight EXCEPT ![s] = r], Asked(r),
         UNCHANGED <<status, history, failures>>,
         inflight[s].phase # "writing",
         r.phase = "writing" => "history" \in r.pending
  PROVE  RequestInv'
<1>1. /\ DOMAIN inflight = Slot /\ DOMAIN inflight' = Slot /\ inflight'[s] = r
      /\ \A t \in Slot : t # s => inflight'[t] = inflight[t]
      /\ \A t \in Slot : Asked(inflight[t])
      /\ status' = status /\ history' = history /\ failures' = failures
  BY DEF RequestInv
<1>2. \A t \in Slot : Asked(inflight'[t])
  BY <1>1
<1>3. RowsAreMoves'
  BY <1>1 DEF RequestInv, RowsAreMoves
<1>4. Recording'
  <2> SUFFICES ASSUME failures = 0 PROVE Recording'
    BY <1>1 DEF Recording
  <2>1. \A to : Recorded(to)' <=> Recorded(to)
    BY <1>1 DEF Recorded
  <2>2. \A t \in Slot : inflight'[t].phase = "writing" =>
          "history" \in inflight'[t].pending \/ Recorded(inflight'[t].to)
    BY <1>1 DEF RequestInv, Recording
  <2>3. \/ status = "DRAFT" \/ Recorded(status)
        \/ \E t \in Slot : /\ inflight'[t].phase = "writing"
                           /\ "history" \in inflight'[t].pending
                           /\ inflight'[t].to = status
    BY <1>1 DEF RequestInv, Recording
  <2> QED
    BY <1>1, <2>2, <2>3 DEF Recording, Recorded
<1> QED
  BY <1>1, <1>2, <1>3, <1>4 DEF RequestInv

\* What is left of a request after one of its writes.
LEMMA AfterIs ==
  ASSUME NEW r, Asked(r), r.phase = "writing", NEW w \in r.pending
  PROVE  LET q == After(r, w) IN
         /\ Asked(q)
         /\ q.phase = "writing" => /\ q.pending = r.pending \ {w} /\ q.to = r.to
                                   /\ r.pending # {w}
         /\ q.phase # "writing" => r.pending = {w}
<1> DEFINE q == [r EXCEPT !.pending = @ \ {w}]
<1>1. r.pending = {w} => After(r, w) = [phase |-> "idle"]
  BY DEF After, Idle
<1>2. r.pending # {w} => After(r, w) = q
  BY DEF After
<1>3. /\ DOMAIN q = DOMAIN r
      /\ "pending" \in DOMAIN r => q.pending = r.pending \ {w}
      /\ \A f \in DOMAIN r : f # "pending" => q[f] = r[f]
  OBVIOUS
<1> HIDE DEF q
<1>4. Asked(q) /\ q.phase = "writing" /\ q.pending = r.pending \ {w} /\ q.to = r.to
  BY <1>3 DEF Asked
<1>5. Asked([phase |-> "idle"])
  BY DEF Asked
<1> QED
  BY <1>1, <1>2, <1>4, <1>5

-----------------------------------------------------------------------------
LEMMA LoadKeeps ==
  ASSUME RequestInv, NEW s \in Slot, NEW u \in User, NEW ep \in Endpoint, Load(s, u, ep)
  PROVE  RequestInv'
<1> DEFINE r == [ phase |-> "loaded", ep |-> ep, by |-> u, status |-> status,
                  started |-> started, completed |-> completed ]
<1>1. /\ inflight' = [inflight EXCEPT ![s] = r] /\ inflight[s].phase # "writing"
      /\ UNCHANGED <<status, history, failures>> /\ status \in From[ep]
  BY DEF Load, Put, vars, rowVars, Idle
<1>2. Asked(r) /\ r.phase # "writing"
  BY <1>1 DEF Asked
<1> HIDE DEF r
<1> QED
  BY <1>1, <1>2, RequestMoves

LEMMA TargetsInto ==
  ASSUME RequestInv, NEW r, r.ep \in Endpoint
  PROVE  Targets(r) \subseteq Into[r.ep]
<1>1. CASE r.ep = "resume"
  <2>1. ResumeTarget(history, roster.active # {}) \in Status
    BY ResumesToStatus DEF RequestInv
  <2> QED
    BY <1>1, <2>1 DEF Targets, Into
<1>2. CASE r.ep # "resume"
  BY <1>2 DEF Targets
<1> QED
  BY <1>1, <1>2

LEMMA DecisionKeeps ==
  ASSUME RequestInv, NEW s \in Slot, inflight[s].phase = "loaded", NEW to, NEW before,
         to \in Into[inflight[s].ep],
         Put(s, Decided(inflight[s], to, before)), UNCHANGED <<status, history, failures>>
  PROVE  RequestInv'
<1> DEFINE r == Decided(inflight[s], to, before)
<1>1. Asked(inflight[s])
  BY DEF RequestInv
<1>2. Asked(r) /\ r.phase = "writing" /\ "history" \in r.pending
  BY <1>1 DEF Asked, Decided
<1>3. inflight' = [inflight EXCEPT ![s] = r]
  BY DEF Put
<1> HIDE DEF r
<1> QED
  BY <1>2, <1>3, RequestMoves

LEMMA DecideKeeps ==
  ASSUME RequestInv, NEW s \in Slot, Decide(s) \/ AssignRoster(s)
  PROVE  RequestInv'
<1>1. inflight[s].phase = "loaded" /\ UNCHANGED <<status, history, failures>>
  BY DEF Decide, AssignRoster, vars, rowVars
<1>2. inflight[s].ep \in Endpoint
  BY <1>1 DEF RequestInv, Asked
<1>3. CASE Decide(s)
  <2>1. PICK to \in Targets(inflight[s]) : Put(s, Decided(inflight[s], to, EmptyRoster))
    BY <1>3 DEF Decide
  <2> QED
    BY <1>1, <1>2, <2>1, TargetsInto, DecisionKeeps
<1>4. CASE AssignRoster(s)
  <2>1. "SCHEDULED" \in Into[inflight[s].ep]
    BY <1>4 DEF AssignRoster, Into
  <2> QED
    BY <1>1, <1>4, <2>1, DecisionKeeps DEF AssignRoster
<1> QED
  BY <1>3, <1>4

LEMMA RefuseKeeps ==
  ASSUME RequestInv, NEW s \in Slot, Refuse(s)
  PROVE  RequestInv'
<1>1. /\ inflight' = [inflight EXCEPT ![s] = Idle] /\ inflight[s].phase # "writing"
      /\ UNCHANGED <<status, history, failures>>
  BY DEF Refuse, Put, vars, rowVars
<1>2. Asked(Idle) /\ Idle.phase # "writing"
  BY DEF Asked, Idle
<1> QED
  BY <1>1, <1>2, RequestMoves

\* One of the two writes is made or lost.
LEMMA Wrote ==
  ASSUME RequestInv, NEW s \in Slot, NEW w, Writing(s, w), Put(s, After(inflight[s], w))
  PROVE  /\ DOMAIN inflight' = Slot /\ Asked(inflight[s])
         /\ \A t \in Slot : Asked(inflight'[t]) /\ (t # s => inflight'[t] = inflight[t])
         /\ w \in {"row", "history"}
         /\ IF inflight[s].pending = {w}
              THEN inflight'[s].phase # "writing"
              ELSE inflight'[s].phase = "writing" => 
                     /\ inflight'[s].pending = inflight[s].pending \ {w}
                     /\ inflight'[s].to = inflight[s].to
<1> DEFINE q == After(inflight[s], w)
<1>1. Asked(inflight[s]) /\ inflight[s].phase = "writing" /\ w \in inflight[s].pending
  BY DEF RequestInv, Writing
<1>2. /\ Asked(q)
      /\ q.phase = "writing" => /\ q.pending = inflight[s].pending \ {w}
                                /\ q.to = inflight[s].to
                                /\ inflight[s].pending # {w}
  BY <1>1, AfterIs
<1>3. inflight' = [inflight EXCEPT ![s] = q]
  BY DEF Put
<1> HIDE DEF q
<1>4. /\ DOMAIN inflight' = Slot /\ inflight'[s] = q
      /\ \A t \in Slot : t # s => inflight'[t] = inflight[t]
  BY <1>3 DEF RequestInv
<1>5. w \in {"row", "history"}
  BY <1>1 DEF Asked
<1> QED
  BY <1>1, <1>2, <1>4, <1>5 DEF RequestInv

LEMMA WriteRowKeeps ==
  ASSUME RequestInv, NEW s \in Slot, WriteRow(s)
  PROVE  RequestInv'
<1> DEFINE r == inflight[s]
<1>1. /\ Writing(s, "row") /\ Put(s, After(r, "row")) /\ status' = r.to
      /\ history' = history /\ failures' = failures
  BY DEF WriteRow
<1>2. /\ DOMAIN inflight' = Slot /\ Asked(r)
      /\ \A t \in Slot : Asked(inflight'[t]) /\ (t # s => inflight'[t] = inflight[t])
      /\ IF r.pending = {"row"}
           THEN inflight'[s].phase # "writing"
           ELSE inflight'[s].phase = "writing" =>
                  inflight'[s].pending = r.pending \ {"row"} /\ inflight'[s].to = r.to
  BY <1>1, Wrote
<1>3. r.phase = "writing" /\ "row" \in r.pending
  BY <1>1 DEF Writing
<1>4. status' \in Status
  BY <1>1, <1>2, <1>3, Tables DEF Asked
<1>5. RowsAreMoves'
  BY <1>1 DEF RequestInv, RowsAreMoves
<1>6. Recording'
  <2> SUFFICES ASSUME failures = 0 PROVE Recording'
    BY <1>1 DEF Recording
  <2>1. \A t \in Slot : inflight'[t].phase = "writing" =>
          "history" \in inflight'[t].pending \/ Recorded(inflight'[t].to)
    BY <1>2, <1>3 DEF RequestInv, Recording
  <2>2. CASE "history" \in r.pending
    <3>1. r.pending # {"row"} /\ After(r, "row") = [r EXCEPT !.pending = @ \ {"row"}]
      BY <2>2 DEF After
    <3>2. inflight'[s] = After(r, "row")
      BY <1>1 DEF Put, RequestInv
    <3>3. { "phase", "pending" } \subseteq DOMAIN r
      BY <1>2, <1>3 DEF Asked
    <3>4. inflight'[s].phase = "writing"
      BY <1>3, <3>1, <3>2, <3>3
    <3>5. "history" \in inflight'[s].pending /\ inflight'[s].to = status'
      BY <1>1, <1>2, <2>2, <3>1, <3>4
    <3> QED
      BY <1>1, <2>1, <3>4, <3>5 DEF Recording, Recorded
  <2>3. CASE "history" \notin r.pending
    <3>1. Recorded(status')
      BY <1>1, <1>3, <2>3 DEF RequestInv, Recording
    <3> QED
      BY <1>1, <2>1, <3>1 DEF Recording, Recorded
  <2> QED
    BY <2>2, <2>3
<1> QED
  BY <1>1, <1>2, <1>4, <1>5, <1>6 DEF RequestInv

LEMMA WriteHistoryKeeps ==
  ASSUME RequestInv, NEW s \in Slot, WriteHistory(s)
  PROVE  RequestInv'
<1> DEFINE r == inflight[s]
           n == Len(history)
<1>1. /\ Writing(s, "history") /\ Put(s, After(r, "history"))
      /\ history' = Append(history, RowOf(r))
      /\ status' = status /\ failures' = failures
  BY DEF WriteHistory
<1>2. /\ DOMAIN inflight' = Slot /\ Asked(r)
      /\ \A t \in Slot : Asked(inflight'[t]) /\ (t # s => inflight'[t] = inflight[t])
      /\ IF r.pending = {"history"}
           THEN inflight'[s].phase # "writing"
           ELSE inflight'[s].phase = "writing" =>
                  inflight'[s].pending = r.pending \ {"history"} /\ inflight'[s].to = r.to
  BY <1>1, Wrote
<1>3. r.phase = "writing" /\ "history" \in r.pending
  BY <1>1 DEF Writing
<1>4. /\ r.ep \in Endpoint /\ r.status \in From[r.ep] /\ r.to \in Into[r.ep]
  BY <1>2, <1>3 DEF Asked
<1>5. /\ RowOf(r) \in Edges /\ RowOf(r).from = r.status /\ RowOf(r).to = r.to
      /\ RowOf(r).forced <=> r.ep = "force"
  BY <1>4, Tables DEF RowOf, Edges
<1>6. history \in Seq(Edges)
  BY DEF RequestInv
<1> HIDE DEF r
<1>7. /\ history' \in Seq(Edges) /\ n \in Nat /\ DOMAIN history = 1 .. n
      /\ DOMAIN history' = 1 .. n + 1 /\ history'[n + 1] = RowOf(r)
      /\ \A i \in 1 .. n : history'[i] = history[i]
  BY <1>1, <1>5, <1>6
<1>8. RowsAreMoves'
  <2> SUFFICES ASSUME NEW i \in 1 .. n + 1
               PROVE  \/ history'[i].forced \/ history'[i].from = NoStatus
                      \/ \E ep \in Endpoint \ { "force" } :
                           history'[i].from \in From[ep] /\ history'[i].to \in Into[ep]
    BY <1>7 DEF RowsAreMoves
  <2>1. CASE i \in 1 .. n
    BY <1>7, <2>1 DEF RequestInv, RowsAreMoves
  <2>2. CASE i = n + 1
    BY <1>4, <1>5, <1>7, <2>2
  <2> QED
    BY <1>7, <2>1, <2>2
<1>9. Recording'
  <2> SUFFICES ASSUME failures = 0 PROVE Recording'
    BY <1>1 DEF Recording
  <2> DEFINE Named(x) == \E i \in DOMAIN history' : history'[i].to = x
  <2>1. \A x : Recorded(x) => Named(x)
    BY <1>7 DEF Recorded
  <2>2. Named(inflight[s].to)
    BY <1>5, <1>7 DEF r
  <2> HIDE DEF Named
  <2>3. \A t \in Slot : inflight'[t].phase = "writing" =>
          "history" \in inflight'[t].pending \/ Named(inflight'[t].to)
    BY <1>2, <2>1, <2>2 DEF RequestInv, Recording, r
  <2>4. \/ status = "DRAFT" \/ Named(status)
        \/ \E t \in Slot : /\ inflight'[t].phase = "writing"
                           /\ "history" \in inflight'[t].pending
                           /\ inflight'[t].to = status
    BY <1>2, <2>1, <2>2 DEF RequestInv, Recording
  <2> QED
    BY <1>1, <2>3, <2>4 DEF Recording, Recorded, Named
<1> QED
  BY <1>1, <1>2, <1>7, <1>8, <1>9 DEF RequestInv

\* A failure leaves the tables alone; after one nothing is promised of the record.
LEMMA FailureKeeps ==
  ASSUME RequestInv, Crash \/ \E s \in Slot, w \in { "row", "history" } : FailWrite(s, w)
  PROVE  RequestInv'
<1>1. UNCHANGED <<status, history>> /\ failures' = failures + 1 /\ failures \in Nat
  BY DEF Crash, FailWrite, vars, rowVars, RequestInv
<1>2. DOMAIN inflight' = Slot /\ \A t \in Slot : Asked(inflight'[t])
  <2>1. CASE Crash
    BY <2>1 DEF Crash, Idle, Asked
  <2>2. ASSUME NEW s \in Slot, NEW w, FailWrite(s, w)
        PROVE  DOMAIN inflight' = Slot /\ \A t \in Slot : Asked(inflight'[t])
    BY <2>2, Wrote DEF FailWrite
  <2> QED
    BY <2>1, <2>2
<1>3. RowsAreMoves'
  BY <1>1 DEF RequestInv, RowsAreMoves
<1> QED
  BY <1>1, <1>2, <1>3 DEF RequestInv, Recording

LEMMA RequestNextKeeps == RequestInv /\ [RequestNext]_allVars => RequestInv'
<1> SUFFICES ASSUME RequestInv, [RequestNext]_allVars PROVE RequestInv'
  OBVIOUS
<1>1. ASSUME UNCHANGED <<status, history, inflight, failures>> PROVE RequestInv'
  BY <1>1 DEF RequestInv, RowsAreMoves, Recording, Recorded
<1>2. CASE RequestStep
  BY <1>2, LoadKeeps, DecideKeeps, RefuseKeeps, WriteRowKeeps, WriteHistoryKeeps, FailureKeeps
     DEF RequestStep
<1>3. CASE Surroundings
  BY <1>1, <1>3 DEF Surroundings, UpdatePlan, PrerequisitesMove, BoardStep, requestVars, rowVars
<1>4. CASE UNCHANGED allVars
  BY <1>1, <1>4 DEF allVars, requestVars, vars, rowVars
<1> QED
  BY <1>2, <1>3, <1>4 DEF RequestNext

LEMMA AlwaysRequestInv == RequestSpec => []RequestInv
BY RequestInitially, RequestNextKeeps, PTL DEF RequestSpec

(***************************************************************************)
(* The timeline never shows a transition the workflow does not have,       *)
(* whatever overlaps and fails.                                            *)
(***************************************************************************)
THEOREM TimelineShowsMoves == RequestSpec => []RowsAreMoves
<1>1. RequestInv => RowsAreMoves
  BY DEF RequestInv
<1> QED
  BY <1>1, AlwaysRequestInv, PTL

(***************************************************************************)
(* A race that lost no write leaves behind a status its history names.     *)
(***************************************************************************)
THEOREM RaceIsRecorded == RequestSpec => []SettledStatusRecorded
<1>1. RequestInv => SettledStatusRecorded
  <2> SUFFICES ASSUME RequestInv, Quiet, failures = 0
               PROVE  status = "DRAFT" \/ Recorded(status)
    BY DEF SettledStatusRecorded, Recorded
  <2>1. \A s \in Slot : inflight[s] = [phase |-> "idle"]
    BY DEF Quiet, Busy, Idle
  <2> QED
    BY <2>1 DEF RequestInv, Recording
<1> QED
  BY <1>1, AlwaysRequestInv, PTL

-----------------------------------------------------------------------------
(***************************************************************************)
(* One request at a time, none failing.  The invariant keeps what its      *)
(* handler has checked until the first write makes it good.                *)
(***************************************************************************)
Full == { "row", "history" }

Loaded(r) ==
  /\ r.ep \in Endpoint
  /\ r.status = status /\ r.started = started /\ r.completed = completed
  /\ status \in From[r.ep]
  /\ Room(Len(history), r.ep = "force" \/ Forced(history) # {})
  /\ r.ep = "force" => Cardinality(Forced(history)) < MaxForces
  /\ r.ep = "assign" => deadline

ReachableFrom(b) == Eligible \cup { d \in b.active \cup holders : IsDeveloper(d) }

\* The roster an assign may have made of b.
TeamedFrom(b) ==
  \/ \E team \in SUBSET { d \in ReachableFrom(b) : IsDeveloper(d) } : \E l \in team :
       roster = AssignTeam(b, team, l)
  \/ \E l \in b.active : roster = SetLead(b, l)

Promised(r) ==
  /\ Loaded(r)
  /\ \E u \in User :
       /\ MayCall(u, r.ep)
       /\ IF r.ep = "assign"
            THEN r.to = "SCHEDULED" /\ TeamedFrom(r.before)
            ELSE r.to \in Targets(r) /\ GatesPass([ep |-> r.ep, by |-> u])

SerialInv(s) ==
  /\ failures = 0 /\ DOMAIN inflight = Slot
  /\ \/ inflight[s] = Idle
     \/ /\ inflight[s].phase = "loaded" /\ Loaded(inflight[s])
        /\ inflight[s].by \in User /\ MayCall(inflight[s].by, inflight[s].ep)
     \/ /\ inflight[s].phase = "writing" /\ {"phase", "pending"} \subseteq DOMAIN inflight[s]
        /\ {"ep", "to", "status"} \subseteq DOMAIN inflight[s]
        /\ {"started", "completed"} \subseteq DOMAIN inflight[s]
        /\ \/ inflight[s].pending = Full /\ Promised(inflight[s])
           \/ inflight[s].pending = {"history"}
           \/ /\ inflight[s].pending = {"row"}
              /\ inflight[s].started = started /\ inflight[s].completed = completed

\* What the mapping makes of the one request there is.
Unwritten ==
  /\ HistoryTold = history /\ StatusTold = status /\ StartedTold = started
  /\ CompletedTold = completed /\ ReasonTold = reason

RowWritten(s) ==
  /\ HistoryTold = Append(history, RowOf(inflight[s]))
  /\ StatusTold = status /\ StartedTold = started
  /\ CompletedTold = completed /\ ReasonTold = reason

HistoryWritten(s) ==
  /\ HistoryTold = history /\ StatusTold = inflight[s].to
  /\ StartedTold = StampStarted(started, started, inflight[s].to)
  /\ CompletedTold = StampCompleted(completed, completed, inflight[s].to)
  /\ ReasonTold = ReasonAfter(inflight[s], reason)

ToldIs(s) ==
  LET r == inflight[s] IN
  /\ r.phase # "writing" => Unwritten /\ RosterTold = roster
  /\ r.phase = "writing" /\ r.pending = Full =>
       Unwritten /\ RosterTold = IF r.ep = "assign" THEN r.before ELSE roster
  /\ r.phase = "writing" /\ r.pending = {"history"} => RowWritten(s) /\ RosterTold = roster
  /\ r.phase = "writing" /\ r.pending = {"row"} => HistoryWritten(s) /\ RosterTold = roster

LEMMA ToldNow ==
  ASSUME NEW s, Slot = {s}
  PROVE  ToldIs(s) /\ ToldIs(s)'
<1>0. (CHOOSE t \in {s} : TRUE) = s
  OBVIOUS
<1>1. ToldIs(s)
  <2> DEFINE r == inflight[s]
  <2>1. /\ Committed = IF r.phase = "writing" /\ r.pending # Full THEN {s} ELSE {}
        /\ Uncommitted = IF r.phase = "writing" /\ r.pending = Full /\ r.ep = "assign"
                           THEN {s} ELSE {}
    <3>1. r.phase = "writing" => s \in Busy
      BY DEF Busy, Idle
    <3> QED
      BY <3>1 DEF Committed, Uncommitted, Busy, Full
  <2>2. \A w : Owed(w) = IF r.phase = "writing" /\ r.pending # Full /\ w \in r.pending
                           THEN {s} ELSE {}
    BY <2>1 DEF Owed
  <2>3. The({s}) = r
    BY <1>0 DEF The
  <2> DEFINE owed(w) == r.phase = "writing" /\ r.pending # Full /\ w \in r.pending
  <2>4. HistoryTold = IF owed("history") THEN Append(history, RowOf(r)) ELSE history
    BY <2>2, <2>3 DEF HistoryTold
  <2>5. StatusTold = IF owed("row") THEN r.to ELSE status
    BY <2>2, <2>3 DEF StatusTold
  <2>6. StartedTold = IF owed("row") THEN StampStarted(started, started, r.to) ELSE started
    BY <2>2, <2>5 DEF StartedTold
  <2>7. CompletedTold =
          IF owed("row") THEN StampCompleted(completed, completed, r.to) ELSE completed
    BY <2>2, <2>5 DEF CompletedTold
  <2>8. ReasonTold = IF owed("row") THEN ReasonAfter(r, reason) ELSE reason
    BY <2>2, <2>3 DEF ReasonTold
  <2>9. RosterTold = IF r.phase = "writing" /\ r.pending = Full /\ r.ep = "assign"
                       THEN r.before ELSE roster
    BY <2>1, <2>3 DEF RosterTold
  <2>10. /\ "row" \in Full /\ "history" \in Full
         /\ Full # {"row"} /\ Full # {"history"} /\ "row" # "history"
    BY DEF Full
  <2> QED
    BY <2>4, <2>5, <2>6, <2>7, <2>8, <2>9, <2>10
       DEF ToldIs, Unwritten, RowWritten, HistoryWritten
<1>2. ToldIs(s)'
  <2> DEFINE r == inflight'[s]
  <2>1. /\ Committed' = IF r.phase = "writing" /\ r.pending # Full THEN {s} ELSE {}
        /\ Uncommitted' = IF r.phase = "writing" /\ r.pending = Full /\ r.ep = "assign"
                            THEN {s} ELSE {}
    <3>1. r.phase = "writing" => s \in Busy'
      BY DEF Busy, Idle
    <3> QED
      BY <3>1 DEF Committed, Uncommitted, Busy, Full
  <2>2. \A w : Owed(w)' = IF r.phase = "writing" /\ r.pending # Full /\ w \in r.pending
                            THEN {s} ELSE {}
    BY <2>1 DEF Owed
  <2>3. The({s})' = r
    BY <1>0 DEF The
  <2> DEFINE owed(w) == r.phase = "writing" /\ r.pending # Full /\ w \in r.pending
  <2>4. HistoryTold' = IF owed("history") THEN Append(history', RowOf(r)) ELSE history'
    BY <2>2, <2>3 DEF HistoryTold
  <2>5. StatusTold' = IF owed("row") THEN r.to ELSE status'
    BY <2>2, <2>3 DEF StatusTold
  <2>6. StartedTold' = IF owed("row") THEN StampStarted(started', started', r.to) ELSE started'
    BY <2>2, <2>5 DEF StartedTold
  <2>7. CompletedTold' =
          IF owed("row") THEN StampCompleted(completed', completed', r.to) ELSE completed'
    BY <2>2, <2>5 DEF CompletedTold
  <2>8. ReasonTold' = IF owed("row") THEN ReasonAfter(r, reason') ELSE reason'
    BY <2>2, <2>3 DEF ReasonTold
  <2>9. RosterTold' = IF r.phase = "writing" /\ r.pending = Full /\ r.ep = "assign"
                       THEN r.before ELSE roster'
    BY <2>1, <2>3 DEF RosterTold
  <2>10. /\ "row" \in Full /\ "history" \in Full
         /\ Full # {"row"} /\ Full # {"history"} /\ "row" # "history"
    BY DEF Full
  <2> QED
    BY <2>4, <2>5, <2>6, <2>7, <2>8, <2>9, <2>10
       DEF ToldIs, Unwritten, RowWritten, HistoryWritten
<1> QED
  BY <1>1, <1>2

-----------------------------------------------------------------------------
\* What the mapping leaves as it is.
LEMMA SameTables ==
  /\ Workflow!Status = Status /\ Workflow!Terminal = Terminal
  /\ Workflow!Blockable = Blockable /\ Workflow!Held = Held
  /\ Workflow!DecisionStatus = DecisionStatus /\ Workflow!Leadership = Leadership
BY DEF Workflow!Status, Workflow!Terminal, Workflow!Blockable, Workflow!Held,
       Workflow!DecisionStatus, Workflow!Leadership, Status, Terminal, Blockable, Held,
       DecisionStatus, Leadership

LEMMA SameRights ==
  /\ \A u, a : Workflow!Can(u, a) <=> Can(u, a)
  /\ \A u : Workflow!OwnsTicket(u) <=> OwnsTicket(u)
  /\ \A u : Workflow!IsDeveloper(u) <=> IsDeveloper(u)
BY DEF Workflow!Can, Can, Workflow!May, May, Workflow!RoleActions, RoleActions,
       Workflow!Filing, Filing, Workflow!Requester, Requester, Workflow!SystemOwner, SystemOwner,
       Workflow!Testing, Testing, Workflow!Developer, Developer, Workflow!Qa, Qa,
       Workflow!Oversight, Oversight, Workflow!ProjectManager, ProjectManager,
       Workflow!ProgrammingHead, ProgrammingHead,
       Workflow!OwnsTicket, OwnsTicket, Workflow!Leadership, Leadership,
       Workflow!IsDeveloper, IsDeveloper

LEMMA SameColumns ==
  /\ \A n, f : Workflow!Room(n, f) <=> Room(n, f)
  /\ \A h : Workflow!Forced(h) = Forced(h)
  /\ \A a, b, c : Workflow!StampStarted(a, b, c) = StampStarted(a, b, c)
  /\ \A a, b, c : Workflow!StampCompleted(a, b, c) = StampCompleted(a, b, c)
  /\ \A r, d : Workflow!SetLead(r, d) = SetLead(r, d)
  /\ \A r, t, d : Workflow!AssignTeam(r, t, d) = AssignTeam(r, t, d)
  /\ \A r : Workflow!ActiveLeads(r) = ActiveLeads(r)
<1>1. \A n, f : Workflow!Room(n, f) <=> Room(n, f)
  BY DEF Workflow!Room, Room
<1>2. \A h : Workflow!Forced(h) = Forced(h)
  BY DEF Workflow!Forced, Forced
<1>3. \A a, b, c : Workflow!StampStarted(a, b, c) = StampStarted(a, b, c)
  BY DEF Workflow!StampStarted, StampStarted
<1>4. \A a, b, c : Workflow!StampCompleted(a, b, c) = StampCompleted(a, b, c)
  BY DEF Workflow!StampCompleted, StampCompleted, Workflow!Done, Done
<1>5. \A r, d : Workflow!SetLead(r, d) = SetLead(r, d)
  BY DEF Workflow!SetLead, SetLead
<1>6. \A r, t, d : Workflow!AssignTeam(r, t, d) = AssignTeam(r, t, d)
  BY DEF Workflow!AssignTeam, AssignTeam, Workflow!SetLead, SetLead
<1>7. \A r : Workflow!ActiveLeads(r) = ActiveLeads(r)
  BY DEF Workflow!ActiveLeads, ActiveLeads
<1> QED
  BY <1>1, <1>2, <1>3, <1>4, <1>5, <1>6, <1>7

LEMMA SameResume ==
  \A h, b : Workflow!ResumeTarget(h, b) = ResumeTarget(h, b)
BY DEF Workflow!ResumeTarget, ResumeTarget, Workflow!ReturnRows, ReturnRows,
       Workflow!MarksReturn, MarksReturn, Workflow!NoStatus, NoStatus,
       Workflow!ResumableHold, ResumableHold, Workflow!Paused, Paused

LEMMA SameCount == \A S : Workflow!Cardinality(S) = Cardinality(S)
BY DEF Workflow!Cardinality, Cardinality

(***************************************************************************)
(* The first of the two writes makes good what the handler has checked: it *)
(* is the handler's one step in TicketWorkflow.                            *)
(***************************************************************************)
LEMMA FirstWrite ==
  ASSUME NEW r, Promised(r), Unwritten,
         RosterTold = IF r.ep = "assign" THEN r.before ELSE roster,
         HistoryTold' = Append(history, RowOf(r)), StatusTold' = r.to,
         StartedTold' = StampStarted(started, started, r.to),
         CompletedTold' = StampCompleted(completed, completed, r.to),
         ReasonTold' = ReasonAfter(r, reason), RosterTold' = roster,
         UNCHANGED <<planVars, holders, open, roster>>
  PROVE  Workflow!Next
<1>1. PICK u \in User :
        /\ MayCall(u, r.ep)
        /\ IF r.ep = "assign"
             THEN r.to = "SCHEDULED" /\ TeamedFrom(r.before)
             ELSE r.to \in Targets(r) /\ GatesPass([ep |-> r.ep, by |-> u])
  BY DEF Promised
<1>2. Loaded(r)
  BY DEF Promised
<1>3. /\ HistoryTold = history /\ StatusTold = status /\ StartedTold = started
      /\ CompletedTold = completed /\ ReasonTold = reason
  BY DEF Unwritten
<1>4. Workflow!Write(r.to, r.ep = "force")
  BY <1>2, <1>3, SameColumns DEF Workflow!Write, Loaded, RowOf
<1>5. r.ep # "force" => Workflow!Write(r.to, FALSE)
  <2>1. r.ep # "force" => (r.ep = "force") = FALSE
    OBVIOUS
  <2> QED
    BY <1>4, <2>1
<1>6. UNCHANGED Workflow!planVars /\ holders' = holders /\ open' = open
  BY DEF Workflow!planVars, planVars
<1>7. r.ep # "assign" => UNCHANGED Workflow!boardVars
  BY <1>6 DEF Workflow!boardVars
<1>8. r.ep \notin { "block", "hold", "resume" } => ReasonTold' = ReasonTold
  BY <1>3 DEF ReasonAfter
<1>9. r.ep \notin { "force", "assign", "block", "hold", "resume" } => Workflow!ChangeStatus(r.to)
  BY <1>5, <1>6, <1>7, <1>8 DEF Workflow!ChangeStatus
<1>10. r.ep # "assign" => /\ r.to \in Targets(r)
                          /\ NeedsLead([ep |-> r.ep, by |-> u]) => Workflow!Leads(u)
                          /\ r.ep \in { "start", "test" } => ~unmet
                          /\ r.ep = "test" => ~open
  BY <1>1, SameColumns DEF GatesPass, Leads, Workflow!Leads
<1>11. StatusTold \in From[r.ep] /\ Workflow!Can(u, Needs[r.ep])
  BY <1>1, <1>2, <1>3, SameRights DEF Loaded, MayCall
<1>12. CASE r.ep \in { "submit", "approve", "changes", "verify", "close", "reopen" }
  <2>1. r.to \in Into[r.ep] /\ Workflow!ChangeStatus(r.to)
    BY <1>9, <1>10, <1>12 DEF Targets
  <2>2. CASE r.ep = "submit"
    <3>1. Workflow!Submit(u)
      BY <1>1, <1>11, <2>1, <2>2, SameRights
        DEF Workflow!Submit, Workflow!TakesSubmit, From, Into, Needs, MayCall
    <3> QED
      BY <3>1 DEF Workflow!Next, Workflow!Transition
  <2>3. CASE r.ep = "approve"
    <3>1. Workflow!Approve(u)
      BY <1>11, <2>1, <2>3, SameTables
        DEF Workflow!Approve, Workflow!TakesApprove, From, Into, Needs
    <3> QED
      BY <3>1 DEF Workflow!Next, Workflow!Transition
  <2>4. CASE r.ep = "changes"
    <3>1. Workflow!RequestChanges(u)
      BY <1>11, <2>1, <2>4 DEF Workflow!RequestChanges, Workflow!TakesTesting, From, Into, Needs
    <3> QED
      BY <3>1 DEF Workflow!Next, Workflow!Transition
  <2>5. CASE r.ep = "verify"
    <3>1. Workflow!VerifyTesting(u)
      BY <1>11, <2>1, <2>5 DEF Workflow!VerifyTesting, Workflow!TakesTesting, From, Into, Needs
    <3> QED
      BY <3>1 DEF Workflow!Next, Workflow!Transition
  <2>6. CASE r.ep = "close"
    <3>1. Workflow!Close(u)
      BY <1>11, <2>1, <2>6 DEF Workflow!Close, Workflow!TakesClose, From, Into, Needs
    <3> QED
      BY <3>1 DEF Workflow!Next, Workflow!Transition
  <2>7. CASE r.ep = "reopen"
    <3>1. Workflow!Reopen(u)
      BY <1>11, <2>1, <2>7 DEF Workflow!Reopen, Workflow!TakesReopen, From, Into, Needs
    <3> QED
      BY <3>1 DEF Workflow!Next, Workflow!Transition
  <2> QED
    BY <1>12, <2>2, <2>3, <2>4, <2>5, <2>6, <2>7
<1>13. CASE r.ep \in { "start", "test", "accept" }
  <2>1. r.to \in Into[r.ep] /\ Workflow!ChangeStatus(r.to)
    BY <1>9, <1>10, <1>13 DEF Targets
  <2>2. CASE r.ep = "start"
    <3>1. Workflow!StartWork(u)
      BY <1>10, <1>11, <2>1, <2>2
        DEF Workflow!StartWork, Workflow!TakesStart, From, Into, Needs, NeedsLead
    <3> QED
      BY <3>1 DEF Workflow!Next, Workflow!Transition
  <2>3. CASE r.ep = "test"
    <3>1. Workflow!SubmitForTesting(u)
      BY <1>10, <1>11, <2>1, <2>3
        DEF Workflow!SubmitForTesting, Workflow!TakesSubmitForTesting, From, Into, Needs, NeedsLead
    <3> QED
      BY <3>1 DEF Workflow!Next, Workflow!Transition
  <2>4. CASE r.ep = "accept"
    <3>1. Workflow!AcceptDelivery(u)
      BY <1>1, <1>11, <2>1, <2>4, SameTables
         DEF Workflow!AcceptDelivery, Workflow!TakesDelivery, From, Into, Needs, MayCall,
             OnOwnerSide
    <3> QED
      BY <3>1 DEF Workflow!Next, Workflow!Transition
  <2> QED
    BY <1>13, <2>2, <2>3, <2>4
<1>14. CASE r.ep \in { "block", "hold" }
  <2>1. r.to \in Into[r.ep] /\ Workflow!Stop(r.to)
    BY <1>5, <1>6, <1>7, <1>10, <1>14 DEF Targets, Workflow!Stop, ReasonAfter
  <2>2. CASE r.ep = "block"
    <3>1. NeedsLead([ep |-> r.ep, by |-> u]) <=> Can(u, "ticket:resume") /\ ~Can(u, "ticket:hold")
      BY <2>2 DEF NeedsLead
    <3>2. Workflow!MayStop(u)
      BY <1>10, <2>2, <3>1, SameRights DEF Workflow!MayStop
    <3>3. Workflow!Block(u)
      BY <1>11, <2>1, <2>2, <3>2, SameTables
        DEF Workflow!Block, Workflow!TakesBlock, From, Into, Needs
    <3> QED
      BY <3>3 DEF Workflow!Next, Workflow!Transition
  <2>3. CASE r.ep = "hold"
    <3>1. StatusTold \in Status \ Terminal
      BY <1>11, <2>3 DEF From
    <3>2. Workflow!Hold(u)
      BY <1>11, <2>1, <2>3, <3>1, SameTables DEF Workflow!Hold, Workflow!TakesHold, Into, Needs
    <3> QED
      BY <3>2 DEF Workflow!Next, Workflow!Transition
  <2> QED
    BY <1>14, <2>2, <2>3
<1>15. CASE r.ep = "resume"
  <2>1. r.to = Workflow!ResumeTarget(HistoryTold, RosterTold.active # {})
    BY <1>3, <1>10, <1>15, SameResume DEF Targets
  <2>2. Workflow!Write(Workflow!ResumeTarget(HistoryTold, RosterTold.active # {}), FALSE)
    BY <1>5, <1>15, <2>1
  <2>3. ReasonTold' = FALSE
    BY <1>15 DEF ReasonAfter
  <2>4. NeedsLead([ep |-> r.ep, by |-> u]) <=> Can(u, "ticket:resume") /\ ~Can(u, "ticket:hold")
    BY <1>15 DEF NeedsLead
  <2>5. Needs[r.ep] = "ticket:resume" /\ From[r.ep] = Held
    BY <1>15 DEF Needs, From
  <2>6. StatusTold = "ON_HOLD" => Can(u, "ticket:hold")
    BY <1>1, <1>3, <1>15 DEF MayCall
  <2>7. \/ Workflow!Can(u, "ticket:hold")
        \/ StatusTold = "BLOCKED" /\ Workflow!Leads(u)
    BY <1>10, <1>11, <1>15, <2>4, <2>5, <2>6, SameRights DEF Held
  <2>8. Workflow!Resume(u)
    BY <1>6, <1>7, <1>11, <1>15, <2>2, <2>3, <2>5, <2>7, SameTables
      DEF Workflow!Resume, Workflow!TakesResume
  <2> QED
    BY <2>8 DEF Workflow!Next, Workflow!Transition
<1>16. CASE r.ep = "force"
  <2>1. Workflow!Write(r.to, TRUE)
    BY <1>4, <1>16
  <2>2. Workflow!Cardinality(Workflow!Forced(HistoryTold)) < MaxForces
    BY <1>2, <1>3, <1>16, SameColumns, SameCount DEF Loaded
  <2>3. r.to \in Status
    BY <1>10, <1>16 DEF Targets, Into
  <2>4. Needs[r.ep] = "ticket:force-status"
    BY <1>16 DEF Needs
  <2>5. Workflow!ForceStatus(u, r.to)
    BY <1>6, <1>7, <1>8, <1>11, <1>16, <2>1, <2>2, <2>4 DEF Workflow!ForceStatus
  <2> QED
    BY <2>3, <2>5, SameTables DEF Workflow!Next, Workflow!Transition
<1>17. CASE r.ep = "assign"
  <2>1. r.to = "SCHEDULED" /\ TeamedFrom(r.before) /\ RosterTold = r.before /\ deadline
    BY <1>1, <1>2, <1>17 DEF Loaded
  <2>2. Workflow!Write("SCHEDULED", FALSE)
    BY <1>5, <1>17, <2>1
  <2>3. Workflow!Assignable = { d \in ReachableFrom(r.before) : IsDeveloper(d) }
    BY <2>1, SameRights DEF Workflow!Assignable, Workflow!Reachable, ReachableFrom
  <2>4. \/ \E team \in SUBSET Workflow!Assignable : \E l \in team :
             RosterTold' = Workflow!AssignTeam(RosterTold, team, l)
        \/ \E l \in RosterTold.active : RosterTold' = Workflow!SetLead(RosterTold, l)
    BY <2>1, <2>3, SameColumns DEF TeamedFrom
  <2>5. StatusTold = "APPROVED" /\ Workflow!Can(u, "ticket:assign")
    BY <1>11, <1>17 DEF From, Needs
  <2>6. ReasonTold' = ReasonTold
    BY <1>8, <1>17
  <2>7. Workflow!Assign(u)
    BY <1>6, <2>1, <2>2, <2>4, <2>5, <2>6 DEF Workflow!Assign, Workflow!TakesAssign
  <2> QED
    BY <2>7 DEF Workflow!Next, Workflow!Transition
<1> QED
  BY <1>2, <1>12, <1>13, <1>14, <1>15, <1>16, <1>17, EndpointIs DEF Loaded

-----------------------------------------------------------------------------
LEMMA SerialInitially ==
  ASSUME NEW s, Slot = {s}, RequestInit
  PROVE  SerialInv(s) /\ Workflow!Init
<1>1. inflight[s] = Idle /\ DOMAIN inflight = Slot /\ failures = 0
  BY DEF RequestInit
<1>2. inflight[s].phase # "writing"
  BY <1>1 DEF Idle
<1>3. Unwritten /\ RosterTold = roster
  BY <1>2, ToldNow DEF ToldIs
<1>4. Init
  BY DEF RequestInit
<1>5. Workflow!BoardInit
  BY <1>3, <1>4, SameRights DEF Init, BoardInit, Workflow!BoardInit, EmptyRoster,
     Workflow!EmptyRoster, SetLead, Workflow!SetLead
<1>6. Workflow!Init
  BY <1>3, <1>4, <1>5 DEF Init, Workflow!Init, Unwritten, OpeningRow, Workflow!OpeningRow,
     NoStatus, Workflow!NoStatus
<1> QED
  BY <1>1, <1>6 DEF SerialInv

LEMMA CountedForces ==
  ASSUME NEW h \in Seq(Edges)
  PROVE  Cardinality(Forced(h)) \in Nat
<1>1. Forced(h) \subseteq 1 .. Len(h) /\ Len(h) \in Nat
  BY DEF Forced
<1>2. IsFiniteSet(1 .. Len(h))
  BY <1>1, FS_Interval
<1> QED
  BY <1>1, <1>2, FS_Subset, FS_CardinalityType

LEMMA LoadSerial ==
  ASSUME NEW s, Slot = {s}, SerialInv(s), RequestInv, NEW u \in User, NEW ep \in Endpoint,
         Load(s, u, ep)
  PROVE  SerialInv(s)' /\ UNCHANGED Workflow!vars
<1> DEFINE q == [ phase |-> "loaded", ep |-> ep, by |-> u,
                  status |-> status, started |-> started, completed |-> completed ]
<1>1. /\ inflight[s] = Idle /\ inflight' = [inflight EXCEPT ![s] = q]
      /\ UNCHANGED <<history, status, started, completed, reason>>
      /\ UNCHANGED <<deadline, unmet, holders, open, roster, failures>>
  BY DEF Load, Put, vars, rowVars, planVars, boardVars
<1>2. inflight'[s] = q /\ DOMAIN inflight' = Slot /\ failures' = 0
  BY <1>1 DEF SerialInv
<1>3. Busy = {} /\ Forcing = {} /\ Cardinality({}) = 0
  BY <1>1, FS_EmptySet DEF Busy, Forcing
<1>4. Len(history) \in Nat /\ Cardinality(Forced(history)) \in Nat
  BY CountedForces DEF RequestInv
<1>5. /\ Room(Len(history), ep = "force" \/ Forced(history) # {})
      /\ ep = "force" => Cardinality(Forced(history)) < MaxForces
      /\ ep = "assign" => deadline
      /\ MayCall(u, ep) /\ status \in From[ep]
  <2>1. Len(history) + Cardinality(Busy) = Len(history)
    BY <1>3, <1>4
  <2>2. (ep = "force" \/ Forcing # {} \/ Forced(history) # {})
          = (ep = "force" \/ Forced(history) # {})
    BY <1>3
  <2>3. Room(Len(history), ep = "force" \/ Forced(history) # {})
    BY <2>1, <2>2 DEF Load
  <2>4. ep = "force" => Cardinality(Forced(history)) < MaxForces
    BY <1>3, <1>4 DEF Load
  <2> QED
    BY <2>3, <2>4 DEF Load
<1>6. SerialInv(s)'
  <2>1. Loaded(inflight[s])'
    BY <1>1, <1>2, <1>5 DEF Loaded
  <2>2. (inflight[s].by \in User /\ MayCall(inflight[s].by, inflight[s].ep))'
    BY <1>1, <1>2, <1>5 DEF MayCall
  <2>3. (inflight[s].phase = "loaded")'
    BY <1>2
  <2> QED
    BY <1>2, <2>1, <2>2, <2>3 DEF SerialInv
<1>7. inflight[s].phase # "writing" /\ inflight'[s].phase # "writing"
  BY <1>1, <1>2 DEF Idle
<1> QED
  BY <1>1, <1>6, <1>7, ToldNow DEF ToldIs, Unwritten, Workflow!vars, Workflow!boardVars,
     Workflow!rowVars, Workflow!planVars

LEMMA DecideSerial ==
  ASSUME NEW s, Slot = {s}, SerialInv(s), Decide(s)
  PROVE  SerialInv(s)' /\ UNCHANGED Workflow!vars
<1> DEFINE r == inflight[s]
<1>1. /\ r.phase = "loaded" /\ r.ep # "assign" /\ GatesPass(r)
      /\ UNCHANGED <<history, status, started, completed, reason>>
      /\ UNCHANGED <<deadline, unmet, holders, open, roster, failures>>
  BY DEF Decide, vars, rowVars, planVars, boardVars
<1>2. PICK to \in Targets(r) : inflight' = [inflight EXCEPT ![s] = Decided(r, to, EmptyRoster)]
  BY DEF Decide, Put
<1>3. Loaded(r) /\ r.by \in User /\ MayCall(r.by, r.ep)
  BY <1>1 DEF SerialInv, Idle
<1>4. DOMAIN inflight' = Slot /\ inflight'[s] = Decided(r, to, EmptyRoster) /\ failures' = 0
  BY <1>1, <1>2 DEF SerialInv
<1>5. /\ inflight'[s].phase = "writing" /\ inflight'[s].ep = r.ep
      /\ inflight'[s].status = r.status /\ inflight'[s].started = r.started
      /\ inflight'[s].completed = r.completed
      /\ inflight'[s].to = to /\ inflight'[s].pending = Full
      /\ {"phase", "pending", "ep", "to", "status", "started", "completed"}
            \subseteq DOMAIN inflight'[s]
  BY <1>4 DEF Decided, Full
<1>6. Loaded(inflight[s])'
  BY <1>1, <1>3, <1>5 DEF Loaded
<1>7. MayCall(r.by, inflight'[s].ep) /\ status' = status
  BY <1>1, <1>3, <1>5
<1>8. Promised(inflight[s])'
  <2> DEFINE u == r.by
  <2>1. PICK v \in User : v = r.by
    BY <1>3
  <2>2. MayCall(v, inflight[s].ep)'
    BY <1>1, <1>7, <2>1 DEF MayCall
  <2>3. (inflight[s].to \in Targets(inflight[s]))'
    BY <1>1, <1>2, <1>5 DEF Targets
  <2>4. GatesPass([ep |-> inflight[s].ep, by |-> v])'
    BY <1>1, <1>5, <2>1 DEF GatesPass, NeedsLead, Leads
  <2> QED
    BY <1>1, <1>5, <1>6, <2>2, <2>3, <2>4 DEF Promised
<1>9. SerialInv(s)'
  BY <1>4, <1>5, <1>8 DEF SerialInv
<1> QED
  BY <1>1, <1>5, <1>9, ToldNow DEF ToldIs, Unwritten, Workflow!vars, Workflow!boardVars,
     Workflow!rowVars, Workflow!planVars

LEMMA AssignSerial ==
  ASSUME NEW s, Slot = {s}, SerialInv(s), AssignRoster(s)
  PROVE  SerialInv(s)' /\ UNCHANGED Workflow!vars
<1> DEFINE r == inflight[s]
<1>1. /\ r.phase = "loaded" /\ r.ep = "assign"
      /\ inflight' = [inflight EXCEPT ![s] = Decided(r, "SCHEDULED", roster)]
      /\ UNCHANGED <<history, status, started, completed, reason>>
      /\ UNCHANGED <<deadline, unmet, holders, open, failures>>
  BY DEF AssignRoster, Put, rowVars, planVars
<1>2. \/ \E team \in SUBSET Assignable : \E l \in team : roster' = AssignTeam(roster, team, l)
      \/ \E l \in roster.active : roster' = SetLead(roster, l)
  BY DEF AssignRoster
<1>3. Loaded(r) /\ r.by \in User /\ MayCall(r.by, r.ep)
  BY <1>1 DEF SerialInv, Idle
<1>4. DOMAIN inflight' = Slot /\ inflight'[s] = Decided(r, "SCHEDULED", roster) /\ failures' = 0
  BY <1>1 DEF SerialInv
<1>5. /\ inflight'[s].phase = "writing" /\ inflight'[s].ep = "assign"
      /\ inflight'[s].status = r.status /\ inflight'[s].started = r.started
      /\ inflight'[s].completed = r.completed
      /\ inflight'[s].to = "SCHEDULED" /\ inflight'[s].pending = Full
      /\ inflight'[s].before = roster
      /\ {"phase", "pending", "ep", "to", "status", "started", "completed"}
            \subseteq DOMAIN inflight'[s]
  BY <1>1, <1>4 DEF Decided, Full
<1>6. Loaded(inflight[s])'
  BY <1>1, <1>3, <1>5 DEF Loaded
<1>7. TeamedFrom(inflight[s].before)'
  BY <1>1, <1>2, <1>5 DEF TeamedFrom, ReachableFrom, Assignable, Reachable
<1>8. Promised(inflight[s])'
  <2>1. PICK v \in User : v = r.by
    BY <1>3
  <2>2. MayCall(v, inflight[s].ep)'
    BY <1>1, <1>3, <1>5, <2>1 DEF MayCall
  <2> QED
    BY <1>5, <1>6, <1>7, <2>2 DEF Promised
<1>9. SerialInv(s)'
  BY <1>4, <1>5, <1>8 DEF SerialInv
<1> QED
  BY <1>1, <1>5, <1>9, ToldNow DEF ToldIs, Unwritten, Workflow!vars, Workflow!boardVars,
     Workflow!rowVars, Workflow!planVars

LEMMA RefuseSerial ==
  ASSUME NEW s, Slot = {s}, SerialInv(s), Refuse(s)
  PROVE  SerialInv(s)' /\ UNCHANGED Workflow!vars
<1>1. /\ inflight[s].phase = "loaded" /\ inflight' = [inflight EXCEPT ![s] = Idle]
      /\ UNCHANGED <<history, status, started, completed, reason>>
      /\ UNCHANGED <<deadline, unmet, holders, open, roster, failures>>
  BY DEF Refuse, Put, vars, rowVars, planVars, boardVars
<1>2. DOMAIN inflight' = Slot /\ inflight'[s] = Idle /\ failures' = 0
  BY <1>1 DEF SerialInv
<1>3. inflight'[s].phase # "writing"
  BY <1>2 DEF Idle
<1>4. SerialInv(s)'
  BY <1>2 DEF SerialInv
<1> QED
  BY <1>1, <1>3, <1>4, ToldNow DEF ToldIs, Unwritten, Workflow!vars, Workflow!boardVars,
     Workflow!rowVars, Workflow!planVars

\* What a write leaves of the one request.
LEMMA Rest ==
  ASSUME NEW s, Slot = {s}, SerialInv(s), NEW w, Writing(s, w), Put(s, After(inflight[s], w)),
         failures' = failures
  PROVE  /\ DOMAIN inflight' = Slot /\ failures' = 0 /\ w \in Full
         /\ inflight[s].phase = "writing"
         /\ inflight[s].pending = Full \/ inflight[s].pending = {w}
         /\ inflight[s].pending = {w} => inflight'[s] = Idle /\ inflight'[s].phase # "writing"
         /\ inflight[s].pending = Full =>
              /\ Promised(inflight[s])
              /\ inflight'[s].pending = Full \ {w} /\ inflight'[s].phase = "writing"
              /\ {"phase", "pending", "ep", "to", "status", "started", "completed"}
                    \subseteq DOMAIN inflight'[s]
              /\ inflight'[s].ep = inflight[s].ep /\ inflight'[s].to = inflight[s].to
              /\ inflight'[s].status = inflight[s].status
              /\ inflight'[s].started = inflight[s].started
              /\ inflight'[s].completed = inflight[s].completed
<1> DEFINE r == inflight[s]
           q == [r EXCEPT !.pending = @ \ {w}]
<1>1. /\ r.phase = "writing" /\ w \in r.pending
      /\ {"phase", "pending", "ep", "to", "status", "started", "completed"} \subseteq DOMAIN r
      /\ (r.pending = Full /\ Promised(r)) \/ r.pending = {"row"} \/ r.pending = {"history"}
  BY DEF SerialInv, Writing, Idle
<1>2. DOMAIN inflight' = Slot /\ inflight'[s] = After(r, w) /\ failures' = 0
  BY DEF Put, SerialInv
<1>3. w \in Full /\ Full # {w}
  BY <1>1 DEF Full
<1>4. r.pending = {w} => After(r, w) = Idle /\ Idle.phase # "writing"
  BY DEF After, Idle
<1>5. r.pending = Full => After(r, w) = q
  BY <1>3 DEF After
<1>6. /\ DOMAIN q = DOMAIN r
      /\ "pending" \in DOMAIN r => q.pending = r.pending \ {w}
      /\ \A f \in DOMAIN r : f # "pending" => q[f] = r[f]
  OBVIOUS
<1> HIDE DEF q
<1>7. r.pending = Full \/ r.pending = {w}
  BY <1>1
<1>8. ASSUME r.pending = Full
      PROVE  /\ Promised(r) /\ inflight'[s] = q /\ q.pending = Full \ {w}
             /\ q.phase = "writing"
             /\ {"phase", "pending", "ep", "to", "status", "started", "completed"} \subseteq DOMAIN q
             /\ q.ep = r.ep /\ q.to = r.to /\ q.status = r.status
             /\ q.started = r.started /\ q.completed = r.completed
  <2>1. Full # {"row"} /\ Full # {"history"}
    BY DEF Full
  <2>2. Promised(r) /\ inflight'[s] = q
    BY <1>1, <1>2, <1>5, <1>8, <2>1
  <2>3. q.pending = Full \ {w} /\ DOMAIN q = DOMAIN r
    BY <1>1, <1>6, <1>8
  <2>4. /\ q.phase = r.phase /\ q.ep = r.ep /\ q.to = r.to /\ q.status = r.status
        /\ q.started = r.started /\ q.completed = r.completed
    BY <1>1, <1>6
  <2> QED
    BY <1>1, <2>2, <2>3, <2>4
<1> QED
  BY <1>1, <1>2, <1>3, <1>4, <1>7, <1>8

LEMMA WriteSerial ==
  ASSUME NEW s, Slot = {s}, SerialInv(s), WriteRow(s) \/ WriteHistory(s)
  PROVE  SerialInv(s)' /\ (Workflow!Next \/ UNCHANGED Workflow!vars)
<1> DEFINE r == inflight[s]
<1>0. /\ UNCHANGED <<deadline, unmet, holders, open, roster, failures>>
  BY DEF WriteRow, WriteHistory, planVars, boardVars
<1>1. CASE WriteRow(s) /\ r.pending = Full
  <2>1. /\ Writing(s, "row") /\ Put(s, After(r, "row")) /\ status' = r.to /\ history' = history
        /\ started' = StampStarted(started, r.started, r.to)
        /\ completed' = StampCompleted(completed, r.completed, r.to)
        /\ reason' = ReasonAfter(r, reason)
    BY <1>1 DEF WriteRow
  <2>2. /\ DOMAIN inflight' = Slot /\ failures' = 0 /\ r.phase = "writing" /\ Promised(r)
        /\ inflight'[s].pending = {"history"} /\ inflight'[s].phase = "writing"
        /\ {"phase", "pending", "ep", "to", "status", "started", "completed"}
              \subseteq DOMAIN inflight'[s]
        /\ inflight'[s].ep = r.ep /\ inflight'[s].to = r.to /\ inflight'[s].status = r.status
    <3>1. Full \ {"row"} = {"history"}
      BY DEF Full
    <3> QED
      BY <1>0, <1>1, <2>1, <3>1, Rest
  <2>3. SerialInv(s)'
    BY <2>2 DEF SerialInv
  <2>4. RowOf(inflight'[s]) = RowOf(r)
    BY <2>2 DEF RowOf
  <2>5. Unwritten /\ RosterTold = IF r.ep = "assign" THEN r.before ELSE roster
    BY <1>1, <2>2, ToldNow DEF ToldIs
  <2>6. RowWritten(s)' /\ RosterTold' = roster'
    BY <2>2, ToldNow DEF ToldIs
  <2>7. r.started = started /\ r.completed = completed
    BY <2>2 DEF Promised, Loaded
  <2>8. /\ HistoryTold' = Append(history, RowOf(r)) /\ StatusTold' = r.to
        /\ StartedTold' = StampStarted(started, started, r.to)
        /\ CompletedTold' = StampCompleted(completed, completed, r.to)
        /\ ReasonTold' = ReasonAfter(r, reason) /\ RosterTold' = roster
        /\ UNCHANGED <<planVars, holders, open, roster>>
    BY <1>0, <2>1, <2>4, <2>6, <2>7 DEF RowWritten, planVars
  <2> HIDE DEF r
  <2>9. Workflow!Next
    BY <2>2, <2>5, <2>8, FirstWrite
  <2> QED
    BY <2>3, <2>9
<1>2. CASE WriteHistory(s) /\ r.pending = Full
  <2>1. /\ Writing(s, "history") /\ Put(s, After(r, "history"))
        /\ history' = Append(history, RowOf(r))
        /\ UNCHANGED <<status, started, completed, reason>>
    BY <1>2 DEF WriteHistory
  <2>2. /\ DOMAIN inflight' = Slot /\ failures' = 0 /\ r.phase = "writing" /\ Promised(r)
        /\ inflight'[s].pending = {"row"} /\ inflight'[s].phase = "writing"
        /\ {"phase", "pending", "ep", "to", "status", "started", "completed"}
              \subseteq DOMAIN inflight'[s]
        /\ inflight'[s].ep = r.ep /\ inflight'[s].to = r.to
        /\ inflight'[s].started = r.started /\ inflight'[s].completed = r.completed
    <3>1. Full \ {"history"} = {"row"}
      BY DEF Full
    <3> QED
      BY <1>0, <1>2, <2>1, <3>1, Rest
  <2>3. r.started = started /\ r.completed = completed
    BY <2>2 DEF Promised, Loaded
  <2>4. SerialInv(s)'
    BY <2>1, <2>2, <2>3 DEF SerialInv
  <2>5. Unwritten /\ RosterTold = IF r.ep = "assign" THEN r.before ELSE roster
    BY <1>2, <2>2, ToldNow DEF ToldIs
  <2>6. HistoryWritten(s)' /\ RosterTold' = roster'
    BY <2>2, ToldNow DEF ToldIs
  <2>7. ReasonAfter(inflight'[s], reason) = ReasonAfter(r, reason)
    BY <2>2 DEF ReasonAfter
  <2>8. /\ HistoryTold' = Append(history, RowOf(r)) /\ StatusTold' = r.to
        /\ StartedTold' = StampStarted(started, started, r.to)
        /\ CompletedTold' = StampCompleted(completed, completed, r.to)
        /\ ReasonTold' = ReasonAfter(r, reason) /\ RosterTold' = roster
        /\ UNCHANGED <<planVars, holders, open, roster>>
    BY <1>0, <2>1, <2>2, <2>6, <2>7 DEF HistoryWritten, planVars
  <2> HIDE DEF r
  <2>9. Workflow!Next
    BY <2>2, <2>5, <2>8, FirstWrite
  <2> QED
    BY <2>4, <2>9
<1>3. CASE WriteRow(s) /\ r.pending # Full
  <2>1. /\ Writing(s, "row") /\ Put(s, After(r, "row")) /\ status' = r.to /\ history' = history
        /\ started' = StampStarted(started, r.started, r.to)
        /\ completed' = StampCompleted(completed, r.completed, r.to)
        /\ reason' = ReasonAfter(r, reason)
    BY <1>3 DEF WriteRow
  <2>2. /\ DOMAIN inflight' = Slot /\ failures' = 0 /\ r.phase = "writing" /\ r.pending = {"row"}
        /\ inflight'[s] = Idle /\ inflight'[s].phase # "writing"
    BY <1>0, <1>3, <2>1, Rest
  <2>3. r.started = started /\ r.completed = completed
    BY <1>3, <2>2 DEF SerialInv, Idle
  <2>4. HistoryWritten(s) /\ RosterTold = roster /\ Unwritten' /\ RosterTold' = roster'
    BY <2>2, ToldNow DEF ToldIs
  <2>5. UNCHANGED Workflow!vars
    BY <1>0, <2>1, <2>3, <2>4 DEF HistoryWritten, Unwritten, Workflow!vars, Workflow!boardVars,
       Workflow!rowVars, Workflow!planVars
  <2> QED
    BY <2>2, <2>5 DEF SerialInv
<1>4. CASE WriteHistory(s) /\ r.pending # Full
  <2>1. /\ Writing(s, "history") /\ Put(s, After(r, "history"))
        /\ history' = Append(history, RowOf(r))
        /\ UNCHANGED <<status, started, completed, reason>>
    BY <1>4 DEF WriteHistory
  <2>2. /\ DOMAIN inflight' = Slot /\ failures' = 0 /\ r.phase = "writing"
        /\ r.pending = {"history"} /\ inflight'[s] = Idle /\ inflight'[s].phase # "writing"
    BY <1>0, <1>4, <2>1, Rest
  <2>3. RowWritten(s) /\ RosterTold = roster /\ Unwritten' /\ RosterTold' = roster'
    BY <2>2, ToldNow DEF ToldIs
  <2>4. UNCHANGED Workflow!vars
    BY <1>0, <2>1, <2>3 DEF RowWritten, Unwritten, Workflow!vars, Workflow!boardVars,
       Workflow!rowVars, Workflow!planVars
  <2> QED
    BY <2>2, <2>4 DEF SerialInv
<1> QED
  BY <1>1, <1>2, <1>3, <1>4

-----------------------------------------------------------------------------
\* A step of the board is one of TicketWorkflow's, the roster told as it is.
LEMMA SameBoardSteps ==
  ASSUME RosterTold = roster, RosterTold' = roster'
  PROVE  BoardNext => Workflow!BoardNext
<1>1. \A r, h : Workflow!SyncFromTasks(r, h) = SyncFromTasks(r, h)
  <2>1. \A r : Workflow!ActiveLeads(r) = ActiveLeads(r)
    BY SameColumns
  <2>2. \A r, h : Workflow!Reconciled(r, h) = Reconciled(r, h)
    BY <2>1 DEF Reconciled, Workflow!Reconciled
  <2>3. \A r, d : Workflow!SetLead(r, d) = SetLead(r, d)
    BY SameColumns
  <2> QED
    BY <2>1, <2>2, <2>3 DEF SyncFromTasks, Workflow!SyncFromTasks
<1>2. Workflow!Reachable = Reachable /\ Workflow!Assignable = Assignable
  BY SameRights DEF Reachable, Workflow!Reachable, Assignable, Workflow!Assignable
<1>3. Sync => Workflow!Sync
  BY <1>1 DEF Sync, Workflow!Sync
<1>4. \A d : Workflow!Without(d) = Without(d)
  BY DEF Without, Workflow!Without
<1>5. \A u, d : CreateTask(u, d) => Workflow!CreateTask(u, d)
  BY <1>2, <1>3, SameRights DEF CreateTask, Workflow!CreateTask
<1>6. \A u, d : RemoveTask(u, d) => Workflow!RemoveTask(u, d)
  BY <1>3, <1>4, SameRights DEF RemoveTask, Workflow!RemoveTask
<1>7. \A u, d, e : ReassignTask(u, d, e) => Workflow!ReassignTask(u, d, e)
  BY <1>2, <1>3, <1>4, SameRights DEF ReassignTask, Workflow!ReassignTask
<1>8. \A u : SetTaskStatus(u) => Workflow!SetTaskStatus(u)
  BY SameRights DEF SetTaskStatus, Workflow!SetTaskStatus
<1>9. \A u, d : AddToRoster(u, d) => Workflow!AddToRoster(u, d)
  <2>1. \A r, d : Workflow!AddAssignee(r, d) = AddAssignee(r, d)
    BY SameColumns DEF AddAssignee, Workflow!AddAssignee
  <2> QED
    BY <1>2, <2>1, SameRights DEF AddToRoster, Workflow!AddToRoster
<1>10. \A u, d : RemoveFromRoster(u, d) => Workflow!RemoveFromRoster(u, d)
  <2>1. \A r, d : Workflow!RemoveAssignee(r, d) = RemoveAssignee(r, d)
    BY DEF RemoveAssignee, Workflow!RemoveAssignee
  <2> QED
    BY <2>1, SameRights DEF RemoveFromRoster, Workflow!RemoveFromRoster
<1>11. \A u, d : HandOverLead(u, d) => Workflow!HandOverLead(u, d)
  BY <1>2, SameColumns, SameRights DEF HandOverLead, Workflow!HandOverLead
<1> QED
  BY <1>5, <1>6, <1>7, <1>8, <1>9, <1>10, <1>11 DEF BoardNext, Workflow!BoardNext

\* While no request is in flight nothing is told but what is there, and what
\* moves the surroundings moves them for TicketWorkflow as well.
LEMMA SurroundingsSerial ==
  ASSUME NEW s, Slot = {s}, SerialInv(s), Quiet, Surroundings
  PROVE  SerialInv(s)' /\ Workflow!Next
<1>1. inflight[s] = Idle /\ inflight' = inflight /\ failures' = failures
  BY DEF Quiet, Busy, Surroundings, requestVars
<1>2. inflight[s].phase # "writing" /\ inflight'[s].phase # "writing"
  BY <1>1 DEF Idle
<1>3. SerialInv(s)'
  BY <1>1 DEF SerialInv
<1>4. Unwritten /\ RosterTold = roster /\ Unwritten' /\ RosterTold' = roster'
  BY <1>2, ToldNow DEF ToldIs
<1>5. CASE \E u \in User : UpdatePlan(u)
  <2>1. PICK u \in User : UpdatePlan(u)
    BY <1>5
  <2>2. Workflow!PlanLocked = PlanLocked
    BY DEF Workflow!PlanLocked, PlanLocked
  <2>3. UNCHANGED <<rowVars, boardVars, unmet>> /\ deadline' \in BOOLEAN
    BY <2>1 DEF UpdatePlan
  <2>4. UNCHANGED Workflow!rowVars /\ UNCHANGED Workflow!boardVars
    BY <1>4, <2>3 DEF Unwritten, Workflow!rowVars, Workflow!boardVars, rowVars, boardVars
  <2>5. Workflow!Can(u, "ticket:assign") /\ StatusTold \notin Workflow!PlanLocked
    BY <1>4, <2>1, <2>2, SameRights DEF UpdatePlan, TakesPlan, Unwritten
  <2>6. Workflow!UpdatePlan(u)
    BY <2>3, <2>4, <2>5 DEF Workflow!UpdatePlan, Workflow!TakesPlan
  <2> QED
    BY <1>3, <2>6 DEF Workflow!Next
<1>6. CASE PrerequisitesMove
  <2>1. UNCHANGED Workflow!rowVars /\ UNCHANGED Workflow!boardVars
    BY <1>4, <1>6
       DEF PrerequisitesMove, Unwritten, Workflow!rowVars, Workflow!boardVars, rowVars, boardVars
  <2>2. Workflow!PrerequisitesMove
    BY <1>6, <2>1 DEF PrerequisitesMove, Workflow!PrerequisitesMove
  <2> QED
    BY <1>3, <2>2 DEF Workflow!Next
<1>7. CASE BoardStep
  <2>1. UNCHANGED Workflow!rowVars /\ UNCHANGED Workflow!planVars
    BY <1>4, <1>7 DEF BoardStep, Unwritten, Workflow!rowVars, Workflow!planVars, rowVars, planVars
  <2>2. BoardNext => Workflow!BoardNext
    BY <1>4, SameBoardSteps
  <2>3. Workflow!BoardStep
    BY <1>7, <2>1, <2>2 DEF BoardStep, Workflow!BoardStep
  <2> QED
    BY <1>3, <2>3 DEF Workflow!Next
<1> QED
  BY <1>3, <1>5, <1>6, <1>7 DEF Surroundings

LEMMA StutterSerial ==
  ASSUME NEW s, Slot = {s}, SerialInv(s), UNCHANGED allVars
  PROVE  SerialInv(s)' /\ UNCHANGED Workflow!vars
<1>1. /\ inflight' = inflight /\ failures' = failures /\ status' = status
      /\ history' = history /\ started' = started /\ completed' = completed
      /\ reason' = reason /\ deadline' = deadline /\ unmet' = unmet
      /\ holders' = holders /\ open' = open /\ roster' = roster
  BY DEF allVars, requestVars, vars, rowVars, planVars, boardVars
<1>2. /\ HistoryTold' = HistoryTold /\ StatusTold' = StatusTold
      /\ StartedTold' = StartedTold /\ CompletedTold' = CompletedTold
      /\ ReasonTold' = ReasonTold /\ RosterTold' = RosterTold
  BY <1>1 DEF HistoryTold, StatusTold, StartedTold, CompletedTold, ReasonTold, RosterTold,
              Owed, Committed, Uncommitted, Busy, The, ReasonAfter, RowOf,
              StampStarted, StampCompleted
<1>3. UNCHANGED Workflow!vars
  BY <1>1, <1>2 DEF Workflow!vars, Workflow!rowVars, Workflow!planVars, Workflow!boardVars
<1>4. SerialInv(s)'
  <2>1. \A r : Loaded(r)' <=> Loaded(r)
    BY <1>1 DEF Loaded
  <2>2. \A u, ep : MayCall(u, ep)' <=> MayCall(u, ep)
    BY <1>1 DEF MayCall
  <2>3. /\ \A r : Targets(r)' = Targets(r)
        /\ \A r : GatesPass(r)' <=> GatesPass(r)
        /\ \A r : TeamedFrom(r)' <=> TeamedFrom(r)
    BY <1>1 DEF Targets, GatesPass, Leads, TeamedFrom, ReachableFrom
  <2>4. \A r : Promised(r)' <=> Promised(r)
    BY <2>1, <2>2, <2>3 DEF Promised
  <2> QED
    BY <1>1, <2>1, <2>2, <2>4 DEF SerialInv
<1> QED
  BY <1>3, <1>4

LEMMA SerialStep ==
  ASSUME NEW s, Slot = {s}, MaxFailures = 0, SerialInv(s), RequestInv, [SerialNext]_allVars
  PROVE  SerialInv(s)' /\ [Workflow!Next]_Workflow!vars
<1>1. CASE RequestStep
  <2>1. failures = 0
    BY DEF SerialInv
  <2>2. ~Crash /\ \A w : ~FailWrite(s, w)
    BY <2>1 DEF Crash, FailWrite
  <2>3. \/ \E u \in User, ep \in Endpoint : Load(s, u, ep)
        \/ Decide(s) \/ AssignRoster(s) \/ Refuse(s)
        \/ WriteRow(s) \/ WriteHistory(s)
    BY <1>1, <2>2 DEF RequestStep
  <2> QED
    BY <2>3, LoadSerial, DecideSerial, AssignSerial, RefuseSerial, WriteSerial
<1>2. CASE Quiet /\ Surroundings
  BY <1>2, SurroundingsSerial
<1>3. CASE UNCHANGED allVars
  BY <1>3, StutterSerial
<1> QED
  BY <1>1, <1>2, <1>3 DEF SerialNext

(***************************************************************************)
(* A server that answers one request at a time and loses no write runs     *)
(* TicketWorkflow: what its properties say of whole handlers holds of the  *)
(* statements they are made of.                                            *)
(***************************************************************************)
THEOREM OneAtATime ==
  ASSUME NEW s, Slot = {s}, MaxFailures = 0
  PROVE  SerialSpec => ImplementsWorkflow
<1>1. RequestInit => SerialInv(s) /\ RequestInv /\ Workflow!Init
  BY SerialInitially, RequestInitially
<1>2. SerialInv(s) /\ RequestInv /\ [SerialNext]_allVars
        => SerialInv(s)' /\ RequestInv' /\ [Workflow!Next]_Workflow!vars
  BY SerialStep, RequestNextKeeps DEF SerialNext, RequestNext
<1> QED
  BY <1>1, <1>2, PTL DEF SerialSpec, ImplementsWorkflow, Workflow!Spec

=============================================================================
