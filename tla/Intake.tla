------------------------------- MODULE Intake -------------------------------
(***************************************************************************)
(* A meeting, the lines of its minutes and the requirements captured off   *)
(* them (meetings/meetings.service.ts), over the backlog and its files.    *)
(* Attendees, the systems a meeting covered and the wording of a line are  *)
(* left out.                                                               *)
(***************************************************************************)
EXTENDS Backlog

CONSTANT MaxPoints  \* bound on the lines, and on the position asked for

ASSUME MaxPointsAssumption == MaxPoints \in Nat

VARIABLES meeting,  \* the Meeting row
          points    \* MeetingPoint rows, numbered as created

meetingVars == <<meeting, points>>
vars == <<rowVars, fileVars, inflight, overlapped, meetingVars>>

MeetingStatus == { "SCHEDULED", "HELD", "CANCELLED" }

IntakeInit ==
  /\ requirements = <<>> /\ moves = <<>> /\ tickets = <<>>
  /\ files = EmptyBag /\ disk = {}
  /\ inflight = [s \in Slot |-> Idle]
  /\ overlapped = FALSE
  /\ meeting = [status |-> "SCHEDULED", archived |-> FALSE]
  /\ points = <<>>

\* assertEditable
OpenMinutes == ~meeting.archived /\ meeting.status # "CANCELLED"

-----------------------------------------------------------------------------
LoadMoveAny(s, to) ==  \* mutant: a held meeting may still be cancelled
  /\ ~meeting.archived /\ meeting.status # to
  /\ Start(s, [op |-> "meet", seen |-> meeting, to |-> to])

\* hold and cancel leave SCHEDULED only.
LoadMove(s, to) ==
  /\ ~meeting.archived /\ meeting.status = "SCHEDULED"
  /\ Start(s, [op |-> "meet", seen |-> meeting, to |-> to])

LoadShelve(s) == Start(s, [op |-> "shelve", seen |-> meeting])

\* The line and its meeting, as a handler finds them.
Minutes == <<meeting, points>>

\* The position after the last, whatever the number of lines.
Bottom == IF points = <<>> THEN 0
          ELSE 1 + CHOOSE o \in { points[p].order : p \in DOMAIN points } :
                     \A p \in DOMAIN points : points[p].order <= o

LoadAdd(s) ==
  /\ OpenMinutes /\ Bottom < MaxPoints
  /\ Start(s, [op |-> "add", seen |-> Minutes, order |-> Bottom])

\* All the siblings are read, and all get the place the move gives them.
LoadReorder(s, p, target) ==
  /\ OpenMinutes
  /\ Start(s, [op |-> "reorder", seen |-> Minutes, point |-> p,
               list |-> MovedTo(points, p, target)])

LoadRemove(s, p) ==
  /\ OpenMinutes
  /\ Start(s, [op |-> "remove", seen |-> Minutes, point |-> p])

\* Capture asks only whether the meeting is archived.
LoadCapture(s, p, pin) ==
  /\ ~meeting.archived
  /\ Start(s, [op |-> "capture", seen |-> Minutes, point |-> p, pin |-> pin])

LoadMeeting(s) ==
  /\ \/ \E to \in { "HELD", "CANCELLED" } : LoadMove(s, to)
     \/ LoadShelve(s)
     \/ LoadAdd(s)
     \/ \E p \in DOMAIN points :
          \/ \E target \in 0 .. MaxPoints : LoadReorder(s, p, target)
          \/ LoadRemove(s, p)
          \/ \E pin \in Pin : LoadCapture(s, p, pin)
  /\ UNCHANGED <<rowVars, fileVars, overlapped, meetingVars>>

-----------------------------------------------------------------------------
MoveMeeting(s) ==
  /\ Is(s, "meet")
  /\ meeting' = [meeting EXCEPT !.status = inflight[s].to]
  /\ Finish(s) /\ Noting(inflight[s].seen, meeting)
  /\ UNCHANGED <<rowVars, fileVars, points>>

\* archive and unarchive
Shelve(s) ==
  /\ Is(s, "shelve")
  /\ meeting' = [meeting EXCEPT !.archived = ~inflight[s].seen.archived]
  /\ Finish(s) /\ Noting(inflight[s].seen, meeting)
  /\ UNCHANGED <<rowVars, fileVars, points>>

Unmentioned(p) ==
  \A s \in Slot : "point" \in DOMAIN inflight[s] => inflight[s].point # p

NotedMinutes(s) == Finish(s) /\ Noting(inflight[s].seen, Minutes)

AddPoint(s) ==
  /\ Is(s, "add")
  /\ \E p \in 1 .. MaxPoints :
       /\ \A q \in DOMAIN points : q < p
       /\ Unmentioned(p)
       /\ points' = Inserted(points, p, [order |-> inflight[s].order])
  /\ NotedMinutes(s)
  /\ UNCHANGED <<rowVars, fileVars, meeting>>

\* One transaction of an update per line read: a line gone since fails it.
ReorderPoints(s) ==
  LET list == inflight[s].list IN
  /\ Is(s, "reorder")
  /\ DOMAIN list \subseteq DOMAIN points
  /\ points' = [p \in DOMAIN points |-> IF p \in DOMAIN list THEN list[p] ELSE points[p]]
  /\ NotedMinutes(s)
  /\ UNCHANGED <<rowVars, fileVars, meeting>>

Unlinked(p) ==
  [r \in DOMAIN requirements |->
     [requirements[r] EXCEPT !.point = IF @ = p THEN 0 ELSE @]]

RemovePointGap(s) ==  \* mutant: the lines below keep their positions
  LET p == inflight[s].point IN
  /\ Is(s, "remove") /\ p \in DOMAIN points
  /\ requirements' = Unlinked(p)
  /\ points' = [q \in DOMAIN points \ {p} |-> points[q]]
  /\ NotedMinutes(s)
  /\ UNCHANGED <<moves, tickets, fileVars, meeting>>

\* The requirements captured off a line outlive it, unlinked.
RemovePoint(s) ==
  LET p == inflight[s].point IN
  /\ Is(s, "remove") /\ p \in DOMAIN points
  /\ requirements' = Unlinked(p)
  /\ points' = Rebalanced([q \in DOMAIN points \ {p} |-> points[q]])
  /\ NotedMinutes(s)
  /\ UNCHANGED <<moves, tickets, fileVars, meeting>>

\* The foreign key refuses a line that is gone.
CapturePoint(s) ==
  LET q == inflight[s]
      r == Next1(requirements) IN
  /\ Is(s, "capture") /\ q.point \in DOMAIN points
  /\ Opened([status |-> "NEW", archived |-> FALSE, system |-> q.pin, point |-> q.point])
  /\ files' = files (+) Rows(OfRequirement(r), Held(Meeting))
  /\ NotedMinutes(s)
  /\ UNCHANGED <<tickets, disk, meetingVars>>

WriteMeeting(s) ==
  \/ MoveMeeting(s) \/ Shelve(s)
  \/ AddPoint(s) \/ ReorderPoints(s) \/ RemovePoint(s) \/ CapturePoint(s)

\* A statement fails, or the server stops: what is left is not done.
Drop(s) ==
  /\ inflight[s] # Idle
  /\ Finish(s)
  /\ UNCHANGED <<rowVars, fileVars, overlapped, meetingVars>>

BacklogStep(s) ==
  /\ \/ \E pin \in Pin : Create(pin)
     \/ LoadRequirement(s) \/ WriteRequirement(s)
     \/ FileStep(s)
  /\ UNCHANGED meetingVars

IntakeNext ==
  \E s \in Slot : BacklogStep(s) \/ LoadMeeting(s) \/ WriteMeeting(s) \/ Drop(s)

IntakeSpec == IntakeInit /\ [][IntakeNext]_vars

-----------------------------------------------------------------------------
IntakeTypeOK ==
  /\ DOMAIN requirements = 1 .. Cardinality(DOMAIN requirements)
  /\ \A r \in DOMAIN requirements :
       requirements[r] \in Requirement /\ moves[r] \in Seq(Move) /\ moves[r] # <<>>
  /\ DOMAIN moves = DOMAIN requirements
  /\ \A t \in DOMAIN tickets : tickets[t] \in Ticket
  /\ IsABag(files) /\ disk \subseteq Url
  /\ meeting \in [status : MeetingStatus, archived : BOOLEAN]
  /\ \A p \in DOMAIN points : points[p].order \in 0 .. MaxPoints

Conversions(r) == { i \in DOMAIN moves[r] : moves[r][i].to = "CONVERTED" }

TicketsOf(r) == { t \in DOMAIN tickets : tickets[t].requirement = r }

(***************************************************************************)
(* However requests overlap and fail, the rows are well formed and tell    *)
(* one story: the newest history row is the status, there is one ticket to *)
(* each conversion, no requirement points at a line that is gone           *)
(* ("captured requirements survive, unlinked", GUIDE.md), and no owner has *)
(* a file twice ("same file, one row", attachment-clone.ts).               *)
(***************************************************************************)
RecordsAgree ==
  /\ IntakeTypeOK
  /\ \A r \in DOMAIN requirements :
       /\ moves[r][Len(moves[r])].to = requirements[r].status
       /\ Cardinality(TicketsOf(r)) = Cardinality(Conversions(r))
       /\ requirements[r].point \in DOMAIN points \cup {0}
  /\ \A f \in BagToSet(files) : files[f] = 1

(***************************************************************************)
(* While no write was decided from a row that had changed: CONVERTED is    *)
(* terminal and its tickets stay on the requirement's system ("rewriting   *)
(* the ask afterwards would make the two disagree"), each history row      *)
(* starts where the one before it ended, and the lines are contiguous.     *)
(***************************************************************************)
UndisturbedIntake ==
  ~overlapped =>
    /\ \A t \in DOMAIN tickets :
         LET r == requirements[tickets[t].requirement]
         IN  r.status = "CONVERTED" /\ r.system = tickets[t].system
    /\ \A r \in DOMAIN moves : \A i \in 2 .. Len(moves[r]) :
         moves[r][i].from = moves[r][i - 1].to
    /\ Contiguous(points)

(***************************************************************************)
(* And then "a meeting that already happened cannot un-happen": once held  *)
(* or cancelled it stays so, and the minutes of an archived or cancelled   *)
(* one are a record.                                                       *)
(***************************************************************************)
UndisturbedMeeting ==
  [][ ~overlapped' =>
        /\ meeting.status # "SCHEDULED" => meeting'.status = meeting.status
        /\ ~OpenMinutes => UNCHANGED points ]_vars

=============================================================================
