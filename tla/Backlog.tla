------------------------------ MODULE Backlog -------------------------------
(***************************************************************************)
(* The requirements backlog (requirements/requirements.service.ts) and the *)
(* files that follow a requirement onto its tickets (attachments/).  A     *)
(* handler loads the row, decides from that copy and then writes, so every *)
(* request here is a load and, later, a write; those that overlap may have *)
(* decided from a row that is gone.  The writes of one $transaction are    *)
(* one step: each begins by locking what the next one would change.        *)
(*                                                                         *)
(* Whoever may call one of these handlers may call them all (leadership),  *)
(* so a request carries no user.  Source, priority, owner, wording and     *)
(* dates are left out: no property tells them apart.                       *)
(***************************************************************************)
EXTENDS TaskOrder, Sequences, Bags

CONSTANTS Slot,             \* the requests that may be in flight together
          System,           \* the systems the callers may file against
          Url,              \* uploaded files, each sent once
          None,             \* no system
          MaxRequirements, MaxTickets,  \* bounds on the rows
          MaxMoves          \* bound on the length of a status history

ASSUME BacklogAssumption ==
  /\ None \notin System
  /\ MaxRequirements \in Nat /\ MaxTickets \in Nat /\ MaxMoves \in Nat

VARIABLES requirements,  \* Requirement rows, numbered as created
          moves,         \* RequirementStatusHistory, per requirement
          tickets,       \* the tickets promoted, each with its requirement and system
          files,         \* TicketAttachment rows, a bag: which owner holds which file
          disk,          \* the files in the upload directory
          inflight,      \* what each request has loaded and means to write
          overlapped     \* history variable: some write was decided from a row
                         \* that had changed since

rowVars == <<requirements, moves, tickets>>
fileVars == <<files, disk>>

RequirementStatus == { "NEW", "UNDER_REVIEW", "ACCEPTED", "CONVERTED", "DECLINED" }

Pin == System \cup {None}

\* point is the minutes line it was captured from, 0 for none.
Requirement == [ status : RequirementStatus, archived : BOOLEAN, system : Pin, point : Nat ]

Ticket == [ requirement : 1 .. MaxRequirements, system : System ]

Move == [ from : RequirementStatus \cup {"none"}, to : RequirementStatus ]

\* What an attachment row may hang off.
Meeting == [ kind |-> "meeting", id |-> 0 ]
OfRequirement(r) == [ kind |-> "requirement", id |-> r ]
OfTicket(t) == [ kind |-> "ticket", id |-> t ]

Held(owner) == { f.url : f \in { g \in BagToSet(files) : g.owner = owner } }

Rows(owner, urls) == SetToBag([ owner : {owner}, url : urls ])

Idle == [op |-> "idle"]

Start(s, request) ==
  /\ inflight[s] = Idle
  /\ inflight' = [inflight EXCEPT ![s] = request]

Finish(s) == inflight' = [inflight EXCEPT ![s] = Idle]

\* The request wrote on the strength of what it had seen.
Noting(seen, now) == overlapped' = (overlapped \/ seen # now)

-----------------------------------------------------------------------------
Next1(list) == Cardinality(DOMAIN list) + 1

\* The rows with one more.
Inserted(rows, id, row) == [i \in DOMAIN rows \cup {id} |-> IF i = id THEN row ELSE rows[i]]

Opened(row) ==
  /\ Next1(requirements) <= MaxRequirements
  /\ requirements' = Inserted(requirements, Next1(requirements), row)
  /\ moves' = Inserted(moves, Next1(requirements), <<[from |-> "none", to |-> "NEW"]>>)

\* POST /requirements: an ask that was not made in a meeting.
Create(pin) ==
  /\ Opened([status |-> "NEW", archived |-> FALSE, system |-> pin, point |-> 0])
  /\ UNCHANGED <<tickets, fileVars, inflight, overlapped>>

EditableIfOpen(row) == ~row.archived  \* mutant: a converted one may be edited

\* assertEditable: "a converted requirement is history".
Editable(row) == ~row.archived /\ row.status # "CONVERTED"

\* PATCH, as far as it pins, re-pins or unpins the system.
LoadTriage(s, r, pin) ==
  /\ Editable(requirements[r])
  /\ Start(s, [op |-> "triage", of |-> r, row |-> requirements[r], to |-> pin])

LoadStatusAny(s, r, to) ==  \* mutant: a converted requirement may be moved on
  /\ ~requirements[r].archived
  /\ to \notin { "CONVERTED", requirements[r].status }
  /\ Start(s, [op |-> "status", of |-> r, row |-> requirements[r], to |-> to])

\* "CONVERTED is refused here", as a target and as a status to leave.
LoadStatus(s, r, to) ==
  /\ Editable(requirements[r])
  /\ to \notin { "CONVERTED", requirements[r].status }
  /\ Start(s, [op |-> "status", of |-> r, row |-> requirements[r], to |-> to])

LoadPromoteUnassigned(s, r) ==  \* mutant: "Needs system" is not asked
  /\ ~requirements[r].archived /\ requirements[r].status # "DECLINED"
  /\ Start(s, [op |-> "promote", of |-> r, row |-> requirements[r]])

\* One requirement may produce several tickets: CONVERTED is not refused.
LoadPromote(s, r) ==
  /\ ~requirements[r].archived
  /\ requirements[r].status # "DECLINED" /\ requirements[r].system # None
  /\ Start(s, [op |-> "promote", of |-> r, row |-> requirements[r]])

LoadArchive(s, r) ==
  Start(s, [op |-> "archive", of |-> r, row |-> requirements[r]])

LoadRequirement(s) ==
  /\ \E r \in DOMAIN requirements :
       \/ \E pin \in Pin : LoadTriage(s, r, pin)
       \/ \E to \in RequirementStatus : LoadStatus(s, r, to)
       \/ LoadPromote(s, r)
       \/ LoadArchive(s, r)
  /\ UNCHANGED <<rowVars, fileVars, overlapped>>

-----------------------------------------------------------------------------
Is(s, op) == inflight[s].op = op

\* The part all writes to a loaded requirement share.
Settle(s) == Finish(s) /\ Noting(inflight[s].row, requirements[inflight[s].of])

Triage(s) ==
  LET q == inflight[s] IN
  /\ Is(s, "triage")
  /\ requirements' = [requirements EXCEPT ![q.of].system = q.to]
  /\ Settle(s)
  /\ UNCHANGED <<moves, tickets, fileVars>>

\* A status and its history row, in one transaction; from is what was loaded.
MovedUnrecorded(q, to) ==  \* mutant: the row moves, the history does not
  /\ requirements' = [requirements EXCEPT ![q.of].status = to]
  /\ UNCHANGED moves

Moved(q, to) ==
  /\ Len(moves[q.of]) < MaxMoves
  /\ requirements' = [requirements EXCEPT ![q.of].status = to]
  /\ moves' = [moves EXCEPT ![q.of] = Append(@, [from |-> q.row.status, to |-> to])]

ChangeStatus(s) ==
  /\ Is(s, "status")
  /\ Moved(inflight[s], inflight[s].to)
  /\ Settle(s)
  /\ UNCHANGED <<tickets, fileVars>>

\* The ticket, at DRAFT, with what the requirement holds on file by now.
Promote(s) ==
  LET q == inflight[s]
      t == Next1(tickets) IN
  /\ Is(s, "promote")
  /\ t <= MaxTickets
  /\ tickets' = Inserted(tickets, t, [requirement |-> q.of, system |-> q.row.system])
  /\ files' = files (+) Rows(OfTicket(t), Held(OfRequirement(q.of)))
  /\ Moved(q, "CONVERTED")
  /\ Settle(s)
  /\ UNCHANGED disk

Archive(s) ==
  LET q == inflight[s] IN
  /\ Is(s, "archive")
  /\ requirements' = [requirements EXCEPT ![q.of].archived = ~q.row.archived]
  /\ Settle(s)
  /\ UNCHANGED <<moves, tickets, fileVars>>

WriteRequirement(s) == Triage(s) \/ ChangeStatus(s) \/ Promote(s) \/ Archive(s)

-----------------------------------------------------------------------------
(***************************************************************************)
(* Files.  Promote and capture copy rows, not files, so one file on disk   *)
(* may be held by several owners.  A file sent to a requirement follows it *)
(* onto the tickets there are, one statement each.                         *)
(***************************************************************************)
Owner == {Meeting} \cup { OfRequirement(r) : r \in DOMAIN requirements }
           \cup { OfTicket(t) : t \in DOMAIN tickets }

\* Stored names are generated: no row or request knows this one.
Fresh(url) ==
  /\ url \notin disk \cup { f.url : f \in BagToSet(files) }
  /\ \A s \in Slot : /\ inflight[s].op \in { "listing", "follow" } => inflight[s].url # url
                     /\ inflight[s].op = "unlink" => inflight[s].file.url # url

Upload(s, owner, url) ==
  /\ Fresh(url)
  /\ disk' = disk \cup {url}
  /\ files' = files (+) Rows(owner, {url})
  /\ IF owner.kind = "requirement"
       THEN Start(s, [op |-> "listing", of |-> owner.id, url |-> url])
       ELSE inflight[s] = Idle /\ UNCHANGED inflight
  /\ UNCHANGED <<rowVars, overlapped>>

ListTickets(s) ==
  LET q    == inflight[s]
      todo == { t \in DOMAIN tickets : tickets[t].requirement = q.of } IN
  /\ Is(s, "listing")
  /\ inflight' = [inflight EXCEPT ![s] =
       IF todo = {} THEN Idle ELSE [op |-> "follow", of |-> q.of, url |-> q.url, todo |-> todo]]
  /\ UNCHANGED <<rowVars, fileVars, overlapped>>

FollowingAnyway(q, t) ==  \* mutant: whether the ticket has the file is not asked
  Rows(OfTicket(t), {q.url} \cap Held(OfRequirement(q.of)))

\* The row for one ticket, unless it has one or the requirement's is gone.
Following(q, t) ==
  Rows(OfTicket(t), {q.url} \cap (Held(OfRequirement(q.of)) \ Held(OfTicket(t))))

Follow(s) ==
  LET q == inflight[s] IN
  /\ Is(s, "follow")
  /\ \E t \in q.todo :
       /\ files' = files (+) Following(q, t)
       /\ inflight' = [inflight EXCEPT ![s] =
            IF q.todo = {t} THEN Idle ELSE [q EXCEPT !.todo = @ \ {t}]]
  /\ UNCHANGED <<rowVars, disk, overlapped>>

\* DELETE /attachments/:id: the file goes, and then the row.
Unlink(s, f) ==
  /\ Start(s, [op |-> "unlink", file |-> f])
  /\ disk' = disk \ {f.url}
  /\ UNCHANGED <<rowVars, files, overlapped>>

DeleteRow(s) ==
  /\ Is(s, "unlink")
  /\ files' = files (-) SetToBag({inflight[s].file})
  /\ Finish(s)
  /\ UNCHANGED <<rowVars, disk, overlapped>>

FileStep(s) ==
  \/ \E owner \in Owner, url \in Url : Upload(s, owner, url)
  \/ ListTickets(s) \/ Follow(s)
  \/ \E f \in BagToSet(files) : Unlink(s, f)
  \/ DeleteRow(s)

=============================================================================
