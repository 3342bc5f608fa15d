---------------------------- MODULE Assignments -----------------------------
(***************************************************************************)
(* The roster of one ticket, and the writes AssignmentSyncService and      *)
(* TicketsService.assign make to it (tickets/assignment-sync.service.ts).  *)
(*                                                                         *)
(* A roster stands for the ticket's TicketAssignment rows: active is the   *)
(* set of developers whose row has isActive, lead the set whose row has    *)
(* isLead.  A row with neither flag acts as no row would: the upserts that *)
(* find it write what the ones that create it write.                       *)
(***************************************************************************)
CONSTANT User

Rosters == [active: SUBSET User, lead: SUBSET User]

EmptyRoster == [active |-> {}, lead |-> {}]

ActiveLeads(r) == r.active \cap r.lead

\* setLead: demote everyone else, then upsert the new lead as active.
SetLead(r, d) == [active |-> r.active \cup {d}, lead |-> {d}]

\* addAssignee: the first person on a ticket without a lead leads it.
AddAssignee(r, d) ==
  [active |-> r.active \cup {d},
   lead   |-> IF ActiveLeads(r) = {} THEN r.lead \cup {d} ELSE r.lead]

RemoveAssigneeKeepsFlag(r, d) == [r EXCEPT !.active = @ \ {d}]  \* mutant

\* removeAssignee's write: off the roster, and no longer lead.
RemoveAssignee(r, d) == [active |-> r.active \ {d}, lead |-> r.lead \ {d}]

(***************************************************************************)
(* syncFromTasks: activate every task holder, retire everybody else who    *)
(* does not lead, and if no active lead is left promote a holder.  The     *)
(* query names no order, so which holder comes first is open: the result   *)
(* is the set of rosters the call may leave behind.                        *)
(***************************************************************************)
ReconciledDropsLead(r, holders) == [r EXCEPT !.active = holders]  \* mutant

Reconciled(r, holders) ==
  [active |-> holders \cup ActiveLeads(r), lead |-> r.lead]

SyncFromTasks(r, holders) ==
  LET kept == Reconciled(r, holders)
  IN  IF ActiveLeads(kept) = {} /\ holders # {}
        THEN { SetLead(kept, h) : h \in holders }
        ELSE { kept }

(***************************************************************************)
(* The transaction of POST /assign: with developerIds the roster becomes   *)
(* exactly that team, without them it stays; then the lead is set.         *)
(***************************************************************************)
AssignTeam(r, team, l) == SetLead([r EXCEPT !.active = team], l)

=============================================================================
