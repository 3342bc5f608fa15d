---------------------------- MODULE Memberships ----------------------------
(***************************************************************************)
(* What an account may reach: its UserCompany and UserSystem rows and its  *)
(* home company (User.companyId), written with the account, by PATCH       *)
(* /users/:id (users/users.service.ts) and, the systems, by the roster of  *)
(* one (systems/systems.service.ts).  The account is a developer's or a    *)
(* tester's, the roles a project manager may edit and a roster may hold.   *)
(* A manager replaces the slice of the rows that is in his own portfolio;  *)
(* the head replaces what the request names.  Both delete first and insert *)
(* later, three statements without a transaction, and the last of them     *)
(* makes one of the companies inserted the home company, or none.          *)
(***************************************************************************)
EXTENDS Accounts, TicketScope

CONSTANTS PortfolioCompanies, PortfolioSystems,  \* the grants of the manager
          Patches                                \* what requests ask for

ASSUME MembershipsAssumption ==
  /\ PortfolioCompanies \subseteq Company /\ PortfolioSystems \subseteq System
  /\ Patches \subseteq [ companies : (SUBSET Company) \cup {Absent},
                         systems : (SUBSET System) \cup {Absent} ]

VARIABLES grants,  \* the rows
          home     \* User.companyId

vars == <<entryVars, inflight, overlapped, grants, home>>

Or(given, otherwise) == IF given = Absent THEN otherwise ELSE given

-----------------------------------------------------------------------------
\* normalizeMembershipGrants: a company covers its (active) systems.
Covered(companies) == { x \in Live : CompanyOf[x] \in companies }

NormalizedNot(g) == g  \* mutant

Normalized(g) == [g EXCEPT !.systems = @ \ Covered(g.companies)]

\* His home company is no part of a manager's portfolio.
Manager == [ role |-> "PROJECT_MANAGER", active |-> TRUE, home |-> Absent,
             grants |-> [companies |-> PortfolioCompanies, systems |-> PortfolioSystems] ]

\* editableMembershipScope; without a portfolio, whatever has an active system.
ScopeCompanies ==
  IF OrgWide(Manager) THEN { CompanyOf[x] : x \in Live } ELSE VisibleCompanies(Manager)

SeenSystems == IF OrgWide(Manager) THEN Live ELSE VisibleSystems(Manager)

\* "A visible company implies every system under it."
ScopeSystems == SeenSystems \cup Covered(ScopeCompanies)

\* A side the request does not name is asked for as it is, as far as he sees it;
\* includes() of an org-wide manager's null finds nothing.
Asked(held, patch) ==
  LET seen(side, scope) == IF OrgWide(Manager) THEN {} ELSE held[side] \cap scope IN
  [ companies |-> Or(patch.companies, seen("companies", ScopeCompanies)),
    systems   |-> Or(patch.systems, seen("systems", SeenSystems)) ]

MergedKeepingNothing(held, patch) ==  \* mutant: the slice replaces everything
  Normalized([ companies |-> Asked(held, patch).companies \cap ScopeCompanies,
               systems   |-> Asked(held, patch).systems \cap ScopeSystems ])

\* mergeMembershipGrants: what is held outside the slice, what is asked inside.
Merged(held, patch) ==
  Normalized([ companies |-> (held.companies \ ScopeCompanies)
                               \cup (Asked(held, patch).companies \cap ScopeCompanies),
               systems   |-> (held.systems \ ScopeSystems)
                               \cup (Asked(held, patch).systems \cap ScopeSystems) ])

\* What the head's request resolves to.
Resolved(held, patch) ==
  Normalized([ companies |-> Or(patch.companies, held.companies),
               systems   |-> Or(patch.systems, held.systems) ])

-----------------------------------------------------------------------------
(***************************************************************************)
(* PATCH /users/:id.  left is what the request believes to be there, and   *)
(* to what it will insert.                                                 *)
(***************************************************************************)
LoadEdit(s, by, patch) ==
  /\ account.exists
  /\ Start(s, [ op |-> "systems", by |-> by, patch |-> patch, began |-> grants, left |-> grants,
                to |-> IF by = "manager" THEN Merged(grants, patch) ELSE Resolved(grants, patch) ])
  /\ UNCHANGED <<grants, home, overlapped>>

\* The manager's request deletes both kinds, the head's what it names.
Clears(q, side) == q.by = "manager" \/ q.patch[side] # Absent

ClearSide(s, side, next) ==
  LET q == inflight[s] IN
  /\ Is(s, side)
  /\ IF Clears(q, side)
       THEN /\ grants' = [grants EXCEPT ![side] = {}]
            /\ Go(s, [q EXCEPT !.op = next, !.left[side] = {}])
            /\ Noting(q.left, grants)
       ELSE Go(s, [q EXCEPT !.op = next]) /\ UNCHANGED <<grants, overlapped>>
  /\ UNCHANGED home

\* The inserts collide with a row that is still, or again, there.
Collides(q) ==
  \/ q.to.companies \cap grants.companies # {}
  \/ q.to.systems \cap grants.systems # {}

HomesLeft(by, companies) == {home}  \* mutant: the legacy column is left alone

\* companyIds[0] of what is inserted, or null: of a manager's, those kept from
\* outside his slice come first.
HomesOf(by, companies) ==
  LET kept == IF by = "manager" THEN companies \ ScopeCompanies ELSE {} IN
  IF companies = {} THEN {Absent} ELSE IF kept # {} THEN kept ELSE companies

Rewrite(s) ==
  LET q == inflight[s] IN
  /\ Is(s, "rewrite") /\ ~Collides(q)
  /\ grants' = [ companies |-> grants.companies \cup q.to.companies,
                 systems |-> grants.systems \cup q.to.systems ]
  /\ home' \in HomesOf(q.by, q.to.companies)
  /\ Finish(s) /\ Noting(q.left, grants)

\* What fails has still deleted.
RewriteFails(s) ==
  /\ Is(s, "rewrite") /\ Collides(inflight[s])
  /\ Finish(s)
  /\ UNCHANGED <<grants, home, overlapped>>

EditStep(s) ==
  /\ \/ \E by \in { "manager", "head" }, patch \in Patches : LoadEdit(s, by, patch)
     \/ ClearSide(s, "systems", "companies") \/ ClearSide(s, "companies", "rewrite")
     \/ Rewrite(s) \/ RewriteFails(s)
  /\ UNCHANGED entryVars

\* A PATCH of the profile alone: no row is asked about.
SetHome ==
  /\ account.exists
  /\ home' \in Company \cup {Absent}
  /\ UNCHANGED <<entryVars, inflight, overlapped, grants>>

\* POST and DELETE /systems/:id/users: no company grant is asked about.
RosterAdd(x) ==
  /\ account.exists /\ account.active
  /\ grants' = [grants EXCEPT !.systems = @ \cup {x}]

RosterRemove(x) ==
  /\ x \in grants.systems
  /\ grants' = [grants EXCEPT !.systems = @ \ {x}]

RosterStep ==
  /\ \E x \in System : RosterAdd(x) \/ RosterRemove(x)
  /\ UNCHANGED <<entryVars, inflight, overlapped, home>>

-----------------------------------------------------------------------------
\* What an account is created with: nothing by approve, anything by an
\* invitation, systems and any home company by POST /users.
Create(s) ==
  /\ CreateAccount(s)
  /\ grants' \in IF "row" \in DOMAIN inflight[s] THEN {Nothing} ELSE Grants
  /\ home' \in HomesOf("head", grants'.companies)
  /\ UNCHANGED <<application, invitation, resets, issued, spent, overlapped>>

Add ==
  /\ \E password \in BOOLEAN : AddUser(password)
  /\ grants' \in [ companies : {{}}, systems : SUBSET System ]
  /\ home' \in Company \cup {Absent}
  /\ UNCHANGED <<application, invitation, resets, issued, spent, inflight, overlapped>>

Toggle ==
  /\ \E active \in BOOLEAN : SetActive(active)
  /\ UNCHANGED <<application, invitation, resets, issued, spent, inflight, overlapped, grants, home>>

Init == EntryInit /\ grants = Nothing /\ home = Absent

Next ==
  \/ \E s \in Slot : \/ EntryStep(s) /\ UNCHANGED <<grants, home>>
                     \/ Create(s) \/ EditStep(s)
  \/ Expire /\ UNCHANGED <<grants, home>>
  \/ Add \/ Toggle \/ RosterStep \/ SetHome

AccountsSpec == Init /\ [][Next]_vars

-----------------------------------------------------------------------------
\* Types.
AccountsTypeOK ==
  /\ application \in [status : Applied \cup {"NONE"}, id : 0 .. MaxApplications]
  /\ account \in [exists : BOOLEAN, password : BOOLEAN, active : BOOLEAN]
  /\ ~account.exists =>
       account = NoAccount /\ grants = Nothing /\ home = Absent /\ resets = << >>
  /\ invitation \in [status : Invited \cup {"NONE"}, token : 0 .. issued, fresh : BOOLEAN]
  /\ issued \in 0 .. MaxTokens /\ spent \subseteq 1 .. issued
  /\ DOMAIN resets \subseteq 1 .. issued
  /\ \A t \in DOMAIN resets : resets[t] \in [used : BOOLEAN, fresh : BOOLEAN]
  /\ grants \in Grants /\ home \in Company \cup {Absent}

(***************************************************************************)
(* However requests overlap, fail or stop halfway: an approved address has *)
(* an account and an invitation to it, an accepted invitation has set a    *)
(* password, and a token whose request has been answered opens nothing     *)
(* more ("Token already used").                                            *)
(***************************************************************************)
EntryRecordsAgree ==
  /\ application.status = "APPROVED" => account.exists /\ invitation.status # "NONE"
  /\ invitation.status # "NONE" => account.exists
  /\ invitation.status = "ACCEPTED" => account.password
  /\ \A t \in spent :
       /\ invitation.token = t => invitation.status # "PENDING"
       /\ t \in DOMAIN resets => resets[t].used

(***************************************************************************)
(* Whatever grants the edits, the rosters and the failures between them    *)
(* leave an account with, and whichever role and home company it has: what *)
(* its holder can open, what he may be told of, where he may file and what *)
(* he can choose from agree, about every ticket.                           *)
(***************************************************************************)
ReachAgrees == account.active => grants \in Agreeing

\* How far an invitation has come; none of its handlers leads back.
Stage == CHOOSE stage \in [Invited \cup {"NONE"} -> 0 .. 3] :
           /\ stage["NONE"] = 0 /\ stage["PENDING"] = 1
           /\ stage["ACCEPTED"] = 2 /\ stage["REVOKED"] = 3

\* "Grants outside the portfolio stay untouched": the rows are there, or a
\* company that is there covers them, and none are added.
OutsideKept(before, after) ==
  /\ after.companies \ ScopeCompanies = before.companies \ ScopeCompanies
  /\ before.systems \ ScopeSystems \subseteq after.systems \cup Covered(after.companies)
  /\ after.systems \ ScopeSystems \subseteq before.systems

\* What a request that has gone through leaves, if no other came between: what
\* it named, in the slice of its author; of a company and its systems, one; and a
\* home company that the rows grant, wherever the one before was ("so the list
\* column ... match UserCompany").
Written(q, after, homeAfter) ==
  LET slice == IF q.by = "manager" THEN ScopeCompanies ELSE Company IN
  /\ q.by = "manager" => OutsideKept(q.began, after)
  /\ q.patch.companies # Absent => after.companies \cap slice = q.patch.companies \cap slice
  /\ (\A side \in DOMAIN q.patch : Clears(q, side)) =>
       after.systems \cap Covered(after.companies) = {}
  /\ homeAfter \in IF after.companies = {} THEN {Absent} ELSE after.companies

(***************************************************************************)
(* While no write was decided from a row that had changed: a sign-up       *)
(* request is reviewed once, an invitation is not reopened, one reset      *)
(* token at most is there, and an edit of the grants that has gone through *)
(* leaves the rows that were asked inside the slice of its author and the  *)
(* rows there were outside, no system its company covers, and a home       *)
(* company among the companies granted, or none with none.  The home       *)
(* company from before is not kept, inside the slice or outside.           *)
(***************************************************************************)
UndisturbedAccounts ==
  [][ ~overlapped' =>
        /\ application.status \in { "APPROVED", "REJECTED" } =>
             application'.status \in { application.status, "NONE" }
        /\ Stage[invitation.status] <= Stage[invitation'.status]
        /\ Cardinality(DOMAIN resets') <= 1
        /\ \A s \in Slot : Rewrite(s) => Written(inflight[s], grants', home') ]_vars

=============================================================================
