---------------------------- MODULE TicketScope -----------------------------
(***************************************************************************)
(* What a user may open (access/access.service.ts): the role says whether, *)
(* permissions.ts, and the companies and systems granted to him say which. *)
(* The service answers the question three times over: as a database filter *)
(* for reading (ticketScope), as a list of whom a ticket may be shown to   *)
(* (filterMentionable), and as the companies and systems to choose from.   *)
(***************************************************************************)
EXTENDS Permissions

CONSTANTS Company, System,
          CompanyOf,   \* the company of each system
          Live,        \* the systems that are active
          Absent       \* no home company; what a request does not name

ASSUME ScopeAssumption ==
  CompanyOf \in [System -> Company] /\ Live \subseteq System /\ Absent \notin Company

Grants == [ companies : SUBSET Company, systems : SUBSET System ]

Nothing == [companies |-> {}, systems |-> {}]

User == [ role : Role, active : BOOLEAN, home : Company \cup {Absent}, grants : Grants ]

\* A ticket as one user stands to it; its company is its system's.
Ticket == [ system : System, creator : BOOLEAN, systemOwner : BOOLEAN,
            works : BOOLEAN,       \* an active assignment, or a task
            mentioned : BOOLEAN ]  \* in a comment

-----------------------------------------------------------------------------
OnSystem(u, t) == t.system \in u.grants.systems
OnCompany(u, t) == CompanyOf[t.system] \in u.grants.companies

\* membership: the home company counts with the granted ones, except as a
\* portfolio.
Companies(u) == u.grants.companies \cup ({u.home} \ {Absent})
InCompany(u, t) == CompanyOf[t.system] \in Companies(u)

\* portfolioScope: "With no assignment at all they stay org-wide."
InPortfolio(u, t) ==
  u.grants = Nothing \/ t.creator \/ OnSystem(u, t) \/ OnCompany(u, t)

\* ticketScope, canViewTicket
CanView(u, t) ==
  CASE May(u.role, "ticket:read-all") -> InPortfolio(u, t)
    [] u.role = "DEVELOPER" ->
         t.works \/ t.mentioned \/ OnSystem(u, t) \/ InCompany(u, t)
    [] u.role = "SYSTEM_OWNER" ->
         \/ t.creator \/ t.systemOwner
         \/ IF u.grants.systems # {} THEN OnSystem(u, t) ELSE InCompany(u, t)
    [] OTHER -> t.creator

\* filterMentionable, for one candidate: what his grants and his work admit
\* him to, and what being named on the ticket does.
GrantedAtHome(u, t) ==  \* mutant: a home company is taken for a portfolio
  CASE May(u.role, "ticket:read-all") ->
         u.grants = Nothing \/ OnSystem(u, t) \/ InCompany(u, t)
    [] u.role = "DEVELOPER" -> t.works \/ OnSystem(u, t) \/ InCompany(u, t)
    [] u.role = "SYSTEM_OWNER" ->
         IF u.grants.systems # {} THEN OnSystem(u, t) ELSE InCompany(u, t)
    [] OTHER -> FALSE

Granted(u, t) ==
  CASE May(u.role, "ticket:read-all") ->
         u.grants = Nothing \/ OnSystem(u, t) \/ OnCompany(u, t)
    [] u.role = "DEVELOPER" -> t.works \/ OnSystem(u, t) \/ InCompany(u, t)
    [] u.role = "SYSTEM_OWNER" ->
         IF u.grants.systems # {} THEN OnSystem(u, t) ELSE InCompany(u, t)
    [] OTHER -> FALSE

Admitted(u, t) == u.active /\ (t.creator \/ t.systemOwner \/ Granted(u, t))

-----------------------------------------------------------------------------
\* The slice of a portfolio: a system brings its company, a company its systems.
SliceCompaniesGiven(g) == g.companies  \* mutant: a system grant leaves its company out

SliceCompanies(g) == g.companies \cup { CompanyOf[x] : x \in g.systems }
SliceSystems(g) == g.systems \cup { x \in System : CompanyOf[x] \in g.companies }

OrgWide(u) == May(u.role, "structure:read-all") /\ u.grants = Nothing

\* visibleCompanyIds; null is all of them.
VisibleCompanies(u) ==
  IF OrgWide(u) THEN Company
  ELSE IF May(u.role, "structure:read-all") THEN SliceCompanies(u.grants)
  ELSE Companies(u)

\* visibleSystemIds: outside the team, "explicit UserSystem grants win".
VisibleSystems(u) ==
  IF OrgWide(u) THEN System
  ELSE IF May(u.role, "structure:read-all") THEN SliceSystems(u.grants)
  ELSE IF u.grants.systems # {} THEN u.grants.systems
  ELSE { x \in System : CompanyOf[x] \in Companies(u) }

\* create with assertCanFileAgainst, which nothing but the system decides.
MayFile(u, x) == May(u.role, "ticket:create") /\ x \in Live \cap VisibleSystems(u)

(***************************************************************************)
(* The answers agree about an active user: whoever can open a ticket may   *)
(* be told of it, and whoever may be told can open it, except who was only *)
(* named its system owner without being one, and a developer who filed it  *)
(* elsewhere; what he files he can open, except a developer to whom        *)
(* nothing is granted; and what he is granted, he can choose.              *)
(***************************************************************************)
AnswersAgree(u, t) ==
  /\ CanView(u, t) => Admitted(u, t) \/ t.mentioned
  /\ Admitted(u, t) =>
       \/ CanView(u, t)
       \/ t.systemOwner /\ u.role # "SYSTEM_OWNER"
       \/ t.creator /\ u.role = "DEVELOPER"
  /\ MayFile(u, t.system) /\ t.creator =>
       \/ CanView(u, t)
       \/ u.role = "DEVELOPER" /\ u.grants = Nothing
  /\ May(u.role, "structure:read-all") /\ (OnSystem(u, t) \/ OnCompany(u, t)) =>
       t.system \in VisibleSystems(u) /\ CompanyOf[t.system] \in VisibleCompanies(u)

\* The grants with which they agree, in any role, wherever at home.
Agreeing ==
  Grants \ { u.grants : u \in
               { v \in User : v.active /\ \E t \in Ticket : ~AnswersAgree(v, t) } }

=============================================================================
