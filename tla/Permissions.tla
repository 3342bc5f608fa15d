---------------------------- MODULE Permissions -----------------------------
(***************************************************************************)
(* The role matrix of access/permissions.ts, for the actions the ticket,   *)
(* task, backlog and scope rules of these models ask about: ROLE_ACTIONS   *)
(* maps a role to the actions it may ever perform.                         *)
(***************************************************************************)

Role == { "TICKET_REQUESTER", "SYSTEM_OWNER", "DEVELOPER", "QA",
          "PROJECT_MANAGER", "PROGRAMMING_HEAD", "SENIOR_MANAGEMENT" }

Leadership == { "PROGRAMMING_HEAD", "PROJECT_MANAGER" }

Filing == { "ticket:create", "ticket:update", "ticket:submit" }

Requester == Filing \cup { "ticket:accept-delivery" }

SystemOwner == Requester \cup { "test:read", "requirement:read" }

Testing == { "test:read", "test:author", "test:execute",
             "bug:create", "bug:assign", "bug:promote", "requirement:read" }

Developer == Filing \cup Testing \cup
  { "ticket:read-internal", "ticket:update-estimate", "ticket:start",
    "ticket:submit-testing", "ticket:block", "ticket:resume", "task:create-own",
    "structure:read-all" }

Qa == Filing \cup Testing \cup
  { "ticket:read-all", "ticket:read-internal", "ticket:verify-testing",
    "ticket:block", "task:create-own", "structure:read-all" }

\* What the project manager and senior management share.
Oversight == Filing \cup
  { "ticket:read-all", "ticket:read-internal", "ticket:read-archived",
    "ticket:archive", "ticket:block", "ticket:hold", "ticket:resume",
    "ticket:force-status", "task:manage", "test:read", "meeting:read",
    "meeting:manage", "requirement:read", "requirement:create",
    "requirement:triage", "requirement:promote", "structure:read-all" }

ProjectManager == Oversight \cup Testing \cup
  { "ticket:assign", "ticket:verify-testing", "ticket:accept-delivery",
    "ticket:close", "ticket:reopen" }

ProgrammingHead == ProjectManager \cup { "ticket:approve", "user:assign-role" }

RoleActions ==
  [ TICKET_REQUESTER  |-> Requester,       SYSTEM_OWNER      |-> SystemOwner,
    DEVELOPER         |-> Developer,       QA                |-> Qa,
    PROJECT_MANAGER   |-> ProjectManager,  PROGRAMMING_HEAD  |-> ProgrammingHead,
    SENIOR_MANAGEMENT |-> Oversight ]

\* can(role, action)
May(role, action) == action \in RoleActions[role]

=============================================================================
