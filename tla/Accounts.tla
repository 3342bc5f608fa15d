------------------------------ MODULE Accounts ------------------------------
(***************************************************************************)
(* How one e-mail address becomes an account and gets into it: sign-up     *)
(* requests (signup-requests/), invitations (invitations/) and passwords   *)
(* (auth/auth.service.ts).  Addresses are unique in both tables and share  *)
(* no row, so one is enough.  None of the handlers opens a transaction:    *)
(* every statement is a step, except a check that a unique index repeats   *)
(* for the write behind it.  Whether the account has a password is kept,   *)
(* not which; mail is sent after everything else and never fails a         *)
(* request; the role is one that may be invited by whoever may invite.     *)
(***************************************************************************)
EXTENDS Integers, FiniteSets

CONSTANTS Slot,             \* the requests that may be in flight together
          MaxApplications,  \* bound on the sign-up requests filed
          MaxTokens         \* bound on the tokens mailed

ASSUME AccountsAssumption == MaxApplications \in Nat /\ MaxTokens \in Nat

VARIABLES application,  \* the SignupRequest row of the address, with its id
          account,      \* the User row
          invitation,   \* the EmailInvitation row of the account
          resets,       \* its PasswordResetToken rows, by token
          issued,       \* how many tokens have been generated
          spent,        \* history variable: tokens whose request was answered
          inflight,     \* what each request has loaded and has still to do
          overlapped    \* history variable: some write was decided from a row
                        \* that had changed since

entryVars == <<application, account, invitation, resets, issued, spent>>

Applied == { "PENDING", "APPROVED", "REJECTED" }
Invited == { "PENDING", "ACCEPTED", "REVOKED" }   \* nothing writes EXPIRED

\* A row that is not there has the status NONE.
NoAccount == [exists |-> FALSE, password |-> FALSE, active |-> FALSE]
NoInvitation == [status |-> "NONE", token |-> 0, fresh |-> FALSE]

Idle == [op |-> "idle"]

EntryInit ==
  /\ application = [status |-> "NONE", id |-> 0]
  /\ account = NoAccount
  /\ invitation = NoInvitation
  /\ resets = << >>
  /\ issued = 0 /\ spent = {}
  /\ inflight = [s \in Slot |-> Idle]
  /\ overlapped = FALSE

Is(s, op) == inflight[s].op = op
Start(s, request) == Is(s, "idle") /\ inflight' = [inflight EXCEPT ![s] = request]
Go(s, request) == inflight' = [inflight EXCEPT ![s] = request]
Finish(s) == Go(s, Idle)

\* The request wrote on the strength of what it had seen.
Noting(seen, now) == overlapped' = (overlapped \/ seen # now)

NewToken == issued < MaxTokens /\ issued' = issued + 1

-----------------------------------------------------------------------------
(***************************************************************************)
(* POST /signup-requests: the address is unknown, or was turned down, in   *)
(* which case the old row goes first.                                      *)
(***************************************************************************)
LoadApply(s) ==
  /\ ~account.exists
  /\ application.status \in { "NONE", "REJECTED" }
  /\ Start(s, IF application.status = "NONE" THEN [op |-> "file"]
              ELSE [op |-> "reapply", row |-> application])

DeleteOld(s) ==
  LET there == inflight[s].row.id = application.id /\ application.status # "NONE" IN
  /\ Is(s, "reapply")
  /\ Go(s, IF there THEN [op |-> "file"] ELSE Idle)
  /\ IF there
       THEN /\ application' = [application EXCEPT !.status = "NONE"]
            /\ Noting(inflight[s].row, application)
       ELSE UNCHANGED <<application, overlapped>>

\* The unique index on the address refuses a second row.
File(s) ==
  /\ Is(s, "file")
  /\ application.id < MaxApplications
  /\ application' = IF application.status = "NONE"
                      THEN [status |-> "PENDING", id |-> application.id + 1] ELSE application
  /\ Finish(s)
  /\ UNCHANGED overlapped

LoadReview(s, op) ==
  /\ application.status = "PENDING"
  /\ Start(s, [op |-> op, row |-> application])

\* An update of the loaded row, which fails if it has been deleted.
Reviewed(s, verdict) ==
  LET q == inflight[s] IN
  IF application.id = q.row.id /\ application.status # "NONE"
    THEN application' = [application EXCEPT !.status = verdict] /\ Noting(q.row, application)
    ELSE UNCHANGED <<application, overlapped>>

Reject(s) == Is(s, "reject") /\ Reviewed(s, "REJECTED") /\ Finish(s)

Approve(s) == Is(s, "approve") /\ Reviewed(s, "APPROVED") /\ Finish(s)

SignupStep(s) ==
  /\ \/ LoadApply(s) /\ UNCHANGED <<application, overlapped>>
     \/ DeleteOld(s) \/ File(s)
     \/ \E op \in { "reject", "account" } :
          LoadReview(s, op) /\ UNCHANGED <<application, overlapped>>
     \/ Reject(s) \/ Approve(s)
  /\ UNCHANGED <<account, invitation, resets, issued, spent>>

-----------------------------------------------------------------------------
(***************************************************************************)
(* InvitationsService.create, called by POST /invitations and by approve:  *)
(* the account, then the invitation.  The account is the caller's to fill. *)
(***************************************************************************)
LoadInvite(s) == ~account.exists /\ Start(s, [op |-> "account"])

\* What approve does when create returns.
Return(q) == IF "row" \in DOMAIN q THEN [q EXCEPT !.op = "approve"] ELSE Idle

ReturnBefore(q) ==  \* mutant: approve does not wait for the invitation
  IF "row" \in DOMAIN q /\ q.op = "account" THEN [q EXCEPT !.op = "approve"] ELSE Idle

CreateAccountAndReturn(s) ==  \* mutant
  /\ Is(s, "account") /\ ~account.exists
  /\ account' = [exists |-> TRUE, password |-> FALSE, active |-> TRUE]
  /\ Go(s, ReturnBefore(inflight[s]))

CreateAccount(s) ==
  /\ Is(s, "account") /\ ~account.exists
  /\ account' = [exists |-> TRUE, password |-> FALSE, active |-> TRUE]
  /\ Go(s, [inflight[s] EXCEPT !.op = "invitation"])

CreateInvitation(s) ==
  /\ Is(s, "invitation")
  /\ NewToken
  /\ invitation' = [status |-> "PENDING", token |-> issued', fresh |-> TRUE]
  /\ Go(s, Return(inflight[s]))
  /\ UNCHANGED <<account, overlapped>>

\* PATCH /invitations/:id/resend: a new token, for one not accepted or revoked.
LoadResend(s) ==
  /\ invitation.status = "PENDING"
  /\ Start(s, [op |-> "resend", invitation |-> invitation])
  /\ UNCHANGED <<account, invitation, issued, overlapped>>

ResendSameToken(s) ==  \* mutant: the old token lives on
  /\ Is(s, "resend")
  /\ invitation' = [invitation EXCEPT !.status = "PENDING", !.fresh = TRUE]
  /\ Finish(s) /\ Noting(inflight[s].invitation, invitation)
  /\ UNCHANGED <<account, issued>>

Resend(s) ==
  /\ Is(s, "resend")
  /\ NewToken
  /\ invitation' = [status |-> "PENDING", token |-> issued', fresh |-> TRUE]
  /\ Finish(s) /\ Noting(inflight[s].invitation, invitation)
  /\ UNCHANGED account

\* PATCH /invitations/:id/revoke, whatever its status.
Revoke ==
  /\ invitation.status # "NONE"
  /\ invitation' = [invitation EXCEPT !.status = "REVOKED"]
  /\ UNCHANGED <<account, issued, inflight, overlapped>>

InvitationStep(s) ==
  /\ \/ LoadInvite(s) /\ UNCHANGED <<account, invitation, issued, overlapped>>
     \/ CreateInvitation(s) \/ LoadResend(s) \/ Resend(s) \/ Revoke
  /\ UNCHANGED <<application, resets, spent>>

-----------------------------------------------------------------------------
(***************************************************************************)
(* Passwords.  POST /auth/set-password: the password, then the invitation, *)
(* then the answer.                                                        *)
(***************************************************************************)
LoadAcceptAny(s) ==  \* mutant: a revoked invitation is accepted
  /\ invitation.status # "NONE" /\ invitation.fresh
  /\ Start(s, [op |-> "accept", invitation |-> invitation])
  /\ UNCHANGED <<account, invitation, spent, overlapped>>

LoadAccept(s) ==
  /\ invitation.status = "PENDING" /\ invitation.fresh
  /\ Start(s, [op |-> "accept", invitation |-> invitation])
  /\ UNCHANGED <<account, invitation, spent, overlapped>>

WritePassword(s) ==
  /\ Is(s, "accept")
  /\ account' = [account EXCEPT !.password = TRUE]
  /\ Go(s, [inflight[s] EXCEPT !.op = "accepted"])
  /\ UNCHANGED <<invitation, spent, overlapped>>

AcceptedUnwritten(s) ==  \* mutant: the invitation stays as it was
  /\ Is(s, "accepted")
  /\ spent' = spent \cup {inflight[s].invitation.token}
  /\ Finish(s)
  /\ UNCHANGED <<account, invitation, overlapped>>

Accepted(s) ==
  /\ Is(s, "accepted")
  /\ invitation' = [invitation EXCEPT !.status = "ACCEPTED"]
  /\ spent' = spent \cup {inflight[s].invitation.token}
  /\ Finish(s) /\ Noting(inflight[s].invitation, invitation)
  /\ UNCHANGED account

AcceptStep(s) ==
  /\ LoadAccept(s) \/ WritePassword(s) \/ Accepted(s)
  /\ UNCHANGED <<application, resets, issued>>

\* POST /auth/forgot-password: "invalidate any existing tokens", then a new one.
LoadForgot(s) ==
  /\ account.exists /\ account.active
  /\ Start(s, [op |-> "forgot"])
  /\ UNCHANGED <<resets, issued, overlapped>>

ClearResetsNot(s) ==  \* mutant: the tokens of before stay
  /\ Is(s, "forgot")
  /\ Go(s, [op |-> "token", left |-> DOMAIN resets])
  /\ UNCHANGED <<resets, issued, overlapped>>

ClearResets(s) ==
  /\ Is(s, "forgot")
  /\ resets' = << >>
  /\ Go(s, [op |-> "token", left |-> {}])
  /\ UNCHANGED <<issued, overlapped>>

CreateReset(s) ==
  /\ Is(s, "token")
  /\ NewToken
  /\ resets' = [ t \in DOMAIN resets \cup {issued'} |->
                   IF t = issued' THEN [used |-> FALSE, fresh |-> TRUE] ELSE resets[t] ]
  /\ Finish(s) /\ Noting(inflight[s].left, DOMAIN resets)

ForgotStep(s) ==
  /\ LoadForgot(s) \/ ClearResets(s) \/ CreateReset(s)
  /\ UNCHANGED <<application, account, invitation, spent>>

(***************************************************************************)
(* POST /auth/reset-password: the password and the token's usedAt, in no   *)
(* order.  The second fails if the token has been deleted meanwhile; the   *)
(* first stands.                                                           *)
(***************************************************************************)
LoadReset(s, t) ==
  /\ ~resets[t].used /\ resets[t].fresh
  /\ Start(s, [op |-> "reset", token |-> t, todo |-> { "password", "used" }])
  /\ UNCHANGED <<account, resets, spent>>

WriteReset(s) ==
  LET q == inflight[s] IN
  /\ Is(s, "reset")
  /\ \E write \in q.todo :
       /\ account' = IF write = "password" THEN [account EXCEPT !.password = TRUE] ELSE account
       /\ resets' = IF write = "used" /\ q.token \in DOMAIN resets
                      THEN [resets EXCEPT ![q.token].used = TRUE] ELSE resets
       /\ IF q.todo = {write}
            THEN Finish(s) /\ spent' = spent \cup {q.token}
            ELSE Go(s, [q EXCEPT !.todo = @ \ {write}]) /\ spent' = spent

ResetStep(s) ==
  /\ (\E t \in DOMAIN resets : LoadReset(s, t)) \/ WriteReset(s)
  /\ UNCHANGED <<application, invitation, issued, overlapped>>

\* Forty-eight hours, or thirty minutes, are over.
Expire ==
  /\ \/ /\ invitation.fresh
        /\ invitation' = [invitation EXCEPT !.fresh = FALSE]
        /\ UNCHANGED resets
     \/ \E t \in DOMAIN resets :
          /\ resets[t].fresh
          /\ resets' = [resets EXCEPT ![t].fresh = FALSE]
          /\ UNCHANGED invitation
  /\ UNCHANGED <<application, account, issued, spent, inflight, overlapped>>

\* POST /users, with a password or without, and PATCH .../(de)activate.
AddUser(password) ==
  /\ ~account.exists
  /\ account' = [exists |-> TRUE, password |-> password, active |-> TRUE]

SetActiveUnasked(active) ==  \* mutant: whether the account exists is not asked
  account' = [account EXCEPT !.active = active]

SetActive(active) ==
  /\ account.exists
  /\ account' = [account EXCEPT !.active = active]

\* A statement that fails, or a server that stops.
Drop(s) == ~Is(s, "idle") /\ Finish(s) /\ UNCHANGED <<entryVars, overlapped>>

EntryStep(s) ==
  \/ SignupStep(s) \/ InvitationStep(s) \/ AcceptStep(s)
  \/ ForgotStep(s) \/ ResetStep(s) \/ Drop(s)

=============================================================================
