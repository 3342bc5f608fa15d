--------------------------- MODULE AccountsProofs ---------------------------
(***************************************************************************)
(* Proofs about Memberships, for any slots, companies, systems, portfolio  *)
(* and requests: the types, that the records of an address agree however   *)
(* its requests overlap, fail or stop, and what grants let a user open.    *)
(***************************************************************************)
EXTENDS Memberships, FiniteSetTheorems, TLAPS

Application == [status : Applied \cup {"NONE"}, id : 0 .. MaxApplications]

Invitation == [status : Invited \cup {"NONE"}, token : Nat, fresh : BOOLEAN]

\* What a request in flight may carry, by what it does next.
Request ==
  UNION { {Idle},
          [op : { "file", "account", "invitation", "forgot" }],
          [op : { "reapply", "reject", "account", "invitation", "approve" }, row : Application],
          [op : { "resend", "accept", "accepted" }, invitation : Invitation],
          [op : {"token"}, left : SUBSET Nat],
          [op : {"reset"}, token : Nat, todo : SUBSET { "password", "used" }],
          [op : { "systems", "companies", "rewrite" }, by : { "manager", "head" },
           patch : Patches, began : Grants, left : Grants, to : Grants] }

(***************************************************************************)
(* What holds beside a request that is about to do its next step: what it  *)
(* has done is still there, and the tokens it knows are not mistaken for   *)
(* others, since a token is new when it is mailed and is an invitation's   *)
(* or a reset's, never both.                                               *)
(***************************************************************************)
Tells(q) ==
  /\ q.op \notin { "idle", "file", "reapply", "reject", "account" } => account.exists
  /\ q.op \in { "approve", "resend", "accept", "accepted" } => invitation.status # "NONE"
  /\ q.op = "accepted" => account.password
  /\ q.op \in { "accept", "accepted" } =>
       q.invitation.token \in 1 .. issued /\ q.invitation.token \notin DOMAIN resets
  /\ q.op = "reset" =>
       /\ q.token \in 1 .. issued /\ q.token # invitation.token
       /\ "used" \notin q.todo /\ q.token \in DOMAIN resets => resets[q.token].used

RequestsTell ==
  /\ DOMAIN inflight = Slot
  /\ \A s \in Slot : inflight[s] \in Request /\ Tells(inflight[s])

OneUse ==
  /\ invitation.token \notin DOMAIN resets
  /\ invitation.status # "NONE" => invitation.token # 0

AccountsInv ==
  /\ AccountsTypeOK /\ EntryRecordsAgree
  /\ OneUse /\ RequestsTell

(***************************************************************************)
(* Steps only add: no account, password or invitation goes away, a used    *)
(* token stays used as long as its row is there, new tokens are new.       *)
(***************************************************************************)
OnlyAdds ==
  /\ account.exists => account'.exists
  /\ account.password => account'.password
  /\ invitation.status # "NONE" => invitation'.status # "NONE"
  /\ issued <= issued'
  /\ \A t \in DOMAIN resets' :
       \/ t > issued
       \/ t \in DOMAIN resets /\ (resets[t].used => resets'[t].used)
  /\ invitation'.token = invitation.token \/ invitation'.token > issued

LEMMA TellsStill ==
  ASSUME NEW q \in Request, Tells(q), OnlyAdds, issued \in Nat, issued' \in Nat
  PROVE  Tells(q)'
<1>1. q.op \in { "accept", "accepted" } => q.invitation \in Invitation
  BY DEF Request, Idle
<1>2. q.op = "reset" => q.token \in Nat
  BY DEF Request, Idle
<1>3. (q.op \notin { "idle", "file", "reapply", "reject", "account" } => account.exists)'
  BY DEF Tells, OnlyAdds
<1>4. (q.op \in { "approve", "resend", "accept", "accepted" } => invitation.status # "NONE")'
  BY DEF Tells, OnlyAdds
<1>5. (q.op = "accepted" => account.password)'
  BY DEF Tells, OnlyAdds
<1>6. (q.op \in { "accept", "accepted" } =>
         q.invitation.token \in 1 .. issued /\ q.invitation.token \notin DOMAIN resets)'
  BY <1>1 DEF Tells, OnlyAdds, Invitation
<1>7. (q.op = "reset" =>
         /\ q.token \in 1 .. issued /\ q.token # invitation.token
         /\ "used" \notin q.todo /\ q.token \in DOMAIN resets => resets[q.token].used)'
  BY <1>2 DEF Tells, OnlyAdds
<1> QED
  BY <1>3, <1>4, <1>5, <1>6, <1>7 DEF Tells


\* A request goes on, and the others find what they relied on.
LEMMA OneGoesOn ==
  ASSUME AccountsInv, NEW s \in Slot, NEW q \in Request, Go(s, q), OnlyAdds,
         issued' \in Nat, Tells(q)'
  PROVE  RequestsTell'
<1>1. DOMAIN inflight = Slot /\ inflight' = [inflight EXCEPT ![s] = q] /\ issued \in Nat
  BY DEF AccountsInv, RequestsTell, Go, AccountsTypeOK
<1>2. ASSUME NEW r \in Slot
      PROVE  (inflight[r] \in Request /\ Tells(inflight[r]))'
  <2>1. CASE r = s
    BY <1>1, <2>1 DEF Tells
  <2>2. CASE r # s
    <3>1. PICK other \in Request : other = inflight[r]
      BY DEF AccountsInv, RequestsTell
    <3>2. inflight'[r] = other
      BY <1>1, <2>2, <3>1
    <3>3. Tells(other)
      BY <3>1 DEF AccountsInv, RequestsTell
    <3>4. Tells(other)'
      BY <1>1, <3>3, TellsStill
    <3> QED
      BY <3>2, <3>4 DEF Tells
  <2> QED
    BY <2>1, <2>2
<1> QED
  BY <1>1, <1>2 DEF RequestsTell

LEMMA NoneGoesOn ==
  ASSUME AccountsInv, inflight' = inflight, OnlyAdds, issued' \in Nat
  PROVE  RequestsTell'
<1>1. issued \in Nat
  BY DEF AccountsInv, AccountsTypeOK
<1>2. ASSUME NEW r \in Slot
      PROVE  (inflight[r] \in Request /\ Tells(inflight[r]))'
  <2>1. PICK q \in Request : q = inflight[r]
    BY DEF AccountsInv, RequestsTell
  <2>2. Tells(q)
    BY <2>1 DEF AccountsInv, RequestsTell
  <2>3. Tells(q)'
    BY <1>1, <2>2, TellsStill
  <2> QED
    BY <2>1, <2>3 DEF Tells
<1> QED
  BY <1>2 DEF AccountsInv, RequestsTell

LEMMA NothingTaken ==
  ASSUME AccountsInv, UNCHANGED <<account, invitation, resets, issued>>
  PROVE  OnlyAdds /\ issued' \in Nat
BY DEF OnlyAdds, AccountsInv, AccountsTypeOK

LEMMA IdleTells == Idle \in Request /\ Tells(Idle)
BY DEF Idle, Request, Tells

\* A request that has only read.
LEMMA LoadKeeps ==
  ASSUME AccountsInv, NEW s \in Slot, NEW q \in Request, Go(s, q), Tells(q),
         UNCHANGED <<entryVars, grants, home>>
  PROVE  AccountsInv'
<1>1. UNCHANGED <<application, account, invitation, resets, issued, spent, grants, home>>
  BY DEF entryVars
<1>2. OnlyAdds /\ issued' \in Nat
  BY <1>1, NothingTaken
<1>3. Tells(q)'
  BY <1>1 DEF Tells
<1>4. RequestsTell'
  BY <1>2, <1>3, OneGoesOn
<1>5. AccountsTypeOK' /\ EntryRecordsAgree' /\ OneUse'
  BY <1>1 DEF AccountsInv, AccountsTypeOK, EntryRecordsAgree, OneUse
<1> QED
  BY <1>4, <1>5 DEF AccountsInv

LEMMA HereTells ==
  ASSUME AccountsInv, NEW s \in Slot
  PROVE  inflight[s] \in Request /\ Tells(inflight[s])
BY DEF AccountsInv, RequestsTell

-----------------------------------------------------------------------------
LEMMA SignupKeeps ==
  ASSUME AccountsInv, NEW s \in Slot, SignupStep(s), UNCHANGED <<grants, home>>
  PROVE  AccountsInv'
<1>1. UNCHANGED <<account, invitation, resets, issued, spent, grants, home>>
  BY DEF SignupStep
<1>2. OnlyAdds /\ issued' \in Nat
  BY <1>1, NothingTaken
<1>3. ASSUME NEW q \in Request, Go(s, q), Tells(q), application' \in Application,
             application'.status = "APPROVED" =>
               \/ application.status = "APPROVED"
               \/ account.exists /\ invitation.status # "NONE"
      PROVE  AccountsInv'
  <2>1. issued \in Nat /\ Tells(q)'
    BY <1>1, <1>3 DEF Tells, AccountsInv, AccountsTypeOK
  <2>2. RequestsTell'
    BY <1>2, <1>3, <2>1, OneGoesOn
  <2>3. AccountsTypeOK'
    BY <1>1, <1>3 DEF AccountsInv, AccountsTypeOK, Application
  <2>4. EntryRecordsAgree' /\ OneUse'
    BY <1>1, <1>3 DEF AccountsInv, EntryRecordsAgree, OneUse
  <2> QED
    BY <2>2, <2>3, <2>4 DEF AccountsInv
<1>4. application \in Application /\ inflight[s] \in Request /\ Tells(inflight[s])
  BY DEF AccountsInv, AccountsTypeOK, Application, RequestsTell
<1>5. ASSUME UNCHANGED application, NEW q \in Request, Go(s, q), Tells(q)
      PROVE  AccountsInv'
  BY <1>3, <1>4, <1>5
<1>6. CASE LoadApply(s) /\ UNCHANGED application
  <2>1. [op |-> "file"] \in Request /\ Tells([op |-> "file"])
    BY DEF Request, Tells
  <2>2. /\ [op |-> "reapply", row |-> application] \in Request
        /\ Tells([op |-> "reapply", row |-> application])
    BY <1>4 DEF Request, Tells
  <2>3. \/ Go(s, [op |-> "file"])
        \/ Go(s, [op |-> "reapply", row |-> application])
    BY <1>6 DEF LoadApply, Start, Go
  <2> QED
    BY <1>5, <1>6, <2>1, <2>2, <2>3
<1>7. CASE DeleteOld(s)
  <2>1. [op |-> "file"] \in Request /\ Tells([op |-> "file"])
    BY DEF Request, Tells
  <2>2. CASE Go(s, [op |-> "file"]) /\ application' = [application EXCEPT !.status = "NONE"]
    <3>1. application' \in Application /\ application'.status # "APPROVED"
      BY <1>4, <2>2 DEF Application
    <3> QED
      BY <1>3, <2>1, <2>2, <3>1
  <2>3. CASE Go(s, Idle) /\ UNCHANGED application
    BY <1>5, <2>3, IdleTells
  <2> QED
    BY <1>7, <2>2, <2>3 DEF DeleteOld
<1>8. CASE File(s)
  <2>1. application' \in Application
    BY <1>4, <1>8, AccountsAssumption DEF File, Application, Applied
  <2>2. application'.status = "APPROVED" => application.status = "APPROVED"
    BY <1>4, <1>8 DEF File, Application
  <2> QED
    BY <1>3, <1>8, <2>1, <2>2, IdleTells DEF File, Finish
<1>9. CASE \E op \in { "reject", "account" } : LoadReview(s, op) /\ UNCHANGED application
  <2>1. PICK op \in { "reject", "account" } : LoadReview(s, op) /\ UNCHANGED application
    BY <1>9
  <2>2. [op |-> op, row |-> application] \in Request
    BY <1>4 DEF Request
  <2>3. Tells([op |-> op, row |-> application])
    BY DEF Tells
  <2>4. Go(s, [op |-> op, row |-> application])
    BY <2>1 DEF LoadReview, Start, Go
  <2> QED
    BY <1>5, <2>1, <2>2, <2>3, <2>4
<1>10. ASSUME NEW verdict \in { "REJECTED", "APPROVED" }, Reviewed(s, verdict), Finish(s),
              verdict = "APPROVED" => account.exists /\ invitation.status # "NONE"
       PROVE  AccountsInv'
  <2>1. CASE UNCHANGED application
    BY <1>5, <1>10, <2>1, IdleTells DEF Finish
  <2>2. CASE application' = [application EXCEPT !.status = verdict]
    <3>1. application' \in Application /\ application'.status = verdict
      BY <1>4, <2>2 DEF Application, Applied
    <3> QED
      BY <1>3, <1>10, <3>1, IdleTells DEF Finish
  <2> QED
    BY <1>10, <2>1, <2>2 DEF Reviewed
<1>11. CASE Reject(s)
  BY <1>10, <1>11 DEF Reject
<1>12. CASE Approve(s)
  BY <1>4, <1>10, <1>12 DEF Approve, Is, Tells
<1> QED
  BY <1>6, <1>7, <1>8, <1>9, <1>11, <1>12 DEF SignupStep

\* A token nobody has seen, in an invitation to the account.
LEMMA FreshInvitation ==
  ASSUME AccountsInv, NEW s \in Slot, NEW q \in Request, Go(s, q), NewToken, account.exists,
         q = Idle \/ q.op = "approve",
         invitation' = [status |-> "PENDING", token |-> issued', fresh |-> TRUE],
         UNCHANGED <<application, account, resets, spent, grants, home>>
  PROVE  AccountsInv'
<1>1. /\ issued \in Nat /\ issued' = issued + 1 /\ issued' \in 0 .. MaxTokens
      /\ DOMAIN resets \subseteq 1 .. issued /\ spent \subseteq 1 .. issued
  BY AccountsAssumption DEF AccountsInv, AccountsTypeOK, NewToken
<1>2. issued' \notin DOMAIN resets /\ issued' \notin spent
  BY <1>1
<1>3. OnlyAdds
  BY <1>1 DEF OnlyAdds
<1>4. Tells(q)'
  BY DEF Tells, Idle
<1>5. RequestsTell'
  BY <1>1, <1>3, <1>4, OneGoesOn
<1>6. AccountsTypeOK'
  <2>1. invitation' \in [status : Invited \cup {"NONE"}, token : 0 .. issued', fresh : BOOLEAN]
    BY <1>1 DEF Invited
  <2>2. DOMAIN resets \subseteq 1 .. issued' /\ spent \subseteq 1 .. issued'
    BY <1>1
  <2> QED
    BY <1>1, <2>1, <2>2 DEF AccountsInv, AccountsTypeOK
<1>7. EntryRecordsAgree'
  BY <1>2 DEF AccountsInv, EntryRecordsAgree
<1>8. OneUse'
  BY <1>1, <1>2 DEF OneUse
<1> QED
  BY <1>5, <1>6, <1>7, <1>8 DEF AccountsInv

LEMMA InvitationKeeps ==
  ASSUME AccountsInv, NEW s \in Slot, InvitationStep(s), UNCHANGED <<grants, home>>
  PROVE  AccountsInv'
<1>1. UNCHANGED <<application, resets, spent, grants, home>>
  BY DEF InvitationStep
<1>2. inflight[s] \in Request /\ Tells(inflight[s])
  BY HereTells
<1>3. CASE LoadInvite(s) /\ UNCHANGED <<account, invitation, issued>>
  <2>1. [op |-> "account"] \in Request /\ Tells([op |-> "account"])
    BY DEF Request, Tells
  <2>2. Go(s, [op |-> "account"])
    BY <1>3 DEF LoadInvite, Start, Go
  <2>3. UNCHANGED <<entryVars, grants, home>>
    BY <1>1, <1>3 DEF entryVars
  <2> QED
    BY <2>1, <2>2, <2>3, LoadKeeps
<1>4. CASE CreateInvitation(s)
  <2>1. inflight[s].op = "invitation" /\ account.exists /\ UNCHANGED account
    BY <1>2, <1>4 DEF CreateInvitation, Is, Tells
  <2>2. CASE "row" \in DOMAIN inflight[s]
    <3>1. inflight[s] \in [ op : { "reapply", "reject", "account", "invitation", "approve" },
                            row : Application ]
      BY <1>2, <2>1, <2>2 DEF Request, Idle
    <3>2. Return(inflight[s]) = [inflight[s] EXCEPT !.op = "approve"]
      BY <2>2 DEF Return
    <3>3. Return(inflight[s]) \in Request /\ Return(inflight[s]).op = "approve"
      BY <3>1, <3>2 DEF Request
    <3> QED
      BY <1>1, <1>4, <2>1, <3>3, FreshInvitation DEF CreateInvitation
  <2>3. CASE "row" \notin DOMAIN inflight[s]
    <3>1. Return(inflight[s]) = Idle
      BY <2>3 DEF Return
    <3> QED
      BY <1>1, <1>4, <2>1, <3>1, IdleTells, FreshInvitation DEF CreateInvitation
  <2> QED
    BY <2>2, <2>3
<1>5. CASE LoadResend(s)
  <2> DEFINE q == [op |-> "resend", invitation |-> invitation]
  <2>1. invitation \in Invitation /\ account.exists
    BY <1>5 DEF LoadResend, AccountsInv, AccountsTypeOK, Invitation, EntryRecordsAgree
  <2>2. q \in Request
    BY <2>1 DEF Request
  <2>3. Tells(q)
    BY <1>5, <2>1 DEF Tells, LoadResend
  <2>4. Go(s, q) /\ UNCHANGED <<entryVars, grants, home>>
    BY <1>1, <1>5 DEF LoadResend, Start, Go, entryVars
  <2> QED
    BY <2>2, <2>3, <2>4, LoadKeeps
<1>6. CASE Resend(s)
  <2>1. account.exists
    BY <1>2, <1>6 DEF Resend, Is, Tells
  <2> QED
    BY <1>1, <1>6, <2>1, IdleTells, FreshInvitation DEF Resend, Finish
<1>7. CASE Revoke
  <2>1. /\ invitation.status # "NONE" /\ invitation' = [invitation EXCEPT !.status = "REVOKED"]
        /\ UNCHANGED <<application, account, resets, issued, spent, grants, home, inflight>>
    BY <1>1, <1>7 DEF Revoke
  <2>2. /\ invitation \in [status : Invited \cup {"NONE"}, token : 0 .. issued, fresh : BOOLEAN]
        /\ issued \in Nat
    BY DEF AccountsInv, AccountsTypeOK
  <2>3. /\ invitation' \in [status : Invited \cup {"NONE"}, token : 0 .. issued, fresh : BOOLEAN]
        /\ invitation'.status = "REVOKED" /\ invitation'.token = invitation.token
    BY <2>1, <2>2 DEF Invited
  <2>4. OnlyAdds /\ issued' \in Nat
    BY <2>1, <2>2, <2>3 DEF OnlyAdds
  <2>5. RequestsTell'
    BY <2>1, <2>4, NoneGoesOn
  <2>6. AccountsTypeOK' /\ OneUse'
    BY <2>1, <2>3 DEF AccountsInv, AccountsTypeOK, OneUse
  <2>7. EntryRecordsAgree'
    BY <2>1, <2>3 DEF AccountsInv, EntryRecordsAgree
  <2> QED
    BY <2>5, <2>6, <2>7 DEF AccountsInv
<1> QED
  BY <1>3, <1>4, <1>5, <1>6, <1>7 DEF InvitationStep

LEMMA HomesAreHomes ==
  ASSUME NEW by, NEW g \in Grants
  PROVE  HomesOf(by, g.companies) \subseteq Company \cup {Absent}
BY DEF HomesOf, Grants

\* An account that was not there, with or without a password.
LEMMA NewAccount ==
  ASSUME AccountsInv, ~account.exists, NEW password \in BOOLEAN,
         account' = [exists |-> TRUE, password |-> password, active |-> TRUE],
         UNCHANGED <<application, invitation, resets, issued, spent>>, grants' \in Grants,
         home' \in Company \cup {Absent}
  PROVE  /\ AccountsTypeOK' /\ EntryRecordsAgree' /\ OneUse'
         /\ OnlyAdds /\ issued' \in Nat
<1>1. account = NoAccount /\ issued \in Nat
  BY DEF AccountsInv, AccountsTypeOK
<1>2. OnlyAdds /\ issued' \in Nat
  BY <1>1 DEF OnlyAdds, NoAccount
<1>3. AccountsTypeOK' /\ OneUse'
  BY DEF AccountsInv, AccountsTypeOK, OneUse
<1>4. EntryRecordsAgree'
  BY DEF AccountsInv, EntryRecordsAgree
<1> QED
  BY <1>2, <1>3, <1>4

LEMMA CreateKeeps ==
  ASSUME AccountsInv, NEW s \in Slot, Create(s)
  PROVE  AccountsInv'
<1>1. /\ inflight[s].op = "account" /\ ~account.exists
      /\ account' = [exists |-> TRUE, password |-> FALSE, active |-> TRUE]
      /\ Go(s, [inflight[s] EXCEPT !.op = "invitation"])
      /\ UNCHANGED <<application, invitation, resets, issued, spent>>
  BY DEF Create, CreateAccount, Is
<1>2. grants' \in Grants /\ home' \in Company \cup {Absent}
  <2>1. grants' \in Grants /\ home' \in HomesOf("head", grants'.companies)
    BY DEF Create, Grants, Nothing
  <2> QED
    BY <2>1, HomesAreHomes
<1>3. inflight[s] \in Request
  BY HereTells
<1>4. PICK q \in Request : q = [inflight[s] EXCEPT !.op = "invitation"] /\ q.op = "invitation"
  BY <1>1, <1>3 DEF Request, Idle
<1>5. /\ AccountsTypeOK' /\ EntryRecordsAgree' /\ OneUse'
      /\ OnlyAdds /\ issued' \in Nat
  BY <1>1, <1>2, NewAccount
<1>6. Tells(q)'
  BY <1>1, <1>4 DEF Tells
<1>7. RequestsTell'
  BY <1>1, <1>4, <1>5, <1>6, OneGoesOn
<1> QED
  BY <1>5, <1>7 DEF AccountsInv

LEMMA AddKeeps ==
  ASSUME AccountsInv, Add
  PROVE  AccountsInv'
<1>1. PICK password \in BOOLEAN : AddUser(password)
  BY DEF Add
<1>2. /\ grants' \in Grants /\ home' \in Company \cup {Absent}
      /\ UNCHANGED <<application, invitation, resets, issued, spent, inflight>>
  BY DEF Add, Grants
<1>3. /\ AccountsTypeOK' /\ EntryRecordsAgree' /\ OneUse'
      /\ OnlyAdds /\ issued' \in Nat
  BY <1>1, <1>2, NewAccount DEF AddUser
<1>4. RequestsTell'
  BY <1>2, <1>3, NoneGoesOn
<1> QED
  BY <1>3, <1>4 DEF AccountsInv

-----------------------------------------------------------------------------
LEMMA AcceptKeeps ==
  ASSUME AccountsInv, NEW s \in Slot, AcceptStep(s), UNCHANGED <<grants, home>>
  PROVE  AccountsInv'
<1>1. UNCHANGED <<application, resets, issued, grants, home>>
  BY DEF AcceptStep
<1>2. inflight[s] \in Request /\ Tells(inflight[s])
  BY HereTells
<1>3. /\ account \in [exists : BOOLEAN, password : BOOLEAN, active : BOOLEAN]
      /\ invitation \in [status : Invited \cup {"NONE"}, token : 0 .. issued, fresh : BOOLEAN]
      /\ issued \in Nat
  BY DEF AccountsInv, AccountsTypeOK
<1>4. CASE LoadAccept(s)
  <2> DEFINE q == [op |-> "accept", invitation |-> invitation]
  <2>1. /\ invitation.status = "PENDING" /\ Go(s, q)
        /\ UNCHANGED <<entryVars, grants, home>>
    BY <1>1, <1>4 DEF LoadAccept, Start, Go, entryVars
  <2>2. q \in Request
    BY <1>3 DEF Request, Invitation
  <2>3. account.exists /\ invitation.token \in 1 .. issued /\ invitation.token \notin DOMAIN resets
    BY <1>3, <2>1 DEF AccountsInv, EntryRecordsAgree, OneUse
  <2>4. Tells(q)
    BY <2>1, <2>3 DEF Tells
  <2> QED
    BY <2>1, <2>2, <2>4, LoadKeeps
<1>5. CASE WritePassword(s)
  <2>1. /\ inflight[s].op = "accept" /\ account' = [account EXCEPT !.password = TRUE]
        /\ UNCHANGED <<application, invitation, resets, issued, spent, grants, home>>
        /\ Go(s, [inflight[s] EXCEPT !.op = "accepted"])
    BY <1>1, <1>5 DEF WritePassword, Is
  <2>2. PICK q \in Request :
          /\ q = [inflight[s] EXCEPT !.op = "accepted"] /\ q.op = "accepted"
          /\ q.invitation = inflight[s].invitation
    BY <1>2, <2>1 DEF Request, Idle
  <2>3. /\ account.exists /\ account' = [account EXCEPT !.password = TRUE]
        /\ account'.exists /\ account'.password
        /\ account' \in [exists : BOOLEAN, password : BOOLEAN, active : BOOLEAN]
    BY <1>2, <1>3, <2>1 DEF Tells
  <2>4. OnlyAdds /\ issued' \in Nat
    BY <1>3, <2>1, <2>3 DEF OnlyAdds
  <2>5. Tells(q)'
    BY <1>2, <2>1, <2>2, <2>3 DEF Tells
  <2>6. RequestsTell'
    BY <2>1, <2>2, <2>4, <2>5, OneGoesOn
  <2>7. AccountsTypeOK' /\ OneUse'
    BY <2>1, <2>3 DEF AccountsInv, AccountsTypeOK, OneUse
  <2>8. EntryRecordsAgree'
    BY <2>1, <2>3 DEF AccountsInv, EntryRecordsAgree
  <2> QED
    BY <2>6, <2>7, <2>8 DEF AccountsInv
<1>6. CASE Accepted(s)
  <2> DEFINE t == inflight[s].invitation.token
  <2>1. /\ inflight[s].op = "accepted"
        /\ invitation' = [invitation EXCEPT !.status = "ACCEPTED"]
        /\ spent' = spent \cup {t}
        /\ UNCHANGED <<application, account, resets, issued, grants, home>>
        /\ Go(s, Idle)
    BY <1>1, <1>6 DEF Accepted, Is, Finish
  <2>2. /\ account.exists /\ account.password /\ invitation.status # "NONE"
        /\ t \in 1 .. issued /\ t \notin DOMAIN resets
    BY <1>2, <2>1 DEF Tells
  <2>3. /\ invitation'.status = "ACCEPTED" /\ invitation'.token = invitation.token
        /\ invitation' \in [status : Invited \cup {"NONE"}, token : 0 .. issued, fresh : BOOLEAN]
    BY <1>3, <2>1 DEF Invited
  <2>4. OnlyAdds /\ issued' \in Nat
    BY <1>3, <2>1, <2>3 DEF OnlyAdds
  <2>5. RequestsTell'
    <3>1. Tells(Idle)'
      BY DEF Tells, Idle
    <3> QED
      BY <2>1, <2>4, <3>1, IdleTells, OneGoesOn
  <2> HIDE DEF t
  <2>6. AccountsTypeOK'
    BY <2>1, <2>2, <2>3 DEF AccountsInv, AccountsTypeOK
  <2>7. EntryRecordsAgree' /\ OneUse'
    BY <2>1, <2>2, <2>3 DEF AccountsInv, EntryRecordsAgree, OneUse
  <2> QED
    BY <2>5, <2>6, <2>7 DEF AccountsInv
<1> QED
  BY <1>4, <1>5, <1>6 DEF AcceptStep

LEMMA ForgotKeeps ==
  ASSUME AccountsInv, NEW s \in Slot, ForgotStep(s), UNCHANGED <<grants, home>>
  PROVE  AccountsInv'
<1>1. UNCHANGED <<application, account, invitation, spent, grants, home>>
  BY DEF ForgotStep
<1>2. inflight[s] \in Request /\ Tells(inflight[s])
  BY HereTells
<1>3. /\ issued \in Nat /\ issued <= MaxTokens /\ DOMAIN resets \subseteq 1 .. issued
      /\ spent \subseteq 1 .. issued /\ invitation.token \in 0 .. issued
  BY AccountsAssumption DEF AccountsInv, AccountsTypeOK
<1>4. CASE LoadForgot(s)
  <2>1. /\ account.exists /\ Go(s, [op |-> "forgot"]) /\ UNCHANGED <<entryVars, grants, home>>
    BY <1>1, <1>4 DEF LoadForgot, Start, Go, entryVars
  <2>2. [op |-> "forgot"] \in Request /\ Tells([op |-> "forgot"])
    BY <2>1 DEF Request, Tells
  <2> QED
    BY <2>1, <2>2, LoadKeeps
<1>5. CASE ClearResets(s)
  <2> DEFINE q == [op |-> "token", left |-> {}]
  <2>1. /\ account.exists /\ DOMAIN resets' = {} /\ resets' = << >>
        /\ UNCHANGED issued /\ Go(s, q)
    BY <1>2, <1>5 DEF ClearResets, Is, Tells
  <2>2. OnlyAdds /\ issued' \in Nat
    BY <1>1, <1>3, <2>1 DEF OnlyAdds
  <2>3. q \in Request /\ Tells(q)'
    BY <1>1, <2>1 DEF Request, Tells
  <2>4. RequestsTell'
    BY <2>1, <2>2, <2>3, OneGoesOn
  <2>5. AccountsTypeOK'
    BY <1>1, <2>1 DEF AccountsInv, AccountsTypeOK
  <2>6. EntryRecordsAgree' /\ OneUse'
    BY <1>1, <2>1 DEF AccountsInv, EntryRecordsAgree, OneUse
  <2> QED
    BY <2>4, <2>5, <2>6 DEF AccountsInv
<1>6. CASE CreateReset(s)
  <2>1. /\ account.exists /\ Go(s, Idle)
        /\ issued' = issued + 1 /\ issued' \in 0 .. MaxTokens
        /\ resets' = [ t \in DOMAIN resets \cup {issued'} |->
                         IF t = issued' THEN [used |-> FALSE, fresh |-> TRUE] ELSE resets[t] ]
    BY <1>2, <1>3, <1>6, AccountsAssumption DEF CreateReset, Is, Tells, NewToken, Finish
  <2>2. issued' \notin spent /\ issued' # invitation.token /\ issued' \notin DOMAIN resets
    BY <1>3, <2>1
  <2>3. /\ DOMAIN resets' = DOMAIN resets \cup {issued'}
        /\ \A t \in DOMAIN resets : resets'[t] = resets[t]
        /\ resets'[issued'] = [used |-> FALSE, fresh |-> TRUE]
    BY <2>1, <2>2
  <2>4. OnlyAdds /\ issued' \in Nat
    BY <1>1, <1>3, <2>1, <2>3 DEF OnlyAdds
  <2>5. RequestsTell'
    <3>1. Tells(Idle)'
      BY DEF Tells, Idle
    <3> QED
      BY <2>1, <2>4, <3>1, IdleTells, OneGoesOn
  <2>6. AccountsTypeOK'
    <3>1. DOMAIN resets' \subseteq 1 .. issued' /\ spent \subseteq 1 .. issued'
      BY <1>3, <2>1, <2>3
    <3>2. ASSUME NEW t \in DOMAIN resets'
          PROVE  resets'[t] \in [used : BOOLEAN, fresh : BOOLEAN]
      <4>1. CASE t \in DOMAIN resets
        BY <2>3, <4>1 DEF AccountsInv, AccountsTypeOK
      <4>2. CASE t = issued'
        <5>1. [used |-> FALSE, fresh |-> TRUE] \in [used : BOOLEAN, fresh : BOOLEAN]
          OBVIOUS
        <5>2. resets'[t] = [used |-> FALSE, fresh |-> TRUE]
          BY <2>3, <4>2
        <5> QED
          BY <5>1, <5>2
      <4> QED
        BY <2>3, <4>1, <4>2
    <3>3. invitation \in [status : Invited \cup {"NONE"}, token : 0 .. issued', fresh : BOOLEAN]
      BY <1>3, <2>1 DEF AccountsInv, AccountsTypeOK
    <3> QED
      BY <1>1, <2>1, <3>1, <3>2, <3>3 DEF AccountsInv, AccountsTypeOK
  <2>7. EntryRecordsAgree' /\ OneUse'
    BY <1>1, <2>2, <2>3 DEF AccountsInv, EntryRecordsAgree, OneUse
  <2> QED
    BY <2>5, <2>6, <2>7 DEF AccountsInv
<1> QED
  BY <1>4, <1>5, <1>6 DEF ForgotStep

LEMMA ResetKeeps ==
  ASSUME AccountsInv, NEW s \in Slot, ResetStep(s), UNCHANGED <<grants, home>>
  PROVE  AccountsInv'
<1>1. UNCHANGED <<application, invitation, issued, grants, home>>
  BY DEF ResetStep
<1>2. inflight[s] \in Request /\ Tells(inflight[s])
  BY HereTells
<1>3. /\ account \in [exists : BOOLEAN, password : BOOLEAN, active : BOOLEAN]
      /\ issued \in Nat /\ DOMAIN resets \subseteq 1 .. issued
      /\ \A t \in DOMAIN resets : resets[t] \in [used : BOOLEAN, fresh : BOOLEAN]
  BY DEF AccountsInv, AccountsTypeOK
<1>4. ASSUME NEW t \in DOMAIN resets, LoadReset(s, t)
      PROVE  AccountsInv'
  <2> DEFINE q == [op |-> "reset", token |-> t, todo |-> { "password", "used" }]
  <2>1. Go(s, q) /\ UNCHANGED <<entryVars, grants, home>>
    BY <1>1, <1>4 DEF LoadReset, Start, Go, entryVars
  <2>2. t \in 1 .. issued /\ t # invitation.token /\ q \in Request
    BY <1>3 DEF AccountsInv, OneUse, Request
  <2>3. account.exists
    BY DEF AccountsInv, AccountsTypeOK
  <2>4. Tells(q)
    BY <2>2, <2>3 DEF Tells
  <2> QED
    BY <2>1, <2>2, <2>4, LoadKeeps
<1>5. CASE WriteReset(s)
  <2>1. /\ inflight[s].op = "reset" /\ inflight[s].token \in 1 .. issued
        /\ inflight[s].todo \in SUBSET { "password", "used" }
        /\ account.exists /\ inflight[s].token # invitation.token
    BY <1>2, <1>5 DEF WriteReset, Is, Request, Tells, Idle
  <2>2. PICK token \in 1 .. issued, todo \in SUBSET { "password", "used" } :
          token = inflight[s].token /\ todo = inflight[s].todo
    BY <2>1
  <2>3. PICK write \in todo :
          /\ account' = IF write = "password" THEN [account EXCEPT !.password = TRUE] ELSE account
          /\ resets' = IF write = "used" /\ token \in DOMAIN resets
                         THEN [resets EXCEPT ![token].used = TRUE] ELSE resets
          /\ IF todo = {write}
               THEN Finish(s) /\ spent' = spent \cup {token}
               ELSE Go(s, [inflight[s] EXCEPT !.todo = @ \ {write}]) /\ spent' = spent
    BY <1>5, <2>2 DEF WriteReset
  <2>4. /\ account' \in [exists : BOOLEAN, password : BOOLEAN, active : BOOLEAN]
        /\ account'.exists /\ (account.password => account'.password)
    BY <1>3, <2>1, <2>3
  <2>5. /\ DOMAIN resets' = DOMAIN resets
        /\ \A t \in DOMAIN resets : /\ resets'[t] \in [used : BOOLEAN, fresh : BOOLEAN]
                                    /\ resets[t].used => resets'[t].used
        /\ write = "used" /\ token \in DOMAIN resets => resets'[token].used
    BY <1>3, <2>3
  <2>6. "used" \notin todo \ {write} /\ token \in DOMAIN resets => resets'[token].used
    BY <1>2, <2>1, <2>2, <2>5 DEF Tells
  <2>7. OnlyAdds /\ issued' \in Nat
    BY <1>1, <1>3, <2>4, <2>5 DEF OnlyAdds
  <2>8. RequestsTell'
    <3>1. CASE todo = {write}
      <4>1. Tells(Idle)'
        BY DEF Tells, Idle
      <4> QED
        BY <2>3, <2>7, <3>1, <4>1, IdleTells, OneGoesOn DEF Finish
    <3>2. CASE todo # {write}
      <4>1. PICK q \in Request :
              /\ q = [inflight[s] EXCEPT !.todo = @ \ {write}] /\ q.op = "reset"
              /\ q.token = token /\ q.todo = todo \ {write}
        <5> DEFINE Resetting == [ op : {"reset"}, token : Nat, todo : SUBSET { "password", "used" } ]
                   q == [inflight[s] EXCEPT !.todo = @ \ {write}]
        <5>1. inflight[s] \in Resetting
          BY <1>2, <2>1 DEF Request, Idle
        <5>2. q \in Resetting /\ q.token = inflight[s].token /\ q.todo = inflight[s].todo \ {write}
          BY <5>1
        <5>3. Resetting \subseteq Request
          BY DEF Request
        <5> QED
          BY <2>2, <5>2, <5>3
      <4>2. Tells(q)'
        BY <1>1, <2>1, <2>2, <2>4, <2>5, <2>6, <4>1 DEF Tells
      <4> QED
        BY <2>3, <2>7, <3>2, <4>1, <4>2, OneGoesOn
    <3> QED
      BY <3>1, <3>2
  <2>9. AccountsTypeOK'
    <3>1. spent' \subseteq 1 .. issued
      BY <2>2, <2>3 DEF AccountsInv, AccountsTypeOK
    <3> QED
      BY <1>1, <2>4, <2>5, <3>1 DEF AccountsInv, AccountsTypeOK
  <2>10. EntryRecordsAgree'
    <3>1. ASSUME NEW t \in spent'
          PROVE  /\ invitation.token = t => invitation.status # "PENDING"
                 /\ t \in DOMAIN resets => resets'[t].used
      <4>1. CASE t \in spent
        BY <2>5, <4>1 DEF AccountsInv, EntryRecordsAgree
      <4>2. CASE t = token /\ todo = {write}
        BY <2>1, <2>2, <2>6, <4>2
      <4> QED
        BY <2>3, <3>1, <4>1, <4>2
    <3> QED
      BY <1>1, <2>4, <2>5, <3>1 DEF AccountsInv, EntryRecordsAgree
  <2>11. OneUse'
    BY <1>1, <2>5 DEF AccountsInv, OneUse
  <2> QED
    BY <2>8, <2>9, <2>10, <2>11 DEF AccountsInv
<1> QED
  BY <1>4, <1>5 DEF ResetStep

LEMMA DropKeeps ==
  ASSUME AccountsInv, NEW s \in Slot, Drop(s), UNCHANGED <<grants, home>>
  PROVE  AccountsInv'
BY IdleTells, LoadKeeps DEF Drop, Finish

LEMMA ExpireKeeps ==
  ASSUME AccountsInv, Expire, UNCHANGED <<grants, home>>
  PROVE  AccountsInv'
<1>1. UNCHANGED <<application, account, issued, spent, inflight, grants, home>>
  BY DEF Expire
<1>2. /\ issued \in Nat /\ DOMAIN resets \subseteq 1 .. issued
      /\ invitation \in [status : Invited \cup {"NONE"}, token : 0 .. issued, fresh : BOOLEAN]
      /\ \A t \in DOMAIN resets : resets[t] \in [used : BOOLEAN, fresh : BOOLEAN]
  BY DEF AccountsInv, AccountsTypeOK
<1>3. /\ invitation' \in [status : Invited \cup {"NONE"}, token : 0 .. issued, fresh : BOOLEAN]
      /\ invitation'.status = invitation.status /\ invitation'.token = invitation.token
      /\ DOMAIN resets' = DOMAIN resets
      /\ \A t \in DOMAIN resets : /\ resets'[t] \in [used : BOOLEAN, fresh : BOOLEAN]
                                  /\ resets'[t].used = resets[t].used
  BY <1>2 DEF Expire
<1>4. ~account.exists => resets' = << >>
  BY DEF Expire, AccountsInv, AccountsTypeOK
<1>5. OnlyAdds /\ issued' \in Nat
  BY <1>1, <1>2, <1>3 DEF OnlyAdds
<1>6. RequestsTell'
  BY <1>1, <1>5, NoneGoesOn
<1>7. AccountsTypeOK'
  BY <1>1, <1>3, <1>4 DEF AccountsInv, AccountsTypeOK
<1>8. EntryRecordsAgree' /\ OneUse'
  BY <1>1, <1>3 DEF AccountsInv, EntryRecordsAgree, OneUse
<1> QED
  BY <1>6, <1>7, <1>8 DEF AccountsInv

LEMMA ToggleKeeps ==
  ASSUME AccountsInv, Toggle
  PROVE  AccountsInv'
<1>1. PICK on \in BOOLEAN : account.exists /\ account' = [account EXCEPT !.active = on]
  BY DEF Toggle, SetActive
<1>2. UNCHANGED <<application, invitation, resets, issued, spent, inflight, grants, home>>
  BY DEF Toggle
<1>3. account \in [exists : BOOLEAN, password : BOOLEAN, active : BOOLEAN] /\ issued \in Nat
  BY DEF AccountsInv, AccountsTypeOK
<1>4. /\ account' \in [exists : BOOLEAN, password : BOOLEAN, active : BOOLEAN]
      /\ account'.exists /\ account'.password = account.password
  BY <1>1, <1>3
<1>5. OnlyAdds /\ issued' \in Nat
  BY <1>2, <1>3, <1>4 DEF OnlyAdds
<1>6. RequestsTell'
  BY <1>2, <1>5, NoneGoesOn
<1>7. AccountsTypeOK' /\ EntryRecordsAgree' /\ OneUse'
  BY <1>2, <1>4 DEF AccountsInv, AccountsTypeOK, EntryRecordsAgree, OneUse
<1> QED
  BY <1>6, <1>7 DEF AccountsInv

-----------------------------------------------------------------------------
(***************************************************************************)
(* The grants.  What an edit inserts are grants, whoever edits.            *)
(***************************************************************************)
LEMMA EditsAreGrants ==
  ASSUME NEW held \in Grants, NEW patch \in Patches
  PROVE  Merged(held, patch) \in Grants /\ Resolved(held, patch) \in Grants
<1>1. ASSUME NEW g \in Grants
      PROVE  Normalized(g) \in Grants
  BY DEF Normalized, Grants
<1>2. /\ patch.companies \in (SUBSET Company) \cup {Absent}
      /\ patch.systems \in (SUBSET System) \cup {Absent}
  BY MembershipsAssumption
<1>3. ASSUME NEW S, NEW given \in (SUBSET S) \cup {Absent}, NEW otherwise \in SUBSET S
      PROVE  Or(given, otherwise) \in SUBSET S
  BY <1>3 DEF Or
<1>4. held.companies \subseteq Company /\ held.systems \subseteq System
  BY DEF Grants
<1>5. Resolved(held, patch) \in Grants
  <2> DEFINE g == [ companies |-> Or(patch.companies, held.companies),
                    systems   |-> Or(patch.systems, held.systems) ]
  <2>1. g \in Grants
    BY <1>2, <1>3, <1>4 DEF Grants
  <2> HIDE DEF g
  <2>2. Normalized(g) \in Grants
    BY <1>1, <2>1
  <2> QED
    BY <2>2 DEF Resolved, g
<1>6. Asked(held, patch) \in Grants
  <2>1. /\ (IF OrgWide(Manager) THEN {} ELSE held["companies"] \cap ScopeCompanies) \in SUBSET Company
        /\ (IF OrgWide(Manager) THEN {} ELSE held["systems"] \cap SeenSystems) \in SUBSET System
    BY <1>4
  <2>2. /\ Asked(held, patch) =
             [ companies |-> Or(patch.companies,
                 IF OrgWide(Manager) THEN {} ELSE held["companies"] \cap ScopeCompanies),
               systems   |-> Or(patch.systems,
                 IF OrgWide(Manager) THEN {} ELSE held["systems"] \cap SeenSystems) ]
    BY DEF Asked
  <2>3. /\ Or(patch.companies, IF OrgWide(Manager) THEN {} ELSE held["companies"] \cap ScopeCompanies)
             \in SUBSET Company
        /\ Or(patch.systems, IF OrgWide(Manager) THEN {} ELSE held["systems"] \cap SeenSystems)
             \in SUBSET System
    BY <1>2, <1>3, <2>1
  <2> QED
    BY <2>2, <2>3 DEF Grants
<1>7. Merged(held, patch) \in Grants
  <2> DEFINE g == [ companies |-> (held.companies \ ScopeCompanies)
                        \cup (Asked(held, patch).companies \cap ScopeCompanies),
                    systems   |-> (held.systems \ ScopeSystems)
                        \cup (Asked(held, patch).systems \cap ScopeSystems) ]
  <2>1. /\ Asked(held, patch).companies \subseteq Company
        /\ Asked(held, patch).systems \subseteq System
    BY <1>6 DEF Grants
  <2>2. g \in Grants
    BY <1>4, <2>1 DEF Grants
  <2> HIDE DEF g
  <2>3. Normalized(g) \in Grants
    BY <1>1, <2>2
  <2> QED
    BY <2>3 DEF Merged, g
<1> QED
  BY <1>5, <1>7

\* A step that touches nothing but what an account may reach.
LEMMA GrantsMove ==
  ASSUME AccountsInv, account.exists, grants' \in Grants, home' \in Company \cup {Absent},
         UNCHANGED entryVars
  PROVE  AccountsTypeOK' /\ EntryRecordsAgree' /\ OneUse' /\ OnlyAdds /\ issued' \in Nat
<1>1. UNCHANGED <<application, account, invitation, resets, issued, spent>>
  BY DEF entryVars
<1>2. OnlyAdds /\ issued' \in Nat
  BY <1>1, NothingTaken
<1> QED
  BY <1>1, <1>2 DEF AccountsInv, AccountsTypeOK, EntryRecordsAgree, OneUse

Editing ==
  [ op : { "systems", "companies", "rewrite" }, by : { "manager", "head" },
    patch : Patches, began : Grants, left : Grants, to : Grants ]

LEMMA EditKeeps ==
  ASSUME AccountsInv, NEW s \in Slot, EditStep(s)
  PROVE  AccountsInv'
<1>1. UNCHANGED entryVars
  BY DEF EditStep
<1>2. inflight[s] \in Request /\ Tells(inflight[s]) /\ grants \in Grants
      /\ home \in Company \cup {Absent}
  BY HereTells DEF AccountsInv, AccountsTypeOK
<1>3. Editing \subseteq Request
  BY DEF Editing, Request
<1>4. ASSUME account.exists, grants' \in Grants, home' \in Company \cup {Absent},
             NEW q \in Editing \cup {Idle}, Go(s, q)
      PROVE  AccountsInv'
  <2>1. AccountsTypeOK' /\ EntryRecordsAgree' /\ OneUse' /\ OnlyAdds /\ issued' \in Nat
    BY <1>1, <1>4, GrantsMove
  <2>2. q \in Request
    BY <1>3, IdleTells
  <2>3. Tells(q)'
    BY <1>1, <1>4 DEF Tells, Editing, Idle, entryVars
  <2>4. RequestsTell'
    BY <1>4, <2>1, <2>2, <2>3, OneGoesOn
  <2> QED
    BY <2>1, <2>4 DEF AccountsInv
<1>5. ASSUME NEW by \in { "manager", "head" }, NEW patch \in Patches, LoadEdit(s, by, patch)
      PROVE  AccountsInv'
  <2> DEFINE to == IF by = "manager" THEN Merged(grants, patch) ELSE Resolved(grants, patch)
             q == [ op |-> "systems", by |-> by, patch |-> patch, began |-> grants,
                    left |-> grants, to |-> to ]
  <2>1. account.exists /\ Go(s, q) /\ grants' = grants /\ home' = home
    BY <1>5 DEF LoadEdit, Start, Go
  <2>2. to \in Grants
    BY <1>2, EditsAreGrants
  <2> HIDE DEF to
  <2>3. q \in Editing
    BY <1>2, <2>2 DEF Editing
  <2> QED
    BY <1>2, <1>4, <2>1, <2>3
<1>6. ASSUME inflight[s].op \in { "systems", "companies", "rewrite" }
      PROVE  inflight[s] \in Editing /\ account.exists
  BY <1>2, <1>6 DEF Request, Editing, Idle, Tells
<1>7. ASSUME NEW side \in { "systems", "companies" }, NEW next \in { "companies", "rewrite" },
             ClearSide(s, side, next)
      PROVE  AccountsInv'
  <2>1. inflight[s] \in Editing /\ account.exists
    BY <1>6, <1>7 DEF ClearSide, Is
  <2>2. PICK q \in Editing : q = inflight[s]
    BY <2>1
  <2>3. [grants EXCEPT ![side] = {}] \in Grants
    BY <1>2 DEF Grants
  <2>4. [q.left EXCEPT ![side] = {}] \in Grants
    BY DEF Grants, Editing
  <2>5. [q EXCEPT !.op = next] \in Editing /\ [q EXCEPT !.op = next, !.left[side] = {}] \in Editing
    BY <2>4 DEF Editing
  <2>6. /\ home' = home
        /\ \/ grants' = [grants EXCEPT ![side] = {}]
              /\ Go(s, [q EXCEPT !.op = next, !.left[side] = {}])
           \/ grants' = grants /\ Go(s, [q EXCEPT !.op = next])
    BY <1>7, <2>2 DEF ClearSide
  <2> QED
    BY <1>2, <1>4, <2>1, <2>3, <2>5, <2>6
<1>8. CASE Rewrite(s)
  <2>1. inflight[s] \in Editing /\ account.exists
    BY <1>6, <1>8 DEF Rewrite, Is
  <2>2. grants' \in Grants /\ Go(s, Idle)
    BY <1>2, <1>8, <2>1 DEF Rewrite, Finish, Grants, Editing
  <2>3. inflight[s].to \in Grants /\ home' \in HomesOf(inflight[s].by, inflight[s].to.companies)
    BY <1>8, <2>1 DEF Rewrite, Editing
  <2>4. home' \in Company \cup {Absent}
    BY <2>3, HomesAreHomes
  <2> QED
    BY <1>4, <2>1, <2>2, <2>4
<1>9. CASE RewriteFails(s)
  <2>1. account.exists /\ grants' = grants /\ home' = home /\ Go(s, Idle)
    BY <1>6, <1>9 DEF RewriteFails, Is, Finish
  <2> QED
    BY <1>2, <1>4, <2>1
<1> QED
  BY <1>5, <1>7, <1>8, <1>9 DEF EditStep

LEMMA RosterKeeps ==
  ASSUME AccountsInv, RosterStep
  PROVE  AccountsInv'
<1>1. UNCHANGED <<entryVars, inflight, home>>
  BY DEF RosterStep
<1>2. /\ grants \in Grants /\ (~account.exists => grants = Nothing)
      /\ home \in Company \cup {Absent}
  BY DEF AccountsInv, AccountsTypeOK
<1>3. account.exists /\ grants' \in Grants
  <2>1. PICK x \in System : RosterAdd(x) \/ RosterRemove(x)
    BY DEF RosterStep
  <2>2. CASE RosterAdd(x)
    BY <1>2, <2>1, <2>2 DEF RosterAdd, Grants
  <2>3. CASE RosterRemove(x)
    BY <1>2, <2>1, <2>3 DEF RosterRemove, Grants, Nothing
  <2> QED
    BY <2>1, <2>2, <2>3
<1>4. AccountsTypeOK' /\ EntryRecordsAgree' /\ OneUse' /\ OnlyAdds /\ issued' \in Nat
  BY <1>1, <1>2, <1>3, GrantsMove
<1>5. RequestsTell'
  BY <1>1, <1>4, NoneGoesOn
<1> QED
  BY <1>4, <1>5 DEF AccountsInv

LEMMA SetHomeKeeps ==
  ASSUME AccountsInv, SetHome
  PROVE  AccountsInv'
<1>1. AccountsTypeOK' /\ EntryRecordsAgree' /\ OneUse' /\ OnlyAdds /\ issued' \in Nat
  BY GrantsMove DEF SetHome, AccountsInv, AccountsTypeOK
<1>2. RequestsTell'
  BY <1>1, NoneGoesOn DEF SetHome
<1> QED
  BY <1>1, <1>2 DEF AccountsInv

-----------------------------------------------------------------------------
LEMMA AccountsInitially == Init => AccountsInv
<1> SUFFICES ASSUME Init PROVE AccountsInv
  OBVIOUS
<1>1. /\ application = [status |-> "NONE", id |-> 0] /\ account = NoAccount
      /\ invitation = NoInvitation /\ resets = << >> /\ issued = 0 /\ spent = {}
      /\ inflight = [s \in Slot |-> Idle] /\ grants = Nothing /\ home = Absent
  BY DEF Init, EntryInit
<1>2. DOMAIN resets = {}
  BY <1>1
<1>3. AccountsTypeOK
  <2>1. application \in [status : Applied \cup {"NONE"}, id : 0 .. MaxApplications]
    BY <1>1, AccountsAssumption
  <2>2. /\ account \in [exists : BOOLEAN, password : BOOLEAN, active : BOOLEAN]
        /\ invitation \in [status : Invited \cup {"NONE"}, token : 0 .. issued, fresh : BOOLEAN]
    BY <1>1 DEF NoAccount, NoInvitation
  <2>3. issued \in 0 .. MaxTokens /\ spent \subseteq 1 .. issued /\ grants \in Grants
    BY <1>1, AccountsAssumption DEF Nothing, Grants
  <2> QED
    BY <1>1, <1>2, <2>1, <2>2, <2>3 DEF AccountsTypeOK
<1>4. EntryRecordsAgree /\ OneUse
  BY <1>1, <1>2 DEF EntryRecordsAgree, OneUse, NoInvitation
<1>5. RequestsTell
  <2>1. DOMAIN inflight = Slot /\ \A s \in Slot : inflight[s] = Idle
    BY <1>1
  <2>2. ASSUME NEW s \in Slot PROVE inflight[s] \in Request /\ Tells(inflight[s])
    BY <2>1, IdleTells DEF Tells, Idle
  <2> QED
    BY <2>1, <2>2 DEF RequestsTell
<1> QED
  BY <1>3, <1>4, <1>5 DEF AccountsInv

LEMMA AccountsNext == AccountsInv /\ [Next]_vars => AccountsInv'
<1> SUFFICES ASSUME AccountsInv, [Next]_vars PROVE AccountsInv'
  OBVIOUS
<1>1. ASSUME NEW s \in Slot, EntryStep(s), UNCHANGED <<grants, home>> PROVE AccountsInv'
  BY <1>1, SignupKeeps, InvitationKeeps, AcceptKeeps, ForgotKeeps, ResetKeeps, DropKeeps
  DEF EntryStep
<1>2. ASSUME NEW s \in Slot, Create(s) \/ EditStep(s) PROVE AccountsInv'
  BY <1>2, CreateKeeps, EditKeeps
<1>3. CASE Expire /\ UNCHANGED <<grants, home>>
  BY <1>3, ExpireKeeps
<1>4. CASE Add \/ Toggle \/ RosterStep \/ SetHome
  BY <1>4, AddKeeps, ToggleKeeps, RosterKeeps, SetHomeKeeps
<1>5. CASE UNCHANGED vars
  <2>1. UNCHANGED <<application, account, invitation, resets, issued, spent, inflight, grants, home>>
    BY <1>5 DEF vars, entryVars
  <2>2. AccountsTypeOK' /\ EntryRecordsAgree' /\ OneUse'
    BY <2>1 DEF AccountsInv, AccountsTypeOK, EntryRecordsAgree, OneUse
  <2>3. RequestsTell'
    BY <2>1, NothingTaken, NoneGoesOn
  <2> QED
    BY <2>2, <2>3 DEF AccountsInv
<1> QED
  BY <1>1, <1>2, <1>3, <1>4, <1>5 DEF Next

LEMMA AlwaysAccounts == AccountsSpec => []AccountsInv
BY AccountsInitially, AccountsNext, PTL DEF AccountsSpec

(***************************************************************************)
(* Every variable of accounts and memberships keeps its type; an address   *)
(* without an account has no grants and no tokens.                         *)
(***************************************************************************)
THEOREM AccountsTyped == AccountsSpec => []AccountsTypeOK
<1>1. AccountsInv => AccountsTypeOK
  BY DEF AccountsInv
<1> QED
  BY <1>1, AlwaysAccounts, PTL

(***************************************************************************)
(* However many requests overlap, fail or stop between two statements:     *)
(* approved means an account and an invitation, accepted means a password, *)
(* and a token that has been answered opens nothing more.                  *)
(***************************************************************************)
THEOREM EntryAgrees == AccountsSpec => []EntryRecordsAgree
<1>1. AccountsInv => EntryRecordsAgree
  BY DEF AccountsInv
<1> QED
  BY <1>1, AlwaysAccounts, PTL

-----------------------------------------------------------------------------
(***************************************************************************)
(* The scope.  What the matrix says of reading, and the four ways a role   *)
(* is asked about a ticket.                                                *)
(***************************************************************************)
ReadingAll == { "QA", "PROJECT_MANAGER", "PROGRAMMING_HEAD", "SENIOR_MANAGEMENT" }

LEMMA Matrix ==
  ASSUME NEW role \in Role
  PROVE  /\ May(role, "ticket:read-all") <=> role \in ReadingAll
         /\ May(role, "structure:read-all") <=> role \in ReadingAll \cup {"DEVELOPER"}
BY DEF Role, ReadingAll, May, RoleActions, Filing, Requester, SystemOwner, Testing,
       Developer, Qa, Oversight, ProjectManager, ProgrammingHead

\* What is granted, can be chosen: a slice holds both sides of a grant.
LEMMA SliceHolds ==
  ASSUME NEW u \in User, NEW t \in Ticket, May(u.role, "structure:read-all"),
         OnSystem(u, t) \/ OnCompany(u, t)
  PROVE  t.system \in VisibleSystems(u) /\ CompanyOf[t.system] \in VisibleCompanies(u)
<1>1. t.system \in System /\ CompanyOf[t.system] \in Company
  BY ScopeAssumption DEF Ticket
<1>2. /\ t.system \in SliceSystems(u.grants)
      /\ CompanyOf[t.system] \in SliceCompanies(u.grants)
  BY <1>1 DEF SliceSystems, SliceCompanies, OnSystem, OnCompany
<1> QED
  BY <1>1, <1>2 DEF VisibleSystems, VisibleCompanies

LEMMA AnswersAgreeAlways ==
  ASSUME NEW u \in User, u.active, NEW t \in Ticket
  PROVE  AnswersAgree(u, t)
<1>1. /\ u.role \in Role /\ t.system \in System
      /\ CompanyOf[t.system] \in Company
  BY ScopeAssumption DEF User, Ticket
<1>2. /\ May(u.role, "ticket:read-all") <=> u.role \in ReadingAll
      /\ May(u.role, "structure:read-all") <=> u.role \in ReadingAll \cup {"DEVELOPER"}
  BY <1>1, Matrix
<1>3. OnCompany(u, t) => InCompany(u, t)
  BY <1>1, ScopeAssumption DEF OnCompany, InCompany, Companies
<1>4. /\ CanView(u, t) => Admitted(u, t) \/ t.mentioned
      /\ Admitted(u, t) =>
           \/ CanView(u, t)
           \/ t.systemOwner /\ u.role # "SYSTEM_OWNER"
           \/ t.creator /\ u.role = "DEVELOPER"
  <2>1. CASE u.role \in ReadingAll
    BY <1>2, <2>1 DEF CanView, Admitted, Granted, InPortfolio, ReadingAll
  <2>2. CASE u.role = "DEVELOPER"
    BY <1>2, <2>2 DEF CanView, Admitted, Granted, ReadingAll
  <2>3. CASE u.role = "SYSTEM_OWNER"
    BY <1>2, <2>3 DEF CanView, Admitted, Granted, ReadingAll
  <2>4. CASE u.role = "TICKET_REQUESTER"
    BY <1>2, <2>4 DEF CanView, Admitted, Granted, ReadingAll
  <2> QED
    BY <1>1, <2>1, <2>2, <2>3, <2>4 DEF Role, ReadingAll
<1>5. MayFile(u, t.system) /\ t.creator =>
        CanView(u, t) \/ (u.role = "DEVELOPER" /\ u.grants = Nothing)
  <2>1. CASE u.role \in ReadingAll
    BY <1>2, <2>1 DEF CanView, InPortfolio, ReadingAll
  <2>2. CASE u.role = "DEVELOPER"
    <3> SUFFICES ASSUME MayFile(u, t.system), u.grants # Nothing PROVE CanView(u, t)
      BY <2>2
    <3>1. t.system \in SliceSystems(u.grants)
      BY <1>2, <2>2 DEF MayFile, VisibleSystems, OrgWide
    <3>2. OnSystem(u, t) \/ OnCompany(u, t)
      BY <3>1 DEF SliceSystems, OnSystem, OnCompany
    <3> QED
      BY <1>2, <1>3, <2>2, <3>2 DEF CanView, ReadingAll
  <2>3. CASE u.role = "SYSTEM_OWNER"
    BY <1>2, <2>3 DEF CanView, ReadingAll
  <2>4. CASE u.role = "TICKET_REQUESTER"
    BY <1>2, <2>4 DEF CanView, ReadingAll
  <2> QED
    BY <1>1, <2>1, <2>2, <2>3, <2>4 DEF Role, ReadingAll
<1> QED
  BY <1>4, <1>5, SliceHolds DEF AnswersAgree

LEMMA AllGrantsAgree == Agreeing = Grants
BY AnswersAgreeAlways DEF Agreeing

(***************************************************************************)
(* Whatever grants an account is left with, what its holder can open, may  *)
(* be told of, may file against and may choose from agree.                 *)
(***************************************************************************)
THEOREM ReachAlwaysAgrees == AccountsSpec => []ReachAgrees
<1>1. AccountsInv => ReachAgrees
  BY AllGrantsAgree DEF AccountsInv, AccountsTypeOK, ReachAgrees
<1> QED
  BY <1>1, AlwaysAccounts, PTL

(***************************************************************************)
(* Outside his slice, what a manager's edit makes of the rows and of the   *)
(* home company opens nothing, and leaves exactly what the rows gave: a    *)
(* home company there that no row grants gives a developer nothing more.   *)
(* To a tester it gave nothing before; a tester's reach changes there only *)
(* with the first of the grants or the last.                               *)
(***************************************************************************)
THEOREM EditsReachInside ==
  ASSUME NEW u \in User, NEW v \in User, NEW patch \in Patches, NEW t \in Ticket,
         u.role \in { "DEVELOPER", "QA" }, v.role = u.role,
         v.grants = Merged(u.grants, patch),
         v.home \in HomesOf("manager", v.grants.companies),
         t.system \notin ScopeSystems, CompanyOf[t.system] \notin ScopeCompanies,
         u.role = "QA" => u.grants # Nothing /\ v.grants # Nothing
  PROVE  /\ CanView(v, t) <=> CanView([u EXCEPT !.home = Absent], t)
         /\ CanView(v, t) => CanView(u, t)
<1> DEFINE asked == Asked(u.grants, patch)
           merged == [ companies |-> (u.grants.companies \ ScopeCompanies)
                                       \cup (asked.companies \cap ScopeCompanies),
                       systems   |-> (u.grants.systems \ ScopeSystems)
                                       \cup (asked.systems \cap ScopeSystems) ]
<1>1. u.grants \in Grants /\ t.system \in System
  BY DEF User, Ticket
<1>2. v.grants = Normalized(merged)
  BY DEF Merged
<1>3. /\ v.grants.companies = merged.companies
      /\ v.grants.systems = merged.systems \ Covered(merged.companies)
  BY <1>2 DEF Normalized
<1>4. OnCompany(v, t) <=> OnCompany(u, t)
  BY <1>3 DEF OnCompany
<1>5. t.system \in merged.systems <=> OnSystem(u, t)
  BY DEF OnSystem
<1>6. t.system \in Covered(merged.companies) => OnCompany(v, t)
  BY <1>3 DEF Covered, OnCompany
<1>7. OnSystem(v, t) \/ OnCompany(v, t) <=> OnSystem(u, t) \/ OnCompany(u, t)
  BY <1>3, <1>4, <1>5, <1>6 DEF OnSystem
<1> DEFINE w == [u EXCEPT !.home = Absent]
<1>8. /\ w.role = u.role /\ w.grants = u.grants /\ w.home = Absent
      /\ OnSystem(w, t) <=> OnSystem(u, t)
      /\ OnCompany(w, t) <=> OnCompany(u, t)
      /\ InCompany(w, t) <=> OnCompany(u, t)
  BY DEF User, OnSystem, OnCompany, InCompany, Companies
<1> HIDE DEF w
<1>9. OnCompany(u, t) => InCompany(u, t)
  BY DEF InCompany, OnCompany, Companies
<1>10. v.home \in v.grants.companies \cup {Absent}
  BY DEF HomesOf
<1>11. InCompany(v, t) <=> OnCompany(v, t)
  BY <1>10 DEF InCompany, OnCompany, Companies
<1>12. u.role \in Role
  BY DEF User
<1>13. CASE u.role = "DEVELOPER"
  <2>1. ~May(u.role, "ticket:read-all")
    BY <1>12, <1>13, Matrix DEF ReadingAll
  <2>2. CanView(v, t) <=> CanView(w, t)
    BY <1>7, <1>8, <1>11, <1>13, <2>1 DEF CanView
  <2>3. CanView(w, t) => CanView(u, t)
    BY <1>8, <1>9, <1>13, <2>1 DEF CanView
  <2> QED
    BY <2>2, <2>3 DEF w
<1>14. CASE u.role = "QA"
  <2>1. May(u.role, "ticket:read-all")
    BY <1>12, <1>14, Matrix DEF ReadingAll
  <2>2. CanView(v, t) <=> CanView(w, t)
    BY <1>7, <1>8, <1>14, <2>1 DEF CanView, InPortfolio
  <2>3. CanView(w, t) => CanView(u, t)
    BY <1>8, <1>14, <2>1 DEF CanView, InPortfolio
  <2> QED
    BY <2>2, <2>3 DEF w
<1> QED
  BY <1>13, <1>14

-----------------------------------------------------------------------------
(***************************************************************************)
(* Undisturbed requests.  What a request is about to do goes back to the   *)
(* rows it was started on; an edit knows what its deletions have left.     *)
(***************************************************************************)
LeftBy(q) ==
  [ companies |-> IF q.op = "rewrite" /\ Clears(q, "companies") THEN {} ELSE q.began.companies,
    systems   |-> IF q.op # "systems" /\ Clears(q, "systems") THEN {} ELSE q.began.systems ]

Loaded(q) ==
  /\ q.op \in { "reject", "approve" } => q.row.status = "PENDING"
  /\ q.op \in { "account", "invitation" } /\ "row" \in DOMAIN q => q.row.status = "PENDING"
  /\ q.op \in { "resend", "accept", "accepted" } => q.invitation.status = "PENDING"
  /\ q.op = "token" => q.left = {}
  /\ q.op \in { "systems", "companies", "rewrite" } =>
       /\ q.left = LeftBy(q)
       /\ q.to = IF q.by = "manager" THEN Merged(q.began, q.patch)
                                     ELSE Resolved(q.began, q.patch)

\* An invitation is written once, by the request that created the account.
OneInvites ==
  \A s \in Slot : Is(s, "invitation") =>
    invitation.status = "NONE" /\ \A r \in Slot : Is(r, "invitation") => r = s

OneReset == \A t, u \in DOMAIN resets : t = u

LoadedInv ==
  /\ \A s \in Slot : Loaded(inflight[s])
  /\ OneInvites
  /\ overlapped \in BOOLEAN
  /\ ~overlapped => OneReset

LEMMA Stages ==
  /\ Stage["NONE"] = 0 /\ Stage["PENDING"] = 1
  /\ Stage["ACCEPTED"] = 2 /\ Stage["REVOKED"] = 3
<1> DEFINE f == [ x \in Invited \cup {"NONE"} |->
                    CASE x = "NONE" -> 0 [] x = "PENDING" -> 1
                      [] x = "ACCEPTED" -> 2 [] OTHER -> 3 ]
<1>1. f \in [Invited \cup {"NONE"} -> 0 .. 3]
  OBVIOUS
<1>2. f["NONE"] = 0 /\ f["PENDING"] = 1 /\ f["ACCEPTED"] = 2 /\ f["REVOKED"] = 3
  BY DEF Invited
<1> HIDE DEF f
<1> QED
  BY <1>1, <1>2 DEF Stage

\* What a step does to the verdict on a sign-up request and to an invitation.
Onward ==
  /\ application.status \in { "APPROVED", "REJECTED" } =>
       application'.status \in { application.status, "NONE" }
  /\ Stage[invitation.status] <= Stage[invitation'.status]

LEMMA StandStill ==
  ASSUME AccountsInv
  PROVE  /\ application.status \in Applied \cup {"NONE"}
         /\ invitation.status \in Invited \cup {"NONE"}
         /\ /\ application.status \in { "APPROVED", "REJECTED" } =>
                 application'.status \in { application.status, "NONE" }
            /\ invitation'.status = invitation.status
            => Onward
  BY Stages DEF AccountsInv, AccountsTypeOK, Onward, Invited

LEMMA NoneInvites ==
  ASSUME AccountsInv, LoadedInv, NEW s \in Slot, invitation.status # "NONE" \/ ~account.exists
  PROVE  ~Is(s, "invitation")
  BY HereTells DEF LoadedInv, OneInvites, Is, Tells

\* A request goes on, not to write an invitation.
LEMMA GoesOnLoaded ==
  ASSUME AccountsInv, LoadedInv, NEW s \in Slot, NEW q, Go(s, q), Loaded(q),
         q.op # "invitation",
         \/ invitation'.status = invitation.status
         \/ invitation.status # "NONE" \/ Is(s, "invitation"),
         overlapped' \in BOOLEAN,
         ~overlapped' => ~overlapped /\ OneReset'
  PROVE  LoadedInv'
<1>1. inflight'[s] = q /\ \A r \in Slot \ {s} : inflight'[r] = inflight[r]
  BY DEF AccountsInv, RequestsTell, Go
<1>2. \A r \in Slot : Loaded(inflight'[r])
  BY <1>1 DEF LoadedInv
<1>5. (\A r \in Slot : Loaded(inflight[r]))'
  BY <1>2 DEF Loaded, LeftBy
<1>3. ASSUME NEW r \in Slot, Is(r, "invitation")'
      PROVE  r # s /\ Is(r, "invitation") /\ invitation'.status = "NONE"
  <2>1. r # s /\ Is(r, "invitation")
    BY <1>1, <1>3 DEF Is
  <2>2. ~Is(s, "invitation") /\ invitation.status = "NONE"
    BY <2>1 DEF LoadedInv, OneInvites
  <2> QED
    BY <2>1, <2>2
<1>4. OneInvites'
  BY <1>3 DEF LoadedInv, OneInvites
<1> QED
  BY <1>4, <1>5 DEF LoadedInv

\* No request goes on.
LEMMA NoneGoesOnLoaded ==
  ASSUME AccountsInv, LoadedInv, UNCHANGED <<inflight, overlapped>>,
         invitation'.status = invitation.status \/ invitation.status # "NONE",
         OneReset => OneReset'
  PROVE  LoadedInv'
<1>1. \A s \in Slot : Loaded(inflight[s])'
  BY DEF LoadedInv, Loaded, LeftBy
<1>2. OneInvites'
  BY DEF LoadedInv, OneInvites, Is
<1> QED
  BY <1>1, <1>2 DEF LoadedInv

LEMMA SignupLoaded ==
  ASSUME AccountsInv, LoadedInv, NEW s \in Slot, SignupStep(s)
  PROVE  LoadedInv' /\ (~overlapped' => Onward)
<1> DEFINE here == inflight[s]
<1>1. UNCHANGED <<account, invitation, resets, issued, spent>>
  BY DEF SignupStep
<1>2. application.status \in Applied \cup {"NONE"} /\ here \in Request /\ Loaded(here)
  BY StandStill, HereTells DEF LoadedInv
<1>3. ASSUME NEW q, Go(s, q), Loaded(q), q.op # "invitation",
             overlapped' \in BOOLEAN, ~overlapped' => ~overlapped
      PROVE  LoadedInv'
  <2>1. OneReset => OneReset'
    BY <1>1 DEF OneReset
  <2>2. ~overlapped' => ~overlapped /\ OneReset'
    BY <1>3, <2>1 DEF LoadedInv
  <2> QED
    BY <1>1, <1>3, <2>2, GoesOnLoaded
<1>4. overlapped \in BOOLEAN
  BY DEF LoadedInv
<1>5. Loaded(Idle) /\ Idle.op # "invitation"
  BY DEF Loaded, Idle
<1>6. Loaded([op |-> "file"]) /\ [op |-> "file"].op # "invitation"
  BY DEF Loaded
<1>7. CASE LoadApply(s) /\ UNCHANGED <<application, overlapped>>
  <2>1. \/ Go(s, [op |-> "file"])
        \/ Go(s, [op |-> "reapply", row |-> application])
    BY <1>7 DEF LoadApply, Start, Go
  <2>2. LET q == [op |-> "reapply", row |-> application] IN Loaded(q) /\ q.op # "invitation"
    BY DEF Loaded
  <2> QED
    BY <1>1, <1>3, <1>4, <1>6, <1>7, <2>1, <2>2, StandStill
<1>8. CASE DeleteOld(s)
  <2>1. /\ Go(s, [op |-> "file"]) \/ Go(s, Idle)
        /\ application' = [application EXCEPT !.status = "NONE"] \/ application' = application
        /\ \/ overlapped' = overlapped
           \/ overlapped' = (overlapped \/ here.row # application)
    BY <1>8 DEF DeleteOld, Noting
  <2>2. application'.status \in { application.status, "NONE" }
    BY <2>1 DEF AccountsInv, AccountsTypeOK
  <2>3. overlapped' \in BOOLEAN /\ (~overlapped' => ~overlapped)
    <3>1. CASE overlapped' = overlapped
      BY <1>4, <3>1
    <3>2. CASE overlapped' = (overlapped \/ here.row # application)
      BY <1>4, <3>2
    <3> QED
      BY <2>1, <3>1, <3>2
  <2>4. LoadedInv'
    BY <1>3, <1>5, <1>6, <2>1, <2>3
  <2> QED
    BY <1>1, <2>2, <2>4, StandStill
<1>9. CASE File(s)
  <2>1. application.status \in { "APPROVED", "REJECTED" } => application' = application
    BY <1>9 DEF File
  <2> QED
    BY <1>1, <1>3, <1>4, <1>5, <1>9, <2>1, StandStill DEF File, Finish
<1>10. CASE \E op \in { "reject", "account" } :
              LoadReview(s, op) /\ UNCHANGED <<application, overlapped>>
  <2>1. PICK op \in { "reject", "account" } :
          LoadReview(s, op) /\ UNCHANGED <<application, overlapped>>
    BY <1>10
  <2> DEFINE q == [op |-> op, row |-> application]
  <2>2. Loaded(q) /\ q.op # "invitation" /\ Go(s, q)
    BY <2>1 DEF Loaded, LoadReview, Start, Go
  <2> HIDE DEF q
  <2> QED
    BY <1>1, <1>3, <1>4, <2>1, <2>2, StandStill
<1>11. CASE Reject(s) \/ Approve(s)
  <2>1. here.row.status = "PENDING"
    BY <1>2, <1>11 DEF Reject, Approve, Is, Loaded
  <2>2. \/ UNCHANGED <<application, overlapped>>
        \/ overlapped' = (overlapped \/ here.row # application)
    BY <1>11 DEF Reject, Approve, Reviewed, Noting
  <2>3. ~overlapped' => application.status \notin { "APPROVED", "REJECTED" } \/ application' = application
    BY <2>1, <2>2
  <2>4. Go(s, Idle)
    BY <1>11 DEF Reject, Approve, Finish
  <2>5. overlapped' \in BOOLEAN /\ (~overlapped' => ~overlapped)
    BY <1>4, <2>2
  <2> QED
    BY <1>1, <1>3, <1>5, <2>3, <2>4, <2>5, StandStill
<1> QED
  BY <1>7, <1>8, <1>9, <1>10, <1>11 DEF SignupStep

LEMMA InvitationLoaded ==
  ASSUME AccountsInv, LoadedInv, NEW s \in Slot, InvitationStep(s)
  PROVE  LoadedInv' /\ (~overlapped' => Onward)
<1> DEFINE here == inflight[s]
<1>1. UNCHANGED <<application, resets, spent>>
  BY DEF InvitationStep
<1>2. here \in Request /\ Loaded(here) /\ invitation.status \in Invited \cup {"NONE"}
  BY StandStill, HereTells DEF LoadedInv
<1>3. OneReset => OneReset'
  BY <1>1 DEF OneReset
<1>4. overlapped \in BOOLEAN /\ (~overlapped => OneReset')
  BY <1>3 DEF LoadedInv
<1>5. application'.status = application.status
  BY <1>1
<1>6. CASE LoadInvite(s) /\ UNCHANGED <<account, invitation, issued, overlapped>>
  <2> DEFINE q == [op |-> "account"]
  <2>1. Loaded(q) /\ q.op # "invitation" /\ Go(s, q)
    BY <1>6 DEF Loaded, LoadInvite, Start, Go
  <2> HIDE DEF q
  <2> QED
    BY <1>4, <1>5, <1>6, <2>1, GoesOnLoaded, StandStill
<1>7. CASE CreateInvitation(s)
  <2>1. Is(s, "invitation") /\ Go(s, Return(here)) /\ overlapped' = overlapped
        /\ invitation'.status = "PENDING"
    BY <1>7 DEF CreateInvitation
  <2>2. Loaded(Return(here)) /\ Return(here).op # "invitation"
    <3>1. CASE "row" \in DOMAIN here
      <4>1. here.row.status = "PENDING"
        BY <1>2, <2>1, <3>1 DEF Is, Loaded
      <4>2. here \in [op : { "reapply", "reject", "account", "invitation", "approve" },
                      row : Application]
        BY <1>2, <3>1 DEF Request, Idle
      <4>3. Return(here).op = "approve" /\ Return(here).row = here.row
        BY <3>1, <4>2 DEF Return
      <4> QED
        BY <4>1, <4>3 DEF Loaded
    <3>2. CASE "row" \notin DOMAIN here
      BY <3>2 DEF Return, Loaded, Idle
    <3> QED
      BY <3>1, <3>2
  <2>3. invitation.status = "NONE"
    BY <2>1 DEF LoadedInv, OneInvites
  <2>4. Onward
    BY <1>5, <2>1, <2>3, Stages DEF Onward
  <2> QED
    BY <1>4, <2>1, <2>2, <2>4, GoesOnLoaded
<1>8. CASE LoadResend(s)
  <2> DEFINE q == [op |-> "resend", invitation |-> invitation]
  <2>1. Loaded(q) /\ q.op # "invitation" /\ Go(s, q)
        /\ UNCHANGED <<invitation, overlapped>>
    BY <1>8 DEF Loaded, LoadResend, Start, Go
  <2> HIDE DEF q
  <2> QED
    BY <1>4, <1>5, <2>1, GoesOnLoaded, StandStill
<1>9. CASE Resend(s)
  <2>1. /\ Go(s, Idle) /\ invitation'.status = "PENDING"
        /\ overlapped' = (overlapped \/ here.invitation # invitation)
        /\ here.invitation.status = "PENDING"
    BY <1>2, <1>9 DEF Resend, Finish, Noting, Is, Loaded
  <2>2. invitation.status # "NONE"
    BY <1>9, HereTells DEF Resend, Is, Tells
  <2>3. Loaded(Idle) /\ Idle.op # "invitation"
    BY DEF Loaded, Idle
  <2>4. ~overlapped' => Onward
    BY <1>5, <2>1, StandStill
  <2>5. overlapped' \in BOOLEAN /\ (~overlapped' => ~overlapped)
    BY <1>4, <2>1
  <2> QED
    BY <1>4, <2>1, <2>2, <2>3, <2>4, <2>5, GoesOnLoaded
<1>10. CASE Revoke
  <2>1. /\ invitation.status # "NONE" /\ invitation'.status = "REVOKED"
        /\ UNCHANGED <<inflight, overlapped>>
    BY <1>10 DEF Revoke, AccountsInv, AccountsTypeOK
  <2>2. Onward
    BY <1>2, <1>5, <2>1, Stages DEF Onward, Invited
  <2> QED
    BY <1>3, <2>1, <2>2, NoneGoesOnLoaded
<1> QED
  BY <1>6, <1>7, <1>8, <1>9, <1>10 DEF InvitationStep

LEMMA AcceptLoaded ==
  ASSUME AccountsInv, LoadedInv, NEW s \in Slot, AcceptStep(s)
  PROVE  LoadedInv' /\ (~overlapped' => Onward)
<1> DEFINE here == inflight[s]
<1>1. UNCHANGED <<application, resets, issued>>
  BY DEF AcceptStep
<1>2. here \in Request /\ Loaded(here) /\ invitation.status \in Invited \cup {"NONE"}
  BY StandStill, HereTells DEF LoadedInv
<1>3. overlapped \in BOOLEAN /\ (~overlapped => OneReset')
  BY <1>1 DEF LoadedInv, OneReset
<1>4. application'.status = application.status
  BY <1>1
<1>5. CASE LoadAccept(s)
  <2> DEFINE q == [op |-> "accept", invitation |-> invitation]
  <2>1. Loaded(q) /\ q.op # "invitation" /\ Go(s, q)
        /\ UNCHANGED <<invitation, overlapped>>
    BY <1>5 DEF Loaded, LoadAccept, Start, Go
  <2> HIDE DEF q
  <2> QED
    BY <1>3, <1>4, <2>1, GoesOnLoaded, StandStill
<1>6. CASE WritePassword(s)
  <2> DEFINE q == [here EXCEPT !.op = "accepted"]
  <2>1. Go(s, q) /\ UNCHANGED <<invitation, overlapped>> /\ here.op = "accept"
    BY <1>6 DEF WritePassword, Is
  <2>2. here \in [op : { "resend", "accept", "accepted" }, invitation : Invitation]
    BY <1>2, <2>1 DEF Request, Idle
  <2>3. q.op = "accepted" /\ q.invitation = here.invitation
    BY <2>2
  <2>4. here.invitation.status = "PENDING"
    BY <1>2, <2>1 DEF Loaded
  <2>5. Loaded(q)
    BY <2>3, <2>4 DEF Loaded
  <2> HIDE DEF q
  <2> QED
    BY <1>3, <1>4, <2>1, <2>3, <2>5, GoesOnLoaded, StandStill
<1>7. CASE Accepted(s)
  <2>1. /\ Go(s, Idle) /\ invitation'.status = "ACCEPTED"
        /\ overlapped' = (overlapped \/ here.invitation # invitation)
        /\ here.invitation.status = "PENDING"
    BY <1>2, <1>7 DEF Accepted, Finish, Noting, Is, Loaded, AccountsInv, AccountsTypeOK
  <2>2. invitation.status # "NONE"
    BY <1>7, HereTells DEF Accepted, Is, Tells
  <2>3. Loaded(Idle) /\ Idle.op # "invitation"
    BY DEF Loaded, Idle
  <2>4. ~overlapped' => Onward
    <3>1. ~overlapped' => invitation.status = "PENDING"
      BY <2>1
    <3> QED
      BY <1>4, <2>1, <3>1, Stages DEF Onward
  <2>5. overlapped' \in BOOLEAN /\ (~overlapped' => ~overlapped)
    BY <1>3, <2>1
  <2> QED
    BY <1>3, <2>1, <2>2, <2>3, <2>4, <2>5, GoesOnLoaded
<1> QED
  BY <1>5, <1>6, <1>7 DEF AcceptStep

LEMMA ForgotLoaded ==
  ASSUME AccountsInv, LoadedInv, NEW s \in Slot, ForgotStep(s)
  PROVE  LoadedInv' /\ Onward
<1> DEFINE here == inflight[s]
<1>1. UNCHANGED <<application, invitation>> /\ Onward
  BY StandStill DEF ForgotStep
<1>2. here \in Request /\ Loaded(here)
  BY HereTells DEF LoadedInv
<1>3. overlapped \in BOOLEAN /\ (~overlapped => OneReset)
  BY DEF LoadedInv
<1>4. CASE LoadForgot(s)
  <2> DEFINE q == [op |-> "forgot"]
  <2>1. Loaded(q) /\ q.op # "invitation" /\ Go(s, q) /\ UNCHANGED <<resets, overlapped>>
    BY <1>4 DEF Loaded, LoadForgot, Start, Go
  <2>2. OneReset => OneReset'
    BY <2>1 DEF OneReset
  <2> HIDE DEF q
  <2> QED
    BY <1>1, <1>3, <2>1, <2>2, GoesOnLoaded
<1>5. CASE ClearResets(s)
  <2> DEFINE q == [op |-> "token", left |-> {}]
  <2>1. Loaded(q) /\ q.op # "invitation" /\ Go(s, q) /\ overlapped' = overlapped
    BY <1>5 DEF Loaded, ClearResets
  <2>2. OneReset'
    BY <1>5 DEF OneReset, ClearResets
  <2> HIDE DEF q
  <2> QED
    BY <1>1, <1>3, <2>1, <2>2, GoesOnLoaded
<1>6. CASE CreateReset(s)
  <2>1. here.left = {} /\ Go(s, Idle) /\ overlapped' = (overlapped \/ here.left # DOMAIN resets)
    BY <1>2, <1>6 DEF CreateReset, Finish, Noting, Is, Loaded
  <2>2. DOMAIN resets' = DOMAIN resets \cup {issued'}
    BY <1>6 DEF CreateReset
  <2>3. ~overlapped' => ~overlapped /\ OneReset'
    BY <2>1, <2>2 DEF OneReset
  <2>4. Loaded(Idle) /\ Idle.op # "invitation" /\ overlapped' \in BOOLEAN
    BY <1>3, <2>1 DEF Loaded, Idle
  <2> QED
    BY <1>1, <2>1, <2>3, <2>4, GoesOnLoaded
<1> QED
  BY <1>1, <1>4, <1>5, <1>6 DEF ForgotStep

LEMMA ResetLoaded ==
  ASSUME AccountsInv, LoadedInv, NEW s \in Slot, ResetStep(s)
  PROVE  LoadedInv' /\ Onward
<1> DEFINE here == inflight[s]
<1>1. UNCHANGED <<application, invitation, overlapped>> /\ Onward
  BY StandStill DEF ResetStep
<1>2. here \in Request
  BY HereTells
<1>3. DOMAIN resets' = DOMAIN resets
  BY DEF ResetStep, LoadReset, WriteReset
<1>4. overlapped \in BOOLEAN /\ (~overlapped => OneReset')
  BY <1>3 DEF LoadedInv, OneReset
<1>5. \E q : Go(s, q) /\ q.op \in { "reset", "idle" }
  <2>1. ASSUME NEW t \in DOMAIN resets, LoadReset(s, t)
        PROVE  \E q : Go(s, q) /\ q.op \in { "reset", "idle" }
    <3> DEFINE q == [op |-> "reset", token |-> t, todo |-> { "password", "used" }]
    <3>1. Go(s, q) /\ q.op = "reset"
      BY <2>1 DEF LoadReset, Start, Go
    <3> HIDE DEF q
    <3> QED
      BY <3>1
  <2>2. CASE WriteReset(s)
    <3>1. here \in [op : {"reset"}, token : Nat, todo : SUBSET { "password", "used" }]
      BY <1>2, <2>2 DEF Request, Idle, WriteReset, Is
    <3>2. PICK write \in here.todo : Go(s, Idle) \/ Go(s, [here EXCEPT !.todo = @ \ {write}])
      BY <2>2 DEF WriteReset, Finish
    <3>3. [here EXCEPT !.todo = @ \ {write}].op = "reset" /\ Idle.op = "idle"
      BY <3>1 DEF Idle
    <3> QED
      BY <3>2, <3>3
  <2> QED
    BY <2>1, <2>2 DEF ResetStep
<1>6. PICK q : Go(s, q) /\ q.op \in { "reset", "idle" }
  BY <1>5
<1>7. Loaded(q) /\ q.op # "invitation"
  BY <1>6 DEF Loaded
<1> QED
  BY <1>1, <1>4, <1>6, <1>7, GoesOnLoaded

LEMMA CreateLoaded ==
  ASSUME AccountsInv, LoadedInv, NEW s \in Slot, Create(s)
  PROVE  LoadedInv' /\ Onward
<1> DEFINE here == inflight[s]
           q == [here EXCEPT !.op = "invitation"]
<1>1. UNCHANGED <<application, invitation, resets, overlapped>> /\ Onward
  BY StandStill DEF Create
<1>2. here \in Request /\ Loaded(here) /\ here.op = "account" /\ ~account.exists /\ Go(s, q)
  BY HereTells DEF LoadedInv, Create, CreateAccount, Is
<1>3. invitation.status = "NONE"
  BY <1>2 DEF AccountsInv, EntryRecordsAgree
<1>4. Loaded(q)
  <2>1. CASE "row" \in DOMAIN here
    <3>1. here \in [op : { "reapply", "reject", "account", "invitation", "approve" },
                    row : Application]
      BY <1>2, <2>1 DEF Request, Idle
    <3>2. q.op = "invitation" /\ q.row = here.row
      BY <3>1
    <3> QED
      BY <1>2, <2>1, <3>2 DEF Loaded
  <2>2. CASE "row" \notin DOMAIN here
    <3>1. here \in [op : { "file", "account", "invitation", "forgot" }]
      BY <1>2, <2>2 DEF Request, Idle
    <3>2. q.op = "invitation" /\ "row" \notin DOMAIN q
      BY <2>2, <3>1
    <3> QED
      BY <3>2 DEF Loaded
  <2> QED
    BY <2>1, <2>2
<1> HIDE DEF q
<1>5. inflight'[s] = q /\ \A r \in Slot \ {s} : inflight'[r] = inflight[r]
  BY <1>2 DEF AccountsInv, RequestsTell, Go
<1>6. \A r \in Slot : Loaded(inflight'[r])
  BY <1>4, <1>5 DEF LoadedInv
<1>7. (\A r \in Slot : Loaded(inflight[r]))'
  BY <1>6 DEF Loaded, LeftBy
<1>8. \A r \in Slot \ {s} : ~Is(r, "invitation")'
  BY <1>2, <1>5, NoneInvites DEF Is
<1>9. OneInvites'
  BY <1>1, <1>3, <1>8 DEF OneInvites
<1> QED
  BY <1>1, <1>7, <1>9 DEF LoadedInv, OneReset

\* An edit that goes on from what it found or deleted.
LEMMA EditLoaded ==
  ASSUME AccountsInv, LoadedInv, NEW s \in Slot, EditStep(s)
  PROVE  LoadedInv' /\ Onward
<1>1. UNCHANGED <<application, invitation, resets>> /\ Onward
  BY StandStill DEF EditStep, entryVars
<1>2. inflight[s] \in Request /\ Loaded(inflight[s]) /\ grants \in Grants
  BY HereTells DEF LoadedInv, AccountsInv, AccountsTypeOK
<1>3. overlapped \in BOOLEAN /\ (~overlapped => OneReset')
  BY <1>1 DEF LoadedInv, OneReset
<1>4. ASSUME NEW q, Go(s, q), Loaded(q), q.op # "invitation",
             overlapped' \in BOOLEAN, ~overlapped' => ~overlapped
      PROVE  LoadedInv'
  BY <1>1, <1>3, <1>4, GoesOnLoaded
<1>5. Loaded(Idle) /\ Idle.op # "invitation"
  BY DEF Loaded, Idle
<1>6. ASSUME NEW by \in { "manager", "head" }, NEW patch \in Patches, LoadEdit(s, by, patch)
      PROVE  LoadedInv'
  <2> DEFINE to == IF by = "manager" THEN Merged(grants, patch) ELSE Resolved(grants, patch)
             q == [ op |-> "systems", by |-> by, patch |-> patch, began |-> grants,
                    left |-> grants, to |-> to ]
  <2>1. Go(s, q) /\ overlapped' = overlapped
    BY <1>6 DEF LoadEdit, Start, Go
  <2>2. q.left = LeftBy(q)
    BY <1>2 DEF LeftBy, Grants
  <2>3. Loaded(q)
    BY <2>2 DEF Loaded
  <2>4. q.op # "invitation"
    OBVIOUS
  <2> HIDE DEF q
  <2> QED
    BY <1>3, <1>4, <2>1, <2>3, <2>4
<1>7. ASSUME NEW side \in { "systems", "companies" }, NEW next \in { "companies", "rewrite" },
             side = "systems" <=> next = "companies", ClearSide(s, side, next)
      PROVE  LoadedInv'
  <2>1. PICK q \in Editing : q = inflight[s] /\ q.op = side
    BY <1>2, <1>7 DEF ClearSide, Is, Request, Editing, Idle
  <2>2. /\ q.left = LeftBy(q)
        /\ q.to = IF q.by = "manager" THEN Merged(q.began, q.patch)
                                      ELSE Resolved(q.began, q.patch)
    BY <1>2, <2>1 DEF Loaded
  <2> DEFINE kept == [q EXCEPT !.op = next]
             emptied == [q EXCEPT !.op = next, !.left[side] = {}]
  <2>3. /\ kept.op = next /\ kept.by = q.by /\ kept.patch = q.patch /\ kept.began = q.began
        /\ kept.to = q.to /\ kept.left = q.left
    BY DEF Editing
  <2>4. /\ emptied.op = next /\ emptied.by = q.by /\ emptied.patch = q.patch
        /\ emptied.began = q.began /\ emptied.to = q.to
        /\ emptied.left = [q.left EXCEPT ![side] = {}]
    BY DEF Editing
  <2>5. \/ Clears(q, side) /\ Go(s, emptied) /\ overlapped' = (overlapped \/ q.left # grants)
        \/ ~Clears(q, side) /\ Go(s, kept) /\ overlapped' = overlapped
    BY <1>7, <2>1 DEF ClearSide, Noting
  <2> HIDE DEF kept, emptied
  <2>6. /\ \A x \in { "systems", "companies" } : Clears(kept, x) <=> Clears(q, x)
        /\ \A x \in { "systems", "companies" } : Clears(emptied, x) <=> Clears(q, x)
    BY <2>3, <2>4 DEF Clears
  <2>7. CASE Clears(q, side) /\ Go(s, emptied) /\ overlapped' = (overlapped \/ q.left # grants)
    <3>1. emptied.left = LeftBy(emptied)
      <4>1. \/ side = "systems" /\ next = "companies"
            \/ side = "companies" /\ next = "rewrite"
        BY <1>7
      <4>2. CASE side = "systems" /\ next = "companies"
        BY <2>1, <2>2, <2>4, <2>6, <2>7, <4>2 DEF LeftBy
      <4>3. CASE side = "companies" /\ next = "rewrite"
        BY <2>1, <2>2, <2>4, <2>6, <2>7, <4>3 DEF LeftBy
      <4> QED
        BY <4>1, <4>2, <4>3
    <3>2. Loaded(emptied) /\ emptied.op # "invitation"
      BY <2>2, <2>4, <3>1 DEF Loaded
    <3>3. overlapped' \in BOOLEAN /\ (~overlapped' => ~overlapped)
      BY <1>3, <2>7
    <3> QED
      BY <1>4, <2>7, <3>2, <3>3
  <2>8. CASE ~Clears(q, side) /\ Go(s, kept) /\ overlapped' = overlapped
    <3>1. kept.left = LeftBy(kept)
      BY <1>7, <2>1, <2>2, <2>3, <2>6, <2>8 DEF LeftBy
    <3>2. Loaded(kept) /\ kept.op # "invitation"
      BY <2>2, <2>3, <3>1 DEF Loaded
    <3> QED
      BY <1>3, <1>4, <2>8, <3>2
  <2> QED
    BY <2>5, <2>7, <2>8
<1>8. CASE Rewrite(s)
  <2>1. Go(s, Idle) /\ overlapped' = (overlapped \/ inflight[s].left # grants)
    BY <1>8 DEF Rewrite, Finish, Noting
  <2>2. overlapped' \in BOOLEAN /\ (~overlapped' => ~overlapped)
    BY <1>3, <2>1
  <2> QED
    BY <1>1, <1>3, <1>5, <2>1, <2>2, GoesOnLoaded
<1>9. CASE RewriteFails(s)
  <2>1. Go(s, Idle) /\ overlapped' = overlapped
    BY <1>9 DEF RewriteFails, Finish
  <2> QED
    BY <1>1, <1>3, <1>5, <2>1, GoesOnLoaded
<1> QED
  BY <1>1, <1>6, <1>7, <1>8, <1>9 DEF EditStep

(***************************************************************************)
(* What an edit writes when it finds what its own deletions have left.     *)
(***************************************************************************)
LEMMA EditWrites ==
  ASSUME AccountsInv, LoadedInv, NEW s \in Slot, Rewrite(s), ~overlapped'
  PROVE  Written(inflight[s], grants', home')
<1>1. PICK q \in Editing : q = inflight[s] /\ q.op = "rewrite"
  BY HereTells DEF Rewrite, Is, Request, Editing, Idle
<1>2. /\ q.left = LeftBy(q)
      /\ q.to = IF q.by = "manager" THEN Merged(q.began, q.patch)
                                    ELSE Resolved(q.began, q.patch)
  BY <1>1 DEF LoadedInv, Loaded
<1>3. grants = LeftBy(q)
  BY <1>1, <1>2 DEF Rewrite, Noting
<1>4. /\ grants'.companies = LeftBy(q).companies \cup q.to.companies
      /\ grants'.systems = LeftBy(q).systems \cup q.to.systems
      /\ LeftBy(q).companies \cap q.to.companies = {}
      /\ home' \in HomesOf(q.by, q.to.companies)
  BY <1>1, <1>3 DEF Rewrite, Collides
<1>5. q.began \in Grants /\ q.patch \in Patches
  BY DEF Editing
<1>6. /\ q.patch.companies \in (SUBSET Company) \cup {Absent}
      /\ DOMAIN q.patch = { "companies", "systems" }
  BY <1>5, MembershipsAssumption
<1>7. ASSUME NEW g, DOMAIN g = { "companies", "systems" }
      PROVE  /\ Normalized(g).companies = g.companies
             /\ Normalized(g).systems = g.systems \ Covered(g.companies)
  BY <1>7 DEF Normalized
<1>8. grants'.companies = q.to.companies =>
        home' \in IF grants'.companies = {} THEN {Absent} ELSE grants'.companies
  BY <1>4 DEF HomesOf
<1>9. CASE q.by = "manager"
  <2> DEFINE asked == Asked(q.began, q.patch)
             merged == [ companies |-> (q.began.companies \ ScopeCompanies)
                                         \cup (asked.companies \cap ScopeCompanies),
                         systems   |-> (q.began.systems \ ScopeSystems)
                                         \cup (asked.systems \cap ScopeSystems) ]
  <2>1. LeftBy(q).companies = {} /\ LeftBy(q).systems = {}
    BY <1>1, <1>9 DEF LeftBy, Clears
  <2>2. /\ q.to.companies = merged.companies
        /\ q.to.systems = merged.systems \ Covered(merged.companies)
    <3>1. q.to = Normalized(merged)
      BY <1>2, <1>9 DEF Merged
    <3> QED
      BY <1>7, <3>1
  <2>3. grants'.companies = merged.companies
        /\ grants'.systems = merged.systems \ Covered(merged.companies)
    BY <1>4, <2>1, <2>2
  <2>4. q.patch.companies # Absent => asked.companies = q.patch.companies
    BY DEF Asked, Or
  <2>5. OutsideKept(q.began, grants')
    BY <2>3 DEF OutsideKept
  <2>6. q.patch.companies # Absent =>
          grants'.companies \cap ScopeCompanies = q.patch.companies \cap ScopeCompanies
    BY <2>3, <2>4
  <2>7. grants'.systems \cap Covered(grants'.companies) = {}
    BY <2>3
  <2>8. grants'.companies = q.to.companies
    BY <1>4, <2>1
  <2> QED
    BY <1>1, <1>8, <1>9, <2>5, <2>6, <2>7, <2>8 DEF Written
<1>10. CASE q.by = "head"
  <2> DEFINE asked == [ companies |-> Or(q.patch.companies, q.began.companies),
                        systems   |-> Or(q.patch.systems, q.began.systems) ]
  <2>1. /\ q.to.companies = asked.companies
        /\ q.to.systems = asked.systems \ Covered(asked.companies)
    <3>1. q.to = Normalized(asked)
      BY <1>2, <1>10 DEF Resolved
    <3> QED
      BY <1>7, <3>1
  <2>2. q.patch.companies # Absent =>
          LeftBy(q).companies = {} /\ q.to.companies = q.patch.companies
    BY <1>1, <2>1 DEF LeftBy, Clears, Or
  <2>3. q.patch.companies # Absent =>
          grants'.companies \cap Company = q.patch.companies \cap Company
    BY <1>4, <2>2
  <2>4. (\A side \in DOMAIN q.patch : Clears(q, side)) =>
          grants'.systems \cap Covered(grants'.companies) = {}
    <3> SUFFICES ASSUME \A side \in DOMAIN q.patch : Clears(q, side)
                 PROVE  grants'.systems \cap Covered(grants'.companies) = {}
      OBVIOUS
    <3>1. LeftBy(q).companies = {} /\ LeftBy(q).systems = {}
      BY <1>1, <1>6 DEF LeftBy
    <3>2. grants'.companies = asked.companies
          /\ grants'.systems = asked.systems \ Covered(asked.companies)
      BY <1>4, <2>1, <3>1
    <3> QED
      BY <3>2
  <2>5. grants'.companies = q.to.companies
    <3>1. CASE Clears(q, "companies")
      BY <1>1, <1>4, <3>1 DEF LeftBy
    <3>2. CASE ~Clears(q, "companies")
      BY <1>1, <1>4, <2>1, <3>2 DEF LeftBy, Clears, Or
    <3> QED
      BY <3>1, <3>2
  <2> QED
    BY <1>1, <1>8, <1>10, <2>3, <2>4, <2>5 DEF Written
<1> QED
  BY <1>9, <1>10 DEF Editing

LEMMA LoadedInitially == Init => LoadedInv
<1> SUFFICES ASSUME Init PROVE LoadedInv
  OBVIOUS
<1>1. inflight = [s \in Slot |-> Idle] /\ resets = << >> /\ overlapped = FALSE
  BY DEF Init, EntryInit
<1>2. Idle.op = "idle" /\ Loaded(Idle)
  BY DEF Idle, Loaded
<1>3. \A s \in Slot : inflight[s] = Idle
  BY <1>1
<1>4. OneInvites
  BY <1>2, <1>3 DEF OneInvites, Is
<1>5. DOMAIN resets = {}
  BY <1>1
<1> QED
  BY <1>1, <1>2, <1>3, <1>4, <1>5 DEF LoadedInv, OneReset

LEMMA LoadedNext ==
  ASSUME AccountsInv, LoadedInv, [Next]_vars
  PROVE  LoadedInv' /\ (~overlapped' => Onward)
<1>1. CASE \/ Expire /\ UNCHANGED <<grants, home>>
           \/ Add \/ Toggle \/ RosterStep \/ SetHome
           \/ UNCHANGED vars
  <2>1. /\ application' = application /\ invitation'.status = invitation.status
        /\ DOMAIN resets' = DOMAIN resets /\ UNCHANGED <<inflight, overlapped>>
    BY <1>1 DEF Expire, Add, Toggle, RosterStep, SetHome, vars, entryVars, AccountsInv, AccountsTypeOK
  <2> QED
    BY <2>1, NoneGoesOnLoaded, StandStill DEF OneReset
<1>2. ASSUME NEW s \in Slot, Drop(s)
      PROVE  LoadedInv' /\ Onward
  <2>1. UNCHANGED <<application, invitation, resets, overlapped>> /\ Go(s, Idle)
    BY <1>2 DEF Drop, Finish, entryVars
  <2>2. Loaded(Idle) /\ Idle.op # "invitation"
    BY DEF Loaded, Idle
  <2> QED
    BY <2>1, <2>2, GoesOnLoaded, StandStill DEF LoadedInv, OneReset
<1>3. ASSUME NEW s \in Slot, EntryStep(s)
      PROVE  LoadedInv' /\ (~overlapped' => Onward)
  BY <1>2, <1>3, SignupLoaded, InvitationLoaded, AcceptLoaded, ForgotLoaded, ResetLoaded
     DEF EntryStep
<1> QED
  BY <1>1, <1>3, CreateLoaded, EditLoaded DEF Next

(***************************************************************************)
(* As long as no write was decided from a row that had changed since, for  *)
(* any number of requests in flight: a sign-up request is reviewed once,   *)
(* an invitation never steps back, there is one reset token at most, and   *)
(* an edit of the grants that went through leaves the rows it named inside *)
(* the slice of its author and the rows there were outside, and a home     *)
(* company they grant, or none.                                            *)
(***************************************************************************)
THEOREM UndisturbedAlways == AccountsSpec => UndisturbedAccounts
<1>1. ASSUME NEW S, \A t, u \in S : t = u
      PROVE  Cardinality(S) <= 1
  <2>1. CASE S = {}
    BY <2>1, FS_EmptySet
  <2>2. CASE S # {}
    <3>1. PICK t : S = {t}
      BY <1>1, <2>2
    <3>2. Cardinality({t}) = 1
      BY FS_Singleton
    <3> QED
      BY <3>1, <3>2
  <2> QED
    BY <2>1, <2>2
<1>2. ASSUME AccountsInv, LoadedInv, [Next]_vars, ~overlapped'
      PROVE  /\ Onward /\ Cardinality(DOMAIN resets') <= 1
             /\ \A s \in Slot : Rewrite(s) => Written(inflight[s], grants', home')
  <2>1. LoadedInv' /\ Onward
    BY <1>2, LoadedNext
  <2>2. OneReset'
    BY <1>2, <2>1 DEF LoadedInv
  <2>3. Cardinality(DOMAIN resets') <= 1
    BY <1>1, <2>2 DEF OneReset
  <2> QED
    BY <1>2, <2>1, <2>3, EditWrites
<1>3. AccountsInv /\ LoadedInv /\ [Next]_vars =>
        [ ~overlapped' =>
            /\ application.status \in { "APPROVED", "REJECTED" } =>
                 application'.status \in { application.status, "NONE" }
            /\ Stage[invitation.status] <= Stage[invitation'.status]
            /\ Cardinality(DOMAIN resets') <= 1
            /\ \A s \in Slot : Rewrite(s) => Written(inflight[s], grants', home') ]_vars
  BY <1>2 DEF Onward
<1>4. AccountsInv /\ LoadedInv /\ [Next]_vars => LoadedInv'
  BY LoadedNext
<1> QED
  BY <1>3, <1>4, LoadedInitially, AlwaysAccounts, PTL DEF AccountsSpec, UndisturbedAccounts

=============================================================================
