----------------------------- MODULE MCAccounts -----------------------------
(* A small instance of Memberships: c1 has the manager's system x, another  *)
(* active one and one that is not; c2 is out of his reach.                  *)
EXTENDS Memberships, TLC

CONSTANTS c1, c2, x, z, dead, y

TheirCompany == (x :> c1) @@ (z :> c1) @@ (dead :> c1) @@ (y :> c2)

\* Requests name either side or both: nothing, or some of it.
Requested ==
  [ companies : {Absent, {}, {c1}, {c2}}, systems : {Absent, {}, {x, dead, y}} ]
    \ {[companies |-> Absent, systems |-> Absent]}

Symmetric == Permutations(Slot)

Entry(s) == inflight[s].op \in { "file", "reapply", "reject", "account", "invitation",
                                 "approve", "resend", "accept", "accepted" }
Reset(s) == inflight[s].op \in { "forgot", "token", "reset" }
Edit(s) == inflight[s].op \in { "systems", "companies", "rewrite" }

(***************************************************************************)
(* What does not meet is not multiplied: grants are edited on an active    *)
(* account without invitation, sign-up request or tokens, at home nowhere  *)
(* or out of the manager's reach, one edit at a time; passwords are reset  *)
(* beside no request of another kind.                                      *)
(***************************************************************************)
FewAtOnce ==
  /\ (\E s \in Slot : Edit(s)) =>
       /\ application.id = 0 /\ issued = 0 /\ ~account.password
       /\ account.active /\ home # c1
       /\ \E s \in Slot : inflight[s] = Idle
  /\ grants # Nothing \/ home # Absent => application.id = 0 /\ issued = 0 /\ ~account.password
  /\ (DOMAIN resets # {} \/ \E s \in Slot : Reset(s)) =>
       application.id = 0 /\ \A s \in Slot : ~Entry(s)

=============================================================================
