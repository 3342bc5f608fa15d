----------------------------- MODULE MCRequests -----------------------------
(* Small instances of TicketRequests. *)
EXTENDS TicketRequests, TLC

CONSTANTS head, dev, req, r1, r2

MCRoleOf ==
  [u \in User |->
     CASE u = head -> "PROGRAMMING_HEAD" [] u = req -> "TICKET_REQUESTER"
       [] OTHER    -> "DEVELOPER"]

Slots == Permutations(Slot)

(***************************************************************************)
(* A ticket that came n moves down the path of an untroubled one, taken    *)
(* one request at a time: short behaviours from here reach late races.     *)
(***************************************************************************)
Path == << "DRAFT", "NEW", "APPROVED", "SCHEDULED", "IN_PROGRESS", "AWAITING_TESTING" >>

Advanced(n) ==
  /\ holders = {} /\ open = FALSE
  /\ roster = [active |-> {dev}, lead |-> {dev}]
  /\ status = Path[n + 1]
  /\ history = [ i \in 1 .. n |-> [from |-> Path[i], to |-> Path[i + 1], forced |-> FALSE] ]
  /\ started = IF n > 3 THEN 1 ELSE 0
  /\ completed = FALSE /\ reason = FALSE
  /\ deadline = TRUE /\ unmet = FALSE
  /\ inflight = [s \in Slot |-> Idle] /\ failures = 0

ScheduledSpec == Advanced(3) /\ [][RequestNext]_allVars

=============================================================================
