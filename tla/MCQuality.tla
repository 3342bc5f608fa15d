----------------------------- MODULE MCQuality ------------------------------
(* A small instance of Quality. *)
EXTENDS Quality, TLC

CONSTANTS web, app  \* two systems

OneEach == <<web, app>>  \* a ticket on each

Symmetric == Permutations(Slot)

Busy(s) == ~Is(s, "idle")
OnBug(s) == "bug" \in DOMAIN inflight[s]

(***************************************************************************)
(* Two cases ever, or a case and a bug.  The suite is moved and linked     *)
(* while there is one case at most, no bug, and nothing has been run; nor  *)
(* are cases reordered once one was.                                       *)
(* What a case covers is told apart beside a bug only; there the case is   *)
(* neither run nor archived, one request at most is on it, and the bug     *)
(* keeps its status and has two requests only if one adopts a case.        *)
(***************************************************************************)
FewAtOnce ==
  /\ Len(results) + Len(bugs) <= 2
  /\ Len(results) = 2 \/ clock > 0 => suite.state = "DRAFT" /\ links = {}
  /\ clock > 0 => \A s \in Slot : ~Is(s, "reorder")
  /\ bugs = <<>> => \A s \in Slot :
       ~Is(s, "edit") /\ ("covers" \in DOMAIN inflight[s] => inflight[s].covers = 0)
  /\ bugs # <<>> =>
       /\ clock = 0 /\ suite.state = "DRAFT" /\ links \subseteq {1}
       /\ \A c \in DOMAIN cases : cases[c].covers \in {0, 2} /\ cases[c].state # "ARCHIVED"
       /\ results # <<>> =>
            /\ Len(bugMoves[1]) = 1 /\ Len(tickets) <= 3
            /\ \E s \in Slot : ~OnBug(s) \/ Is(s, "adopt")
       /\ (\A s \in Slot : Busy(s)) =>
            Len(bugMoves[1]) <= 2 /\ \E s \in Slot : OnBug(s)
       /\ \A s \in Slot : inflight[s].op \notin { "create", "suite", "link", "retire" }

=============================================================================
