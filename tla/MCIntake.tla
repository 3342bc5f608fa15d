------------------------------ MODULE MCIntake ------------------------------
(* A small instance of Intake. *)
EXTENDS Intake, TLC

Symmetric == Permutations(Slot)

Open == [status |-> "SCHEDULED", archived |-> FALSE]

(***************************************************************************)
(* Two lines while nothing has been captured, filed or uploaded; a meeting *)
(* that is over only without requirements; beside a file, two requests at  *)
(* once only while the history is short; and one status for the three a    *)
(* requirement may have while it is open.                                  *)
(***************************************************************************)
FewAtOnce ==
  /\ \/ requirements = <<>> /\ files = EmptyBag
     \/ Cardinality(DOMAIN points) <= 1 /\ meeting = Open
  /\ \A r \in DOMAIN requirements :
       /\ requirements[r].status # "UNDER_REVIEW"
       /\ files # EmptyBag => /\ ~requirements[r].archived
                              /\ \/ Len(moves[r]) <= 2
                                 \/ \E s \in Slot : inflight[s] = Idle
  /\ \A s \in Slot : inflight[s].op = "status" => inflight[s].to # "UNDER_REVIEW"

=============================================================================
