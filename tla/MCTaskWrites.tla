---------------------------- MODULE MCTaskWrites ----------------------------
(* A small instance of TaskWrites. *)
EXTENDS TaskWrites, TLC

Symmetric == Permutations(Slot) \cup Permutations(User)

\* The estimate of the first row alone is told apart, and while requests overlap
\* only as long as it is the only row.
OneEstimate ==
  /\ \A i \in 2 .. MaxTasks :
       /\ i \in DOMAIN tasks => tasks[i].hours = 1
       /\ \A s \in Slot : i \in DOMAIN Wrote(s) => Wrote(s)[i].hours = 1
  /\ Cardinality(DOMAIN tasks) > 1 /\ (\A s \in Slot : inflight[s] # Idle)
       => \A i \in DOMAIN tasks : tasks[i].hours = 1

=============================================================================
