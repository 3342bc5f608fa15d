--------------------------- MODULE MCTicketCache ----------------------------
(* A small instance of TicketCache. *)
EXTENDS TicketCache, TLC

Symmetric == Permutations(Slot) \cup Permutations(Status) \cup Permutations(Plan)

\* Past a tangle one row less is written, and ticks, which have no bound there,
\* stop where they would reach the next row's stamp.
FewPastTangle ==
  seen.tangle => Len(log) < MaxRows /\ cache.at < Apart * (cache.of + 1)

=============================================================================
