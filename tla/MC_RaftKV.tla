----------------------------- MODULE MC_RaftKV -----------------------------
(* Model-checking instance of RaftKV: clerks as model values.              *)
EXTENDS RaftKV, TLC

CONSTANTS c1, c2, MaxInFlight

MCClient == {c1, c2}
MCClientOne == {c1}

\* Bound on the handlers waiting in appendEntryToLog and the clerk RPCs in
\* flight: every retry of a clerk may leave a handler running.
InFlightBound == Cardinality(handlers) + Cardinality(net) <= MaxInFlight

Symmetry == Permutations(MCClient)

=============================================================================
