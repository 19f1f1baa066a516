-------------------------- MODULE MCLiveReconciliation --------------------------
(***************************************************************************)
(* "first" loads in every build, "old" only in the first, "broken" in none; *)
(* the bridge refuses "unrouted".                                          *)
(***************************************************************************)
EXTENDS LiveReconciliation

LoadableFirst ==
  [i \in 0..MaxTroubles |->
     Graph \cap ({"first", "unrouted"} \cup IF i = 0 THEN {"old"} ELSE {})]

\* The last revision desires the graph of the first again.
ReturnsToFirst == Revision' = MaxRevision => history'[MaxRevision] = InitialGraph

\* The specification within that bound, which is one on those who commit only.
MCSpec == Init /\ [][Next /\ ReturnsToFirst]_vars /\ Fairness
=============================================================================
