----------------------------- MODULE MCActivations -----------------------------
(***************************************************************************)
(* What activations keep at the host beyond their own life, in two models, *)
(* one at a time: their leases on schedules, and the sessions of           *)
(* assistants.  "part" says which one a behaviour is about; the other      *)
(* rests.                                                                  *)
(***************************************************************************)
EXTENDS ScheduleLeases, AssistantSessions, TLC

VARIABLE part

\* Activations, schedules and lease identities are interchangeable.
LeaseSymmetry ==
  Permutations(Activation) \cup Permutations(ScheduleId) \cup Permutations(Lease)

PartInit == part \in {"leases", "sessions"} /\ Init /\ SessionInit

\* The troubles of one behaviour, counted together.
FewTroubles ==
  /\ changes' = 0 \/ faults' = 0
  /\ restarts' + reactivations' + failedWrites' <= 2

PartNext ==
  /\ UNCHANGED part
  /\ \/ part = "leases" /\ Next /\ UNCHANGED sessionVars
     \/ part = "sessions" /\ SessionNext /\ UNCHANGED vars
  /\ FewTroubles

PartSpec == PartInit /\ [][PartNext]_<< part, vars, sessionVars >>
=============================================================================
