-------------------------- MODULE AcceptedSchedules --------------------------
(***************************************************************************)
(* What the scheduler of core/backend/src/scheduler promises to the rest   *)
(* of an instance: a sequence of published route tables and one accepted   *)
(* schedule snapshot.  The snapshot changes in one step, by one            *)
(* generation, either to a complete set of definitions all of whose        *)
(* targets were routed by one published table, never an older one than     *)
(* before, or to itself without one definition.                            *)
(***************************************************************************)
EXTENDS Naturals, Sequences

CONSTANTS Definition, Target, IdOf, TargetOf

VARIABLES
  tables,      \* the targets routed by each published table
  generation,  \* generation of the accepted snapshot
  accepted,    \* its definitions
  binding      \* generation of the table that validated it

acceptedVars == << tables, generation, accepted, binding >>

Routed(g) == IF g = 0 THEN {} ELSE tables[g]

Distinct(defs) == \A d, e \in defs : IdOf[d] = IdOf[e] => d = e

Init ==
  /\ tables = << >>
  /\ generation = 0
  /\ accepted = {}
  /\ binding = 0

PublishRoutes ==
  /\ \E next \in SUBSET Target : tables' = Append(tables, next)
  /\ UNCHANGED << generation, accepted, binding >>

Accept ==
  /\ accepted' \in SUBSET Definition /\ Distinct(accepted')
  /\ binding' \in binding..Len(tables)
  /\ \A d \in accepted' : TargetOf[d] \in Routed(binding')
  /\ generation' = generation + 1
  /\ UNCHANGED tables

Withdraw ==
  /\ \E d \in accepted : accepted' = accepted \ {d}
  /\ generation' = generation + 1
  /\ UNCHANGED << tables, binding >>

Next == PublishRoutes \/ Accept \/ Withdraw

Spec == Init /\ [][Next]_acceptedVars
=============================================================================
