-------------------------- MODULE AcceptanceProofs --------------------------
(***************************************************************************)
(* Proofs about the two components whose accepted definitions one run      *)
(* checks.  They share no variable and no lemma; the parts can be read     *)
(* apart.  The end has the types of both, for AcceptedFamilies.            *)
(*                                                                         *)
(* ScheduleAcceptance, for every set of definitions, identity and target   *)
(* assignment and bound.  AcceptanceInv is inductive: it is the            *)
(* conjunction of the checked invariants with Prepared, which says what    *)
(* the operation in progress has already established, and LockState, which *)
(* ties the operation to the bus lock and to the startup candidate.  One   *)
(* lemma per action has one step per conjunct.  The end of the part shows  *)
(* that every step is a step of AcceptedSchedules or leaves it unchanged.  *)
(*                                                                         *)
(* Workspace, for any actions, requests and catalogs and any number of     *)
(* faults and reloads.  WorkspaceInv is inductive: one lemma for each kind *)
(* of step, and in it one step per part that the kind disturbs.            *)
(***************************************************************************)
EXTENDS AcceptedFamilies, SequenceTheorems, TLAPS

(***************************************************************************)
(* ScheduleAcceptance.                                                     *)
(***************************************************************************)

\* A table published by the bridge only extends the list of tables, so what an
\* older table routed stays routed by it.
LEMMA PublishRoutesStep ==
  ASSUME AcceptanceInv, NEW next \in SUBSET Target, PublishRoutes(next)
  PROVE  AcceptanceInv'
<1> USE AcceptanceAssumption DEF AcceptanceInv, PublishRoutes, busVars, stateVars, startVars, candidateVars, history
<1>0. op' \in OpType
  BY DEF TypeOK, OpType, Kind, Phase, Idle, Start, Definition
<1>1. TypeOK'
  BY <1>0 DEF TypeOK, Definition
<1>2. AcceptedWasRouted'
  BY DEF TypeOK, OpType, AcceptedWasRouted, AllRouted, Routed, Distinct
<1>3. DeclaredStayAccepted'
  BY DEF DeclaredStayAccepted
<1>4. RefreshSupersedesStartup'
  BY DEF RefreshSupersedesStartup, Idle, Start, TypeOK, OpType
<1>5. ReconciledTogether'
  BY DEF ReconciledTogether, Idle, Start, TypeOK, OpType
<1>6. WatchIsCurrent'
  BY DEF WatchIsCurrent, Idle, Start, TypeOK, OpType
<1>7. Prepared'
  BY DEF Prepared, TypeOK, OpType, Idle, Start, AllRouted, Routed, Distinct
<1>8. LockState'
  BY DEF LockState, TypeOK, OpType, Idle, Start, Distinct
<1> QED
  BY <1>1, <1>2, <1>3, <1>4, <1>5, <1>6, <1>7, <1>8

\* Announcing, waiting and shutting down do not touch the accepted snapshot.
LEMMA QuietStep ==
  ASSUME AcceptanceInv, AnnounceRoutes \/ StartInitialRouteRefresh \/ RoutesReady \/ Shutdown
  PROVE  AcceptanceInv'
<1> USE AcceptanceAssumption DEF AcceptanceInv, AnnounceRoutes, StartInitialRouteRefresh, RoutesReady, Shutdown, busVars, stateVars, startVars, candidateVars, history
<1>0. op' \in OpType
  BY DEF TypeOK, OpType, Kind, Phase, Idle, Start, Definition
<1>1. TypeOK'
  <2>1. CASE AnnounceRoutes
    BY <1>0, <2>1 DEF TypeOK
  <2>2. CASE StartInitialRouteRefresh
    BY <1>0, <2>2 DEF TypeOK
  <2>3. CASE RoutesReady
    BY <1>0, <2>3 DEF TypeOK
  <2>4. CASE Shutdown
    BY <1>0, <2>4 DEF TypeOK
  <2> QED
    BY <2>1, <2>2, <2>3, <2>4
<1>2. AcceptedWasRouted'
  BY DEF TypeOK, OpType, AcceptedWasRouted, AllRouted, Routed, Distinct
<1>3. DeclaredStayAccepted'
  BY DEF DeclaredStayAccepted
<1>4. RefreshSupersedesStartup'
  BY DEF RefreshSupersedesStartup, Idle, Start, TypeOK, OpType
<1>5. ReconciledTogether'
  BY DEF ReconciledTogether, Idle, Start, TypeOK, OpType
<1>6. WatchIsCurrent'
  BY DEF WatchIsCurrent, Idle, Start, TypeOK, OpType
<1>7. Prepared'
  BY DEF Prepared, TypeOK, OpType, Idle, Start, AllRouted, Routed, Distinct
<1>8. LockState'
  BY DEF LockState, TypeOK, OpType, Idle, Start, Distinct
<1> QED
  BY <1>1, <1>2, <1>3, <1>4, <1>5, <1>6, <1>7, <1>8

\* The startup candidate becomes a candidate only while nothing is declared.
LEMMA BeginInitialStep ==
  ASSUME AcceptanceInv, BeginInitial
  PROVE  AcceptanceInv'
<1> USE AcceptanceAssumption DEF AcceptanceInv, BeginInitial, DropStartup, busVars, stateVars, startVars, candidateVars, history
<1>0. op' \in OpType
  BY DEF TypeOK, OpType, Kind, Phase, Idle, Start, Definition
<1>1. TypeOK'
  BY <1>0 DEF TypeOK, Definition
<1>2. AcceptedWasRouted'
  BY DEF TypeOK, OpType, AcceptedWasRouted, AllRouted, Routed, Distinct
<1>3. DeclaredStayAccepted'
  BY DEF DeclaredStayAccepted
<1>4. RefreshSupersedesStartup'
  BY DEF RefreshSupersedesStartup, Idle, Start, TypeOK, OpType
<1>5. ReconciledTogether'
  BY DEF ReconciledTogether, Idle, Start, TypeOK, OpType
<1>6. WatchIsCurrent'
  BY DEF WatchIsCurrent, Idle, Start, TypeOK, OpType
<1>7. Prepared'
  BY DEF Prepared, TypeOK, OpType, Idle, Start, AllRouted, Routed, Distinct, LockState, ReconciledTogether
<1>8. LockState'
  BY DEF LockState, TypeOK, OpType, Idle, Start, Distinct
<1> QED
  BY <1>1, <1>2, <1>3, <1>4, <1>5, <1>6, <1>7, <1>8

\* A refresh loads the files together with the declared definitions, or fails.
LEMMA BeginRefreshStep ==
  ASSUME AcceptanceInv, BeginRefresh
  PROVE  AcceptanceInv'
<1> USE AcceptanceAssumption DEF AcceptanceInv, BeginRefresh, DropStartup, busVars, stateVars, startVars, candidateVars, history
<1>0. op' \in OpType
  BY DEF TypeOK, OpType, Kind, Phase, Idle, Start, Definition, Candidates
<1>1. TypeOK'
  BY <1>0 DEF TypeOK, Definition, Candidates
<1>2. AcceptedWasRouted'
  BY DEF TypeOK, OpType, AcceptedWasRouted, AllRouted, Routed, Distinct
<1>3. DeclaredStayAccepted'
  BY DEF DeclaredStayAccepted
<1>4. RefreshSupersedesStartup'
  BY DEF RefreshSupersedesStartup, Idle, Start, TypeOK, OpType
<1>5. ReconciledTogether'
  BY DEF ReconciledTogether, Idle, Start, TypeOK, OpType
<1>6. WatchIsCurrent'
  BY DEF WatchIsCurrent, Idle, Start, TypeOK, OpType
<1>7. Prepared'
  BY DEF Prepared, TypeOK, OpType, Idle, Start, AllRouted, Routed, Distinct, Candidates, ReconciledTogether
<1>8. LockState'
  BY DEF LockState, TypeOK, OpType, Idle, Start, Distinct
<1> QED
  BY <1>1, <1>2, <1>3, <1>4, <1>5, <1>6, <1>7, <1>8

\* A replacement of the declared definitions loads them with the files.
LEMMA BeginDeclaredStep ==
  ASSUME AcceptanceInv, NEW expected \in Nat, NEW declared \in SUBSET DeclaredDefinition,
         BeginReplace(declared) \/ BeginReconcile(expected, declared)
  PROVE  AcceptanceInv'
<1> USE AcceptanceAssumption DEF AcceptanceInv, BeginReplace, BeginReconcile, busVars, stateVars, startVars, candidateVars, history
<1>0. op' \in OpType
  BY DEF TypeOK, OpType, Kind, Phase, Idle, Start, Definition, Candidates
<1>1. TypeOK'
  BY <1>0 DEF TypeOK, Definition, Candidates
<1>2. AcceptedWasRouted'
  BY DEF TypeOK, OpType, AcceptedWasRouted, AllRouted, Routed, Distinct
<1>3. DeclaredStayAccepted'
  BY DEF DeclaredStayAccepted
<1>4. RefreshSupersedesStartup'
  <2>1. op'.kind # "initial"
    BY DEF Start
  <2>2. superseded' = superseded /\ retained' = retained
    OBVIOUS
  <2> QED
    BY <2>1, <2>2, Zenon DEF RefreshSupersedesStartup
<1>5. ReconciledTogether'
  BY DEF ReconciledTogether, Idle, Start, TypeOK, OpType
<1>6. WatchIsCurrent'
  BY DEF WatchIsCurrent, Idle, Start, TypeOK, OpType
<1>7. Prepared'
  BY DEF Prepared, TypeOK, OpType, Idle, Start, AllRouted, Routed, Distinct, Candidates, ReconciledTogether
<1>8. LockState'
  BY DEF LockState, TypeOK, OpType, Idle, Start, Distinct
<1> QED
  BY <1>1, <1>2, <1>3, <1>4, <1>5, <1>6, <1>7, <1>8

\* Withdrawing one identity that is not declared leaves the declared ones.
LEMMA WithdrawScheduleStep ==
  ASSUME AcceptanceInv, NEW id \in ScheduleId, WithdrawSchedule(id)
  PROVE  AcceptanceInv'
<1> USE AcceptanceAssumption DEF AcceptanceInv, WithdrawSchedule, DropStartup, busVars, stateVars, startVars, candidateVars, history
<1>0. op' \in OpType
  BY DEF TypeOK, OpType, Kind, Phase, Idle, Start, Definition
<1>1. TypeOK'
  <2>1. CASE \E d \in accepted : IdOf[d] = id
    <3>1. accepted' \in SUBSET Definition
      BY <2>1 DEF TypeOK
    <3>2. generation' \in Nat
      BY <2>1 DEF TypeOK
    <3>3. degraded' \in BOOLEAN /\ retained' \in BOOLEAN /\ startup' \in SUBSET FileDefinition
      BY <2>1
    <3> QED
      BY <1>0, <3>1, <3>2, <3>3 DEF TypeOK
  <2>2. CASE ~ \E d \in accepted : IdOf[d] = id
    BY <1>0, <2>2 DEF TypeOK
  <2> QED
    BY <2>1, <2>2
<1>2. AcceptedWasRouted'
  BY DEF TypeOK, OpType, AcceptedWasRouted, AllRouted, Routed, Distinct
<1>3. DeclaredStayAccepted'
  BY DEF DeclaredStayAccepted
<1>4. RefreshSupersedesStartup'
  BY DEF RefreshSupersedesStartup, Idle, Start, TypeOK, OpType
<1>5. ReconciledTogether'
  BY DEF ReconciledTogether, Idle, Start, TypeOK, OpType
<1>6. WatchIsCurrent'
  BY DEF WatchIsCurrent, Idle, Start, TypeOK, OpType
<1>7. Prepared'
  BY ZenonT(60) DEF Prepared, TypeOK, OpType, Idle, Start, AllRouted, Routed, Distinct, ReconciledTogether
<1>8. LockState'
  BY DEF LockState, TypeOK, OpType, Idle, Start, Distinct
<1> QED
  BY <1>1, <1>2, <1>3, <1>4, <1>5, <1>6, <1>7, <1>8

\* A preflight fixes a table that is published and not older than the binding.
LEMMA PreflightStep ==
  ASSUME AcceptanceInv, Preflight
  PROVE  AcceptanceInv'
<1> USE AcceptanceAssumption DEF AcceptanceInv, Preflight, busVars, stateVars, startVars, candidateVars, history
<1>0. op' \in OpType
  <2>1. Len(tables) \in Nat
    BY DEF TypeOK
  <2> QED
    BY <2>1 DEF TypeOK, OpType, Kind, Phase, Idle, Start, Definition
<1>1. TypeOK'
  BY <1>0 DEF TypeOK, Definition
<1>2. AcceptedWasRouted'
  BY DEF TypeOK, OpType, AcceptedWasRouted, AllRouted, Routed, Distinct
<1>3. DeclaredStayAccepted'
  BY DEF DeclaredStayAccepted
<1>4. RefreshSupersedesStartup'
  BY DEF RefreshSupersedesStartup, Idle, Start, TypeOK, OpType
<1>5. ReconciledTogether'
  BY DEF ReconciledTogether, Idle, Start, TypeOK, OpType
<1>6. WatchIsCurrent'
  BY DEF WatchIsCurrent, Idle, Start, TypeOK, OpType
<1>7. Prepared'
  BY DEF Prepared, TypeOK, OpType, Idle, Start, AllRouted, Routed, Distinct, AcceptedWasRouted, ReconciledTogether
<1>8. LockState'
  BY DEF LockState, TypeOK, OpType, Idle, Start, Distinct
<1> QED
  BY <1>1, <1>2, <1>3, <1>4, <1>5, <1>6, <1>7, <1>8

\* A rejected candidate leaves the snapshot as it was.
LEMMA PreflightRejectsStep ==
  ASSUME AcceptanceInv, PreflightRejects
  PROVE  AcceptanceInv'
<1> USE AcceptanceAssumption DEF AcceptanceInv, PreflightRejects, busVars, stateVars, startVars, candidateVars, history
<1>0. op' \in OpType
  BY DEF TypeOK, OpType, Kind, Phase, Idle, Start, Definition
<1>1. TypeOK'
  BY <1>0 DEF TypeOK, Definition
<1>2. AcceptedWasRouted'
  BY DEF TypeOK, OpType, AcceptedWasRouted, AllRouted, Routed, Distinct
<1>3. DeclaredStayAccepted'
  BY DEF DeclaredStayAccepted
<1>4. RefreshSupersedesStartup'
  BY DEF RefreshSupersedesStartup, Idle, Start, TypeOK, OpType
<1>5. ReconciledTogether'
  BY DEF ReconciledTogether, Idle, Start, TypeOK, OpType, Prepared
<1>6. WatchIsCurrent'
  BY DEF WatchIsCurrent, Idle, Start, TypeOK, OpType
<1>7. Prepared'
  BY DEF Prepared, TypeOK, OpType, Idle, Start, AllRouted, Routed, Distinct
<1>8. LockState'
  BY DEF LockState, TypeOK, OpType, Idle, Start, Distinct
<1> QED
  BY <1>1, <1>2, <1>3, <1>4, <1>5, <1>6, <1>7, <1>8

\* A reconciliation publishes the successor that its candidate was checked on.
LEMMA ReconcileRoutesStep ==
  ASSUME AcceptanceInv, NEW next \in SUBSET Target, ReconcileRoutes(next)
  PROVE  AcceptanceInv'
<1> USE AcceptanceAssumption DEF AcceptanceInv, ReconcileRoutes, busVars, stateVars, startVars, candidateVars, history
<1>0. op' \in OpType
  <2>1. Len(tables) \in Nat
    BY DEF TypeOK
  <2>2. op \in OpType
    BY DEF TypeOK
  <2>3. [op EXCEPT !.phase = "announce"] \in OpType
    BY <2>2 DEF OpType, Phase
  <2> QED
    <3> HIDE DEF AcceptanceInv
    <3> DEFINE announcing == [op EXCEPT !.phase = "announce"]
    <3>1. op' = [announcing EXCEPT !.binding = Len(tables) + 1]
      BY Zenon
    <3>2. announcing \in OpType
      BY <2>3
    <3> HIDE DEF announcing
    <3> QED
      BY ONLY <2>1, <3>1, <3>2 DEF OpType
<1>1. TypeOK'
  BY <1>0 DEF TypeOK, Definition
<1>2. AcceptedWasRouted'
  BY DEF TypeOK, OpType, AcceptedWasRouted, AllRouted, Routed, Distinct
<1>3. DeclaredStayAccepted'
  BY DEF DeclaredStayAccepted
<1>4. RefreshSupersedesStartup'
  BY DEF RefreshSupersedesStartup, Idle, Start, TypeOK, OpType
<1>5. ReconciledTogether'
  BY DEF ReconciledTogether, Idle, Start, TypeOK, OpType
<1>6. WatchIsCurrent'
  BY DEF WatchIsCurrent, Idle, Start, TypeOK, OpType
<1>7. Prepared'
  BY DEF Prepared, TypeOK, OpType, Idle, Start, AllRouted, Routed, Distinct, AcceptedWasRouted
<1>8. LockState'
  BY DEF LockState, TypeOK, OpType, Idle, Start, Distinct
<1> QED
  BY <1>1, <1>2, <1>3, <1>4, <1>5, <1>6, <1>7, <1>8

\* Announcing the successor moves the reconciliation to its commit.
LEMMA ReconcileAnnouncesStep ==
  ASSUME AcceptanceInv, ReconcileAnnounces
  PROVE  AcceptanceInv'
<1> USE AcceptanceAssumption DEF AcceptanceInv, ReconcileAnnounces, busVars, stateVars, startVars, candidateVars, history
<1>0. op' \in OpType
  BY DEF TypeOK, OpType, Kind, Phase, Idle, Start, Definition
<1>1. TypeOK'
  BY <1>0 DEF TypeOK, Definition
<1>2. AcceptedWasRouted'
  BY DEF TypeOK, OpType, AcceptedWasRouted, AllRouted, Routed, Distinct
<1>3. DeclaredStayAccepted'
  BY DEF DeclaredStayAccepted
<1>4. RefreshSupersedesStartup'
  BY DEF RefreshSupersedesStartup, Idle, Start, TypeOK, OpType
<1>5. ReconciledTogether'
  BY DEF ReconciledTogether, Idle, Start, TypeOK, OpType
<1>6. WatchIsCurrent'
  BY DEF WatchIsCurrent, Idle, Start, TypeOK, OpType
<1>7. Prepared'
  BY DEF Prepared, TypeOK, OpType, Idle, Start, AllRouted, Routed, Distinct
<1>8. LockState'
  BY DEF LockState, TypeOK, OpType, Idle, Start, Distinct
<1> QED
  BY <1>1, <1>2, <1>3, <1>4, <1>5, <1>6, <1>7, <1>8

\* The commit replaces snapshot, binding and declared definitions together.
LEMMA CommitCandidateStep ==
  ASSUME AcceptanceInv, CommitCandidate
  PROVE  AcceptanceInv'
<1> USE AcceptanceAssumption DEF AcceptanceInv, CommitCandidate, DropStartup, busVars, stateVars, startVars, candidateVars, history
<1>0. op' \in OpType
  BY DEF TypeOK, OpType, Kind, Phase, Idle, Start, Definition, OpType
<1>1. TypeOK'
  <2>1. overlay' \in SUBSET DeclaredDefinition /\ accepted' \in SUBSET Definition /\ binding' \in Nat
    BY DEF TypeOK, OpType
  <2>2. generation' \in Nat
    BY DEF TypeOK
  <2> QED
    BY <1>0, <2>1, <2>2 DEF TypeOK
<1>2. AcceptedWasRouted'
  BY DEF TypeOK, OpType, AcceptedWasRouted, AllRouted, Routed, Distinct, Prepared
<1>3. DeclaredStayAccepted'
  BY DEF DeclaredStayAccepted, Prepared
<1>4. RefreshSupersedesStartup'
  BY DEF RefreshSupersedesStartup, Idle, Start, TypeOK, OpType
<1>5. ReconciledTogether'
  BY DEF ReconciledTogether, Idle, Start, TypeOK, OpType, Prepared
<1>6. WatchIsCurrent'
  BY DEF WatchIsCurrent, Idle, Start, TypeOK, OpType
<1>7. Prepared'
  BY DEF Prepared, TypeOK, OpType, Idle, Start, AllRouted, Routed, Distinct, ReconciledTogether
<1>8. LockState'
  BY DEF LockState, TypeOK, OpType, Idle, Start, Distinct, Prepared
<1> QED
  BY <1>1, <1>2, <1>3, <1>4, <1>5, <1>6, <1>7, <1>8

\* The watch catches up before the locks are released.
LEMMA PublishSnapshotStep ==
  ASSUME AcceptanceInv, PublishSnapshot
  PROVE  AcceptanceInv'
<1> USE AcceptanceAssumption DEF AcceptanceInv, PublishSnapshot, busVars, stateVars, startVars, candidateVars, history
<1>0. op' \in OpType
  BY DEF TypeOK, OpType, Kind, Phase, Idle, Start, Definition
<1>1. TypeOK'
  BY <1>0 DEF TypeOK, Definition
<1>2. AcceptedWasRouted'
  BY DEF TypeOK, OpType, AcceptedWasRouted, AllRouted, Routed, Distinct
<1>3. DeclaredStayAccepted'
  BY DEF DeclaredStayAccepted
<1>4. RefreshSupersedesStartup'
  BY DEF RefreshSupersedesStartup, Idle, Start, TypeOK, OpType
<1>5. ReconciledTogether'
  BY DEF ReconciledTogether, Idle, Start, TypeOK, OpType, Prepared
<1>6. WatchIsCurrent'
  BY DEF WatchIsCurrent, Idle, Start, TypeOK, OpType
<1>7. Prepared'
  BY DEF Prepared, TypeOK, OpType, Idle, Start, AllRouted, Routed, Distinct
<1>8. LockState'
  BY DEF LockState, TypeOK, OpType, Idle, Start, Distinct
<1> QED
  BY <1>1, <1>2, <1>3, <1>4, <1>5, <1>6, <1>7, <1>8

-----------------------------------------------------------------------------
\* A service starts with an empty snapshot that is bound to no table.
LEMMA InitAcceptanceInv == ASSUME Init PROVE AcceptanceInv
<1> USE AcceptanceAssumption DEF Init
<1>0. startup \in SUBSET FileDefinition /\ Distinct(startup)
  BY DEF Candidates, Distinct
<1>1. op \in OpType
  BY DEF OpType, Kind, Phase, Idle
<1>2. tables \in Seq(SUBSET Target) /\ Len(tables) = 0
  OBVIOUS
<1>3. TypeOK
  <2>1. degraded \in BOOLEAN
    BY Zenon
  <2>2. tables \in Seq(SUBSET Target) /\ announced \in Nat /\ announced <= Len(tables)
    BY <1>2
  <2>3. /\ busHolder \in {"none", "bridge", "scheduler"} /\ op \in OpType
        /\ generation \in Nat /\ accepted \in SUBSET Definition /\ binding \in Nat
        /\ overlay \in SUBSET DeclaredDefinition /\ watch \in Nat
        /\ retained \in BOOLEAN /\ startup \in SUBSET FileDefinition
        /\ waiter \in {"new", "waiting", "ready", "done"}
        /\ down \in BOOLEAN /\ superseded \in BOOLEAN /\ reconciled \in Nat
    BY <1>0, <1>1
  <2> QED
    BY <2>1, <2>2, <2>3, Zenon DEF TypeOK
<1>4. AcceptedWasRouted /\ DeclaredStayAccepted
  BY <1>2 DEF AcceptedWasRouted, AllRouted, Distinct, DeclaredStayAccepted
<1>5. RefreshSupersedesStartup /\ ReconciledTogether /\ WatchIsCurrent
  BY DEF RefreshSupersedesStartup, ReconciledTogether, WatchIsCurrent
<1>6. Prepared
  BY DEF Prepared, Idle
<1>7. LockState
  BY <1>0, <1>2 DEF LockState, Idle
<1> QED
  BY <1>3, <1>4, <1>5, <1>6, <1>7 DEF AcceptanceInv

\* Every step of the scheduler preserves the inductive invariant.
LEMMA NextAcceptanceInv == ASSUME AcceptanceInv, [Next]_vars PROVE AcceptanceInv'
<1>1. CASE Operation
  <2>1. CASE BeginInitial
    BY <2>1, BeginInitialStep
  <2>2. CASE BeginRefresh
    BY <2>2, BeginRefreshStep
  <2>3. CASE \E declared \in SUBSET DeclaredDefinition : BeginReplace(declared)
    <3> PICK declared \in SUBSET DeclaredDefinition : BeginReplace(declared)
      BY <2>3
    <3> QED
      BY BeginDeclaredStep
  <2>4. CASE \E expected \in 0..Len(tables), declared \in SUBSET DeclaredDefinition :
               BeginReconcile(expected, declared)
    <3>1. PICK expected \in 0..Len(tables), declared \in SUBSET DeclaredDefinition :
            BeginReconcile(expected, declared)
      BY <2>4
    <3>2. expected \in Nat
      BY <3>1
    <3> QED
      BY <3>1, <3>2, BeginDeclaredStep
  <2>5. CASE \E id \in ScheduleId : WithdrawSchedule(id)
    BY <2>5, WithdrawScheduleStep
  <2> QED
    BY <1>1, <2>1, <2>2, <2>3, <2>4, <2>5 DEF Operation
<1>2. CASE Progress
  BY <1>2, PreflightStep, PreflightRejectsStep, ReconcileRoutesStep,
     ReconcileAnnouncesStep, CommitCandidateStep, PublishSnapshotStep DEF Progress
<1>3. CASE Environment
  BY <1>3, PublishRoutesStep, QuietStep DEF Environment
<1>4. CASE UNCHANGED vars
  <2> USE <1>4 DEF vars, AcceptanceInv
  <2>1. TypeOK'
    BY DEF TypeOK
  <2>2. AcceptedWasRouted' /\ DeclaredStayAccepted'
    BY DEF AcceptedWasRouted, AllRouted, Routed, Distinct, DeclaredStayAccepted
  <2>3. RefreshSupersedesStartup' /\ ReconciledTogether' /\ WatchIsCurrent'
    BY DEF RefreshSupersedesStartup, ReconciledTogether, WatchIsCurrent
  <2>4. Prepared'
    BY DEF Prepared, AllRouted, Routed, Distinct
  <2>5. LockState'
    BY DEF LockState, Distinct
  <2> QED
    BY <2>1, <2>2, <2>3, <2>4, <2>5
<1> QED
  BY <1>1, <1>2, <1>3, <1>4 DEF Next

\* The strengthened invariant of schedule acceptance holds in every reachable
\* state of the service.
THEOREM AcceptanceInvariant == Spec => []AcceptanceInv
<1>1. Init => AcceptanceInv
  BY InitAcceptanceInv
<1>2. AcceptanceInv /\ [Next]_vars => AcceptanceInv'
  BY NextAcceptanceInv
<1> QED
  BY <1>1, <1>2, PTL DEF Spec

\* Every variable of the service keeps its type.
THEOREM TypeCorrect == Spec => []TypeOK
<1>1. AcceptanceInv => TypeOK
  BY DEF AcceptanceInv
<1> QED
  BY <1>1, AcceptanceInvariant, PTL

\* No accepted schedule ever targets a route that was not published by the table
\* it is bound to, whatever is published between preflight and commit.
THEOREM SnapshotWasRouted == Spec => []AcceptedWasRouted
<1>1. AcceptanceInv => AcceptedWasRouted
  BY DEF AcceptanceInv
<1> QED
  BY <1>1, AcceptanceInvariant, PTL

\* No refresh, startup candidate or withdrawal drops a declared definition.
THEOREM DeclaredKept == Spec => []DeclaredStayAccepted
<1>1. AcceptanceInv => DeclaredStayAccepted
  BY DEF AcceptanceInv
<1> QED
  BY <1>1, AcceptanceInvariant, PTL

\* The candidate read at construction is never applied after a refresh.
THEOREM StartupSuperseded == Spec => []RefreshSupersedesStartup
<1>1. AcceptanceInv => RefreshSupersedesStartup
  BY DEF AcceptanceInv
<1> QED
  BY <1>1, AcceptanceInvariant, PTL

\* A reconciliation that ended has bound the snapshot to its table or a later one.
THEOREM RoutesAndSchedulesTogether == Spec => []ReconciledTogether
<1>1. AcceptanceInv => ReconciledTogether
  BY DEF AcceptanceInv
<1> QED
  BY <1>1, AcceptanceInvariant, PTL

\* Outside of the publishing step the watch shows the accepted generation.
THEOREM WatchCurrent == Spec => []WatchIsCurrent
<1>1. AcceptanceInv => WatchIsCurrent
  BY DEF AcceptanceInv
<1> QED
  BY <1>1, AcceptanceInvariant, PTL

\* One step of the service changes the accepted snapshot by at most one
\* generation and never binds it to an older table.
LEMMA StepIsSerial ==
  ASSUME AcceptanceInv, [Next]_vars
  PROVE  /\ generation' \in {generation, generation + 1}
         /\ accepted' # accepted => generation' = generation + 1
         /\ binding' >= binding
<1> USE DEF AcceptanceInv, TypeOK
<1>1. CASE CommitCandidate
  BY <1>1 DEF CommitCandidate, Prepared, OpType
<1>2. CASE \E id \in ScheduleId : WithdrawSchedule(id)
  BY <1>2 DEF WithdrawSchedule
<1>3. CASE UNCHANGED << generation, accepted, binding >>
  BY <1>3
<1> QED
  <2>1. CommitCandidate \/ (\E id \in ScheduleId : WithdrawSchedule(id))
          \/ UNCHANGED << generation, accepted, binding >>
    <3> HIDE DEF AcceptanceInv, TypeOK
    <3> USE DEF busVars, stateVars, history
    <3>1. CASE Operation
      BY <3>1 DEF Operation, BeginInitial, BeginRefresh, BeginReplace, BeginReconcile
    <3>2. CASE Progress
      BY <3>2 DEF Progress, Preflight, PreflightRejects, ReconcileRoutes,
                  ReconcileAnnounces, PublishSnapshot
    <3>3. CASE Environment
      BY <3>3 DEF Environment, PublishRoutes, AnnounceRoutes,
                  StartInitialRouteRefresh, RoutesReady, Shutdown
    <3> QED
      BY <3>1, <3>2, <3>3 DEF Next, vars
  <2> QED
    BY <1>1, <1>2, <1>3, <2>1

\* The accepted snapshot changes in single generations and its route binding
\* never moves backwards.
THEOREM SerialGenerations == Spec => GenerationsAreSerial
<1>1. AcceptanceInv /\ [Next]_vars =>
        [/\ generation' \in {generation, generation + 1}
         /\ accepted' # accepted => generation' = generation + 1
         /\ binding' >= binding]_vars
  BY StepIsSerial
<1> QED
  BY <1>1, AcceptanceInvariant, PTL DEF Spec, GenerationsAreSerial

-----------------------------------------------------------------------------
\* Every step of the service, whoever takes it, is one abstract step or none.
LEMMA StepImplements ==
  ASSUME AcceptanceInv, [Next]_vars
  PROVE  [Abstract!Next]_(Abstract!acceptedVars)
<1> USE DEF AcceptanceInv, TypeOK
<1>1. ASSUME NEW next \in SUBSET Target, PublishRoutes(next) \/ ReconcileRoutes(next)
      PROVE  Abstract!PublishRoutes
  BY <1>1 DEF PublishRoutes, ReconcileRoutes, stateVars, Abstract!PublishRoutes
<1>2. CASE CommitCandidate
  <2>1. accepted' \in SUBSET Definition /\ Abstract!Distinct(accepted')
    BY <1>2 DEF CommitCandidate, OpType, Prepared, Distinct, Abstract!Distinct
  <2>2. binding' \in binding..Len(tables)
    BY <1>2 DEF CommitCandidate, Prepared
  <2>3. \A d \in accepted' : TargetOf[d] \in Abstract!Routed(binding')
    BY <1>2 DEF CommitCandidate, Prepared, AllRouted, Routed, Abstract!Routed
  <2>4. generation' = generation + 1 /\ UNCHANGED tables
    BY <1>2 DEF CommitCandidate, busVars
  <2> QED
    BY <2>1, <2>2, <2>3, <2>4 DEF Abstract!Next, Abstract!Accept
<1>3. ASSUME NEW id \in ScheduleId, WithdrawSchedule(id)
      PROVE  Abstract!Withdraw \/ UNCHANGED Abstract!acceptedVars
  <2>1. CASE \E d \in accepted : IdOf[d] = id
    <3>1. PICK d \in accepted : IdOf[d] = id
      BY <2>1
    <3>2. accepted' = {e \in accepted : IdOf[e] # id} /\ generation' = generation + 1
            /\ UNCHANGED << tables, binding >>
      BY <1>3, <2>1 DEF WithdrawSchedule, busVars
    <3>3. accepted' = accepted \ {d}
      BY <3>1, <3>2 DEF AcceptedWasRouted, Distinct
    <3> QED
      BY <3>1, <3>2, <3>3 DEF Abstract!Withdraw
  <2>2. CASE ~ \E d \in accepted : IdOf[d] = id
    BY <1>3, <2>2 DEF WithdrawSchedule, busVars, Abstract!acceptedVars
  <2> QED
    BY <2>1, <2>2
<1>4. \/ \E next \in SUBSET Target : PublishRoutes(next) \/ ReconcileRoutes(next)
      \/ CommitCandidate
      \/ \E id \in ScheduleId : WithdrawSchedule(id)
      \/ UNCHANGED << tables, generation, accepted, binding >>
  <2> HIDE DEF AcceptanceInv, TypeOK
  <2> USE DEF busVars, stateVars, history
  <2>1. CASE Operation
    BY <2>1 DEF Operation, BeginInitial, BeginRefresh, BeginReplace, BeginReconcile
  <2>2. CASE Progress
    BY <2>2 DEF Progress, Preflight, PreflightRejects, ReconcileAnnounces, PublishSnapshot
  <2>3. CASE Environment
    BY <2>3 DEF Environment, AnnounceRoutes, StartInitialRouteRefresh, RoutesReady, Shutdown
  <2> QED
    BY <2>1, <2>2, <2>3 DEF Next, vars
<1> QED
  BY <1>1, <1>2, <1>3, <1>4 DEF Abstract!Next, Abstract!acceptedVars

\* The scheduler implements AcceptedSchedules: preflight, announcements, the
\* locks and the startup candidate are invisible, and each commit replaces the
\* snapshot in one step by a candidate that one published table routes.
THEOREM AcceptanceImplements == Spec => AcceptedSpec
<1>1. Init => Abstract!Init
  BY DEF Init, Abstract!Init
<1>2. AcceptanceInv /\ [Next]_vars => [Abstract!Next]_(Abstract!acceptedVars)
  BY StepImplements
<1> QED
  BY <1>1, <1>2, AcceptanceInvariant, PTL DEF Spec, AcceptedSpec, Abstract!Spec


-----------------------------------------------------------------------------
(***************************************************************************)
(* Workspace.                                                              *)
(***************************************************************************)

Kinds == { "read", "write", "migrate" }
MessageType ==
  [by : Nat, call : Call, kind : Kinds, expected : Nat, document : Document]
AnswerType == [kind : { "none", "record", "conflict", "failed" }, revision : Nat]
Steps == { "idle", "sent", "answered", "asking", "told", "done" }
Outcomes == { "none", "applied", "refused", "conflict", "failed", "lost" }

\* The types that the proofs need: nothing is bounded here but catalogs.
Types ==
  /\ published \in Seq(Record) /\ inbox \in Seq(MessageType)
  /\ activation \in Nat /\ activation = reloads
  /\ authority \in { "closed", "loading", "available", "unavailable" }
  /\ state \in [revision : Nat, document : Document]
  /\ installed \in 0..MaxCatalog /\ cataloged \in BOOLEAN
  /\ canvas \in Seq(Action) /\ submitted \in Seq(1..MaxCatalog) /\ highest \in 0..MaxCatalog
  /\ ended \subseteq 1..MaxCatalog /\ reported \subseteq ended
  /\ step \in [Call -> Steps] /\ answer \in [Call -> AnswerType]
  /\ read \in [Request -> Nat] /\ outcome \in [Edit -> Outcomes]
  /\ submits \in Nat /\ reloads \in Nat /\ faults \in Nat

\* A message of the webview that runs is what its call waits for.
Awaited(m) ==
  \/ /\ step[m.call] = "sent"
     /\ m.kind \in IF m.call = "load" THEN { "read", "migrate" } ELSE { "write" }
  \/ step[m.call] = "asking" /\ m.kind = "read" /\ m.call # "load"

\* The inbox is in the order of the webviews; the one that runs waits for each of its
\* messages, once, and the edits of the earlier ones are lost to their callers.
InTransit ==
  /\ \A k \in DOMAIN inbox :
       /\ inbox[k].by <= activation
       /\ inbox[k].by = activation => Awaited(inbox[k])
       /\ inbox[k].by < activation /\ inbox[k].call \in Edit => outcome[inbox[k].call] = "lost"
       /\ inbox[k].kind = "migrate" => inbox[k].call = "load"
       /\ inbox[k].kind = "write" => inbox[k].call \in Commits
  /\ \A j, k \in DOMAIN inbox : j < k =>
       /\ inbox[j].by <= inbox[k].by
       /\ inbox[j].by = activation => inbox[j].call # inbox[k].call

\* What a webview waits for at each stage of its opening, and what it was told.
StepsMatch ==
  /\ authority = "closed" => step["load"] = "idle"
  /\ authority = "loading" => step["load"] \in { "sent", "answered" }
  /\ authority \in { "available", "unavailable" } => step["load"] = "done"
  /\ step["load"] = "answered" =>
       /\ inbox = << >> /\ answer["load"].kind \in { "record", "failed" }
       /\ answer["load"].revision = IF answer["load"].kind = "failed" THEN 0 ELSE Stored
  /\ step["catalog"] # "done"
  /\ authority # "available" =>
       /\ \A c \in Commits : step[c] \in { "idle", "done" }
       /\ ~ cataloged /\ state.revision = 0
  /\ authority = "available" => \A k \in DOMAIN inbox : inbox[k].by = activation
  /\ \A e \in Edit : outcome[e] = "none" <=> step[e] # "done"

\* What is answered was published, and the answer to a write has the edit.
AnswersTrue ==
  \A c \in Commits :
    /\ step[c] = "answered" => answer[c].kind # "none"
    /\ step[c] = "told" => answer[c].kind \in { "record", "failed" }
    /\ step[c] \in { "answered", "told" } => answer[c].revision <= Stored
    /\ step[c] = "answered" /\ answer[c].kind = "record" =>
         /\ answer[c].revision > 0
         /\ c \in Edit => c \in published[answer[c].revision].document.edits

\* The last record is of the current schema, or there is none.
Current == Stored > 0 => published[Stored].current

\* A record of an old schema is the only one until it is migrated, once, before anything
\* is written.
MigratedFirst ==
  /\ ~ Current => Stored = 1 /\ \A k \in DOMAIN inbox : inbox[k].kind # "write"
  /\ \A k \in DOMAIN inbox : inbox[k].kind = "migrate" =>
       /\ ~ Current /\ inbox[k].document = published[1].document
       /\ \A j \in DOMAIN inbox : inbox[j].kind = "migrate" => j = k
  /\ authority = "available" => Current

\* An edit that no write carried to the storage, and none will unless its caller waits.
Unsaved(e) ==
  \/ step[e] \in { "idle", "sent", "asking", "told" }
  \/ step[e] = "answered" /\ answer[e].kind \in { "conflict", "failed" }
  \/ outcome[e] \in { "refused", "conflict", "failed" }

\* Every record has the edits of those before it; a write adds its own to those of the
\* revision that it expects.
EditsCarried ==
  /\ \A r, s \in DOMAIN published : r <= s =>
       published[r].document.edits \subseteq published[s].document.edits
  /\ \A k \in DOMAIN inbox : inbox[k].kind = "write" =>
       /\ inbox[k].expected <= Stored
       /\ inbox[k].document.edits =
            Held(inbox[k].expected).document.edits \cup ({ inbox[k].call } \cap Edit)
  /\ \A e \in Edit : Unsaved(e) => \A r \in DOMAIN published : e \notin published[r].document.edits
  /\ \A e \in Edit : outcome[e] = "applied" =>
       Stored > 0 /\ e \in published[Stored].document.edits

\* The catalog that a revision names is installed, an earlier one, or the one whose
\* write was answered and not heard of.
Heeded(r) ==
  \/ Held(r).document.catalog <= installed
  \/ /\ step["catalog"] = "answered" /\ answer["catalog"].kind = "record"
     /\ Held(r).document.catalog = Head(submitted)

\* Nothing was written by this webview.
Untouched ==
  /\ state.revision = Stored
  /\ \A k \in DOMAIN inbox : inbox[k].kind = "write" => inbox[k].expected = Stored
  /\ \A c \in Commits :
       step[c] \notin { "asking", "told" } /\ (step[c] = "answered" => answer[c].kind = "failed")

\* The catalogs of a webview are submitted and installed in rising order.
CatalogsRise ==
  /\ ~ cataloged => installed = 0
  /\ installed <= highest
  /\ \A i \in DOMAIN submitted : installed <= submitted[i] /\ submitted[i] <= highest
  /\ \A i, j \in DOMAIN submitted : i < j => submitted[i] <= submitted[j]
  /\ step["catalog"] # "idle" => submitted # << >>

\* Of what this webview wrote nothing names a later catalog than the installed one,
\* unless that was written and the answer is on its way.
CatalogsHeeded ==
  /\ \A k \in DOMAIN inbox : inbox[k].kind = "write" /\ inbox[k].by = activation =>
       IF inbox[k].call = "catalog" THEN inbox[k].document.catalog = Head(submitted)
       ELSE inbox[k].document.catalog <= installed
  /\ \A c \in Commits : step[c] \in { "answered", "told" } /\ answer[c].kind = "record" =>
       Heeded(answer[c].revision)
  /\ step["catalog"] = "answered" /\ answer["catalog"].kind = "record" =>
       Held(answer["catalog"].revision).document.catalog = Head(submitted)
  /\ authority = "available" =>
       IF cataloged THEN Heeded(state.revision) /\ Heeded(Stored) ELSE Heeded(Stored) \/ Untouched

\* What the authority holds was published.
HeldStands == state.revision <= Stored /\ HeldIsPublished

WorkspaceInv ==
  /\ Types /\ InTransit /\ StepsMatch /\ AnswersTrue /\ MigratedFirst /\ EditsCarried
  /\ CatalogsRise /\ CatalogsHeeded /\ CatalogsAsTold /\ HeldStands

-----------------------------------------------------------------------------
(***************************************************************************)
(* Facts.                                                                  *)
(***************************************************************************)

\* The elements of a sequence.
LEMMA ElementFacts ==
  ASSUME NEW S, NEW s \in Seq(S)
  PROVE  DOMAIN s = 1..Len(s) /\ Len(s) \in Nat /\ \A k \in DOMAIN s : s[k] \in S
  OBVIOUS

\* What follows the head of a sequence.
LEMMA TailFacts ==
  ASSUME NEW S, NEW s \in Seq(S), s # << >>
  PROVE  /\ Tail(s) \in Seq(S) /\ 1 \in DOMAIN s /\ Head(s) = s[1] /\ s[1] \in S
         /\ Len(Tail(s)) = Len(s) - 1
         /\ \A k \in DOMAIN Tail(s) : k \in Nat /\ k >= 1 /\ k + 1 \in DOMAIN s /\ Tail(s)[k] = s[k + 1]
  OBVIOUS

\* A sequence with one more element.
LEMMA AppendFacts ==
  ASSUME NEW S, NEW s \in Seq(S), NEW x \in S
  PROVE  /\ Append(s, x) \in Seq(S) /\ Len(Append(s, x)) = Len(s) + 1 /\ Len(s) \in Nat
         /\ DOMAIN Append(s, x) = DOMAIN s \cup { Len(s) + 1 } /\ DOMAIN s = 1..Len(s)
         /\ \A k \in DOMAIN s : Append(s, x)[k] = s[k] /\ k < Len(s) + 1
         /\ Append(s, x)[Len(s) + 1] = x
         /\ s # << >> => Head(Append(s, x)) = Head(s)
  OBVIOUS

\* The calls: those of edits, the one that loads and the one of catalogs.
LEMMA Calls ==
  /\ "load" \notin Edit /\ "catalog" \notin Edit /\ "load" \notin Commits
  /\ Edit \subseteq Commits /\ "catalog" \in Commits /\ "load" \in Call /\ Commits \subseteq Call
  /\ Call = Commits \cup { "load" } /\ Action \subseteq Edit /\ Request \subseteq Edit
  /\ MaxCatalog \in Nat
  BY WorkspaceBounds DEF Call, Edit, Commits

\* A revision holds what was published.
LEMMA HeldFacts ==
  ASSUME Types, NEW r \in 0..Stored
  PROVE  /\ Stored \in Nat /\ Held(r) \in [revision : Nat, document : Document]
         /\ Held(r).revision = r /\ NoDocument \in Document
         /\ r = 0 => Held(r).document = NoDocument
         /\ r # 0 => r \in DOMAIN published /\ Held(r).document = published[r].document
<1>1. Stored \in Nat /\ DOMAIN published = 1..Stored /\ \A k \in DOMAIN published : published[k] \in Record
  BY DEF Types, Stored
<1>2. NoDocument \in Document
  BY WorkspaceBounds DEF NoDocument, Document
<1>3. r # 0 => r \in DOMAIN published /\ published[r].document \in Document
  BY <1>1 DEF Record
<1> QED
  BY <1>1, <1>2, <1>3 DEF Held

\* A revision that stays holds what it held.
LEMMA HeldStays ==
  ASSUME Types, NEW r \in 0..Stored, published' = published
  PROVE  Held(r)' = Held(r)
  BY DEF Held

\* What a service leaves of the inbox, of steps and of answers.
LEMMA Served ==
  ASSUME Types, InTransit, inbox # << >>, NEW a \in AnswerType, Answers(Head(inbox), a)
  PROVE  /\ Head(inbox) = inbox[1] /\ 1 \in DOMAIN inbox /\ inbox[1] \in MessageType
         /\ inbox' \in Seq(MessageType)
         /\ \A k \in DOMAIN inbox' : /\ k \in Nat /\ k >= 1 /\ k + 1 \in DOMAIN inbox
                                     /\ inbox'[k] = inbox[k + 1] /\ inbox'[k] \in MessageType
         /\ step' \in [Call -> Steps] /\ answer' \in [Call -> AnswerType]
         /\ \A c \in Call : c # inbox[1].call => step'[c] = step[c] /\ answer'[c] = answer[c]
         /\ inbox[1].by # activation => step' = step /\ answer' = answer
         /\ inbox[1].by = activation =>
              /\ Awaited(inbox[1]) /\ answer'[inbox[1].call] = a
              /\ step'[inbox[1].call] = IF step[inbox[1].call] = "asking" THEN "told" ELSE "answered"
              /\ \A k \in DOMAIN inbox' :
                   inbox'[k].by = activation /\ inbox'[k].call # inbox[1].call
<1>1. inbox \in Seq(MessageType)
  BY DEF Types
<1>2. /\ Head(inbox) = inbox[1] /\ 1 \in DOMAIN inbox /\ inbox[1] \in MessageType
      /\ inbox' = Tail(inbox) /\ inbox' \in Seq(MessageType)
      /\ \A k \in DOMAIN inbox' : /\ k \in Nat /\ k >= 1 /\ k + 1 \in DOMAIN inbox
                                  /\ inbox'[k] = inbox[k + 1] /\ inbox'[k] \in MessageType
  BY <1>1, TailFacts DEF Answers
<1> DEFINE m == inbox[1]
<1>3. m.call \in Call
  BY <1>2 DEF MessageType
<1>4. CASE m.by # activation
  BY <1>2, <1>4 DEF Answers, Types
<1>5. CASE m.by = activation
  <2>1. /\ answer' = [answer EXCEPT ![m.call] = a]
        /\ step' = [step EXCEPT ![m.call] = IF step[m.call] = "asking" THEN "told" ELSE "answered"]
    BY <1>2, <1>5 DEF Answers
  <2>2. step' \in [Call -> Steps] /\ answer' \in [Call -> AnswerType]
    BY <1>3, <2>1 DEF Types, Steps
  <2>3. /\ \A c \in Call : c # m.call => step'[c] = step[c] /\ answer'[c] = answer[c]
        /\ answer'[m.call] = a
        /\ step'[m.call] = IF step[m.call] = "asking" THEN "told" ELSE "answered"
    BY <1>3, <2>1 DEF Types
  <2>4. \A k \in DOMAIN inbox' : inbox'[k].by = activation /\ inbox'[k].call # m.call
    <3> SUFFICES ASSUME NEW k \in DOMAIN inbox'
                 PROVE  inbox'[k].by = activation /\ inbox'[k].call # m.call
      OBVIOUS
    <3>1. k + 1 \in DOMAIN inbox /\ 1 < k + 1 /\ inbox'[k] = inbox[k + 1] /\ inbox[k + 1] \in MessageType
      BY <1>1, <1>2
    <3>2. m.by <= inbox[k + 1].by /\ inbox[k + 1].by <= activation /\ inbox[k + 1].call # m.call
      BY <1>2, <1>5, <3>1 DEF InTransit
    <3> QED
      BY <1>5, <3>1, <3>2 DEF MessageType, Types
  <2>5. Awaited(m)
    BY <1>2, <1>5 DEF InTransit
  <2> QED
    BY <1>2, <1>5, <2>2, <2>3, <2>4, <2>5
<1> QED
  BY <1>4, <1>5

-----------------------------------------------------------------------------
(***************************************************************************)
(* The host.                                                               *)
(***************************************************************************)

\* What is answered without a write: a read has the last record, a write failed or met
\* another revision, a migration failed.
Replies(m, a) ==
  \/ a.kind = "failed" /\ a.revision = 0
  \/ m.kind = "read" /\ a.kind = "record" /\ a.revision = Stored
  \/ m.kind = "write" /\ a.kind = "conflict" /\ a.revision = 0 /\ m.expected # Stored

\* While a webview loads nothing else of its own is on its way.
LEMMA LoadIsAlone ==
  ASSUME WorkspaceInv, inbox # << >>, NEW a \in AnswerType, Answers(Head(inbox), a),
         inbox[1].by = activation, inbox[1].call = "load"
  PROVE  inbox' = << >> /\ authority = "loading"
<1> USE DEF WorkspaceInv
<1>1. /\ inbox' \in Seq(MessageType) /\ Awaited(inbox[1])
      /\ \A k \in DOMAIN inbox' : /\ k + 1 \in DOMAIN inbox /\ inbox'[k] = inbox[k + 1]
                                  /\ inbox'[k] \in MessageType /\ inbox'[k].by = activation /\ inbox'[k].call # "load"
  BY Served
<1>2. step["load"] = "sent" /\ authority = "loading"
  BY <1>1 DEF Awaited, StepsMatch, Types
<1>3. \A k \in DOMAIN inbox' : FALSE
  <2> SUFFICES ASSUME NEW k \in DOMAIN inbox' PROVE FALSE
    OBVIOUS
  <2>1. inbox'[k] \in MessageType /\ inbox'[k].call \in Commits
    BY <1>1, Calls DEF MessageType
  <2>2. Awaited(inbox'[k])
    BY <1>1 DEF InTransit
  <2> QED
    BY <1>2, <2>1, <2>2 DEF Awaited, StepsMatch
<1> QED
  BY <1>1, <1>2, <1>3

\* An answer that writes nothing keeps the invariant.
LEMMA ReplyKeeps ==
  ASSUME WorkspaceInv, inbox # << >>, NEW a \in AnswerType, Answers(Head(inbox), a),
         Replies(Head(inbox), a), published' = published, faults' \in Nat
  PROVE  WorkspaceInv'
<1> USE DEF WorkspaceInv
<1> DEFINE m == inbox[1]
<1>1. /\ Head(inbox) = m /\ m \in MessageType /\ 1 \in DOMAIN inbox /\ inbox' \in Seq(MessageType)
      /\ \A k \in DOMAIN inbox' : /\ k \in Nat /\ k >= 1 /\ k + 1 \in DOMAIN inbox
                                  /\ inbox'[k] = inbox[k + 1] /\ inbox'[k] \in MessageType
      /\ step' \in [Call -> Steps] /\ answer' \in [Call -> AnswerType]
      /\ \A c \in Call : c # m.call => step'[c] = step[c] /\ answer'[c] = answer[c]
      /\ m.by # activation => step' = step /\ answer' = answer
  BY Served
<1>2. m.by = activation =>
        /\ Awaited(m) /\ answer'[m.call] = a
        /\ step'[m.call] = IF step[m.call] = "asking" THEN "told" ELSE "answered"
        /\ \A k \in DOMAIN inbox' : inbox'[k].by = activation /\ inbox'[k].call # m.call
  BY Served
<1>3. UNCHANGED << activation, authorityVars, queueVars, read, outcome, reloads >>
  BY DEF Answers
<1>4. m.call \in Call /\ (m.call # "load" => m.call \in Commits)
  BY <1>1, Calls DEF MessageType
<1>5. Types'
  BY <1>1, <1>3 DEF Types, authorityVars, queueVars
<1>6. Stored' = Stored /\ Stored \in Nat
  BY DEF Stored, Types
<1>7. \A r : Held(r)' = Held(r)
  BY DEF Held
<1>8. m.by = activation => (m.call # "load" => authority = "available")
  BY <1>2, <1>4 DEF Awaited, StepsMatch, Types
<1>9. InTransit'
  <2>1. \A k \in DOMAIN inbox' : inbox'[k].by = activation => step'[inbox'[k].call] = step[inbox'[k].call]
    BY <1>1, <1>2 DEF MessageType
  <2>2. (\A k \in DOMAIN inbox : inbox[k].by = activation => Awaited(inbox[k]))'
    BY <1>1, <1>3, <2>1 DEF InTransit, Awaited
  <2>3. (\A j, k \in DOMAIN inbox : j < k =>
           /\ inbox[j].by <= inbox[k].by
           /\ inbox[j].by = activation => inbox[j].call # inbox[k].call)'
    BY SMTT(40), <1>1, <1>3 DEF InTransit
  <2> QED
    BY <1>1, <1>3, <2>2, <2>3 DEF InTransit
<1>10. StepsMatch'
  <2>1. CASE m.by # activation
    <3>1. authority = "available" => \A k \in DOMAIN inbox' : inbox'[k].by = activation
      BY <1>1 DEF StepsMatch
    <3>2. step["load"] # "answered"
      BY DEF StepsMatch
    <3> QED
      BY <1>1, <1>3, <1>6, <2>1, <3>1, <3>2 DEF StepsMatch, authorityVars
  <2>2. CASE m.by = activation /\ m.call = "load"
    <3>1. inbox' = << >> /\ authority = "loading"
      BY <2>2, LoadIsAlone
    <3>2. step["load"] = "sent" /\ step'["load"] = "answered" /\ answer'["load"] = a
      BY <1>2, <2>2 DEF Awaited
    <3>3. a.kind \in { "record", "failed" } /\ a.revision = IF a.kind = "failed" THEN 0 ELSE Stored
      BY <1>1, <1>2, <2>2, <3>2 DEF Replies, Awaited
    <3>4. \A c \in Commits : step'[c] = step[c]
      BY <1>1, <2>2, Calls
    <3>5. step'["catalog"] = step["catalog"] /\ \A e \in Edit : step'[e] = step[e]
      BY <3>4, Calls
    <3> QED
      BY <1>3, <1>6, <3>1, <3>2, <3>3, <3>4, <3>5 DEF StepsMatch, authorityVars
  <2>3. CASE m.by = activation /\ m.call # "load"
    <3>1. authority = "available" /\ m.call \in Commits /\ step[m.call] \in { "sent", "asking" }
      BY <1>2, <1>4, <2>3 DEF Awaited, StepsMatch
    <3>2. step'["load"] = step["load"] /\ step["load"] = "done"
      BY <1>1, <2>3, <3>1, Calls DEF StepsMatch
    <3>3. step'["catalog"] # "done"
      BY <1>1, <1>2, <2>3, Calls DEF StepsMatch
    <3>4. \A e \in Edit : step'[e] # "done" <=> step[e] # "done"
      BY <1>1, <1>2, <2>3, <3>1, Calls
    <3>5. \A k \in DOMAIN inbox' : inbox'[k].by = activation
      BY <1>2, <2>3
    <3> QED
      BY <1>3, <3>1, <3>2, <3>3, <3>4, <3>5 DEF StepsMatch, authorityVars
  <2> QED
    BY <2>1, <2>2, <2>3
<1>11. AnswersTrue'
  <2> SUFFICES ASSUME NEW c \in Commits
               PROVE  (/\ step[c] = "answered" => answer[c].kind # "none"
                       /\ step[c] = "told" => answer[c].kind \in { "record", "failed" }
                       /\ step[c] \in { "answered", "told" } => answer[c].revision <= Stored
                       /\ step[c] = "answered" /\ answer[c].kind = "record" =>
                            /\ answer[c].revision > 0
                            /\ c \in Edit => c \in published[answer[c].revision].document.edits)'
    BY DEF AnswersTrue
  <2>1. CASE step'[c] = step[c] /\ answer'[c] = answer[c]
    BY <1>6, <2>1 DEF AnswersTrue
  <2>2. CASE ~ (step'[c] = step[c] /\ answer'[c] = answer[c])
    <3>1. m.by = activation /\ c = m.call /\ c # "load"
      BY <1>1, <2>2, Calls
    <3>2. step[c] = "asking" => m.kind = "read" /\ step'[c] = "told" /\ answer'[c] = a
      BY <1>2, <3>1 DEF Awaited
    <3>3. step[c] # "asking" => m.kind = "write" /\ step'[c] = "answered" /\ answer'[c] = a
      BY <1>2, <3>1 DEF Awaited
    <3>4. Replies(m, a)
      BY <1>1
    <3> QED
      BY <1>6, <3>1, <3>2, <3>3, <3>4 DEF Replies
  <2> QED
    BY <2>1, <2>2
<1>12. MigratedFirst'
  BY <1>1, <1>3, <1>6 DEF MigratedFirst, Current, authorityVars
<1>13. EditsCarried'
  <2>1. \A k \in DOMAIN inbox' : inbox'[k].kind = "write" =>
          /\ inbox'[k].expected <= Stored
          /\ inbox'[k].document.edits =
               Held(inbox'[k].expected).document.edits \cup ({ inbox'[k].call } \cap Edit)
    BY <1>1 DEF EditsCarried
  <2>2. \A e \in Edit : Unsaved(e)' => Unsaved(e)
    <3> SUFFICES ASSUME NEW e \in Edit, Unsaved(e)' PROVE Unsaved(e)
      OBVIOUS
    <3>1. CASE m.by = activation /\ e = m.call
      BY <1>2, <3>1, Calls DEF Awaited, Unsaved
    <3>2. CASE ~ (m.by = activation /\ e = m.call)
      BY <1>1, <1>3, <3>2, Calls DEF Unsaved
    <3> QED
      BY <3>1, <3>2
  <2> QED
    BY <1>3, <1>6, <1>7, <2>1, <2>2 DEF EditsCarried
<1>14. CatalogsRise'
  <2>1. step'["catalog"] # "idle" => step["catalog"] # "idle"
    BY <1>1, <1>2, Calls DEF Awaited
  <2> QED
    BY <1>3, <2>1 DEF CatalogsRise, authorityVars, queueVars
<1>15. \A r : Heeded(r) => Heeded(r)'
  <2>1. step["catalog"] = "answered" => step'["catalog"] = step["catalog"] /\ answer'["catalog"] = answer["catalog"]
    BY <1>1, <1>2, Calls DEF Awaited
  <2> QED
    BY <1>3, <1>7, <2>1 DEF Heeded, authorityVars, queueVars
<1>16. CatalogsHeeded'
  <2>1. \A c \in Commits : step'[c] \in { "answered", "told" } /\ answer'[c].kind = "record" =>
          Heeded(answer'[c].revision)
    <3> SUFFICES ASSUME NEW c \in Commits, step'[c] \in { "answered", "told" }, answer'[c].kind = "record"
                 PROVE  Heeded(answer'[c].revision)
      OBVIOUS
    <3>1. CASE m.by = activation /\ c = m.call
      <4>1. m.kind = "read" /\ answer'[c] = a /\ a.revision = Stored /\ step[c] = "asking"
        BY <1>1, <1>2, <3>1, Calls DEF Replies, Awaited
      <4>2. Heeded(Stored)
        BY <1>8, <3>1, <4>1, Calls DEF CatalogsHeeded, Untouched
      <4> QED
        BY <4>1, <4>2
    <3>2. CASE ~ (m.by = activation /\ c = m.call)
      BY <1>1, <3>2, Calls DEF CatalogsHeeded
    <3> QED
      BY <3>1, <3>2
  <2>2. step'["catalog"] = "answered" /\ answer'["catalog"].kind = "record" =>
          step["catalog"] = "answered" /\ answer'["catalog"] = answer["catalog"]
    BY <1>1, <1>2, Calls DEF Replies, Awaited
  <2>3. Untouched /\ authority = "available" => Untouched'
    <3> SUFFICES ASSUME Untouched, authority = "available"
                 PROVE  Untouched'
      OBVIOUS
    <3>1. \A k \in DOMAIN inbox' : inbox'[k].kind = "write" => inbox'[k].expected = Stored
      BY <1>1 DEF Untouched
    <3>2. \A c \in Commits : step'[c] \notin { "asking", "told" }
                           /\ (step'[c] = "answered" => answer'[c].kind = "failed")
      BY <1>1, <1>2, Calls DEF Untouched, Replies, Awaited
    <3> QED
      BY <1>3, <1>6, <3>1, <3>2 DEF Untouched, authorityVars
  <2>4. (\A k \in DOMAIN inbox : inbox[k].kind = "write" /\ inbox[k].by = activation =>
           IF inbox[k].call = "catalog" THEN inbox[k].document.catalog = Head(submitted)
           ELSE inbox[k].document.catalog <= installed)'
    BY <1>1, <1>3 DEF CatalogsHeeded, authorityVars, queueVars
  <2>5. (authority = "available" =>
           IF cataloged THEN Heeded(state.revision) /\ Heeded(Stored) ELSE Heeded(Stored) \/ Untouched)'
    BY <1>3, <1>6, <1>15, <2>3 DEF CatalogsHeeded, authorityVars
  <2>6. (step["catalog"] = "answered" /\ answer["catalog"].kind = "record" =>
           Held(answer["catalog"].revision).document.catalog = Head(submitted))'
    BY <1>3, <1>7, <2>2 DEF CatalogsHeeded, queueVars
  <2>7. (\A c \in Commits : step[c] \in { "answered", "told" } /\ answer[c].kind = "record" =>
           Heeded(answer[c].revision))'
    BY <1>15, <2>1
  <2> QED
    BY <2>4, <2>5, <2>6, <2>7 DEF CatalogsHeeded
<1>17. CatalogsAsTold'
  BY <1>3 DEF CatalogsAsTold, authorityVars, queueVars
<1>18. HeldStands'
  BY <1>3, <1>6, <1>7 DEF HeldStands, HeldIsPublished, authorityVars
<1> QED
  BY <1>5, <1>9, <1>10, <1>11, <1>12, <1>13, <1>14, <1>16, <1>17, <1>18

\* A record that is published keeps the invariant: a write whose revision is the last
\* one, or a migration.
LEMMA PublishKeeps ==
  ASSUME WorkspaceInv, inbox # << >>, inbox[1].kind \in { "write", "migrate" },
         inbox[1].kind = "write" => inbox[1].expected = Stored,
         published' = Append(published, [document |-> Head(inbox).document, current |-> TRUE]),
         Answers(Head(inbox), [kind |-> "record", revision |-> Stored + 1]), faults' = faults
  PROVE  WorkspaceInv'
<1> USE DEF WorkspaceInv
<1> DEFINE m == inbox[1]
           a == [kind |-> "record", revision |-> Stored + 1]
           record == [document |-> m.document, current |-> TRUE]
<1>1. Stored \in Nat /\ a \in AnswerType
  BY DEF Types, Stored, AnswerType
<1>2. /\ Head(inbox) = m /\ m \in MessageType /\ 1 \in DOMAIN inbox /\ inbox' \in Seq(MessageType)
      /\ \A k \in DOMAIN inbox' : /\ k \in Nat /\ k >= 1 /\ k + 1 \in DOMAIN inbox
                                  /\ inbox'[k] = inbox[k + 1] /\ inbox'[k] \in MessageType
      /\ step' \in [Call -> Steps] /\ answer' \in [Call -> AnswerType]
      /\ \A c \in Call : c # m.call => step'[c] = step[c] /\ answer'[c] = answer[c]
      /\ m.by # activation => step' = step /\ answer' = answer
      /\ m.by = activation =>
           /\ Awaited(m) /\ answer'[m.call] = a
           /\ step'[m.call] = IF step[m.call] = "asking" THEN "told" ELSE "answered"
           /\ \A k \in DOMAIN inbox' : inbox'[k].by = activation /\ inbox'[k].call # m.call
  <2> HIDE DEF a
  <2> QED
    BY <1>1, Served DEF a
<1>3. UNCHANGED << activation, authorityVars, queueVars, read, outcome, reloads >>
  BY DEF Answers
<1>4. m.call \in Call /\ (m.call # "load" => m.call \in Commits) /\ m.document \in Document
  BY <1>2, Calls DEF MessageType
<1>5. /\ published' \in Seq(Record) /\ Stored' = Stored + 1 /\ DOMAIN published = 1..Stored
      /\ DOMAIN published' = DOMAIN published \cup { Stored + 1 }
      /\ \A r \in DOMAIN published : published'[r] = published[r]
      /\ published'[Stored + 1] = record
  BY <1>2, <1>4, AppendFacts DEF Types, Stored, Record
<1>6. \A r \in 0..Stored : Held(r)' = Held(r)
  BY <1>5 DEF Held
<1>7. Held(Stored)'.document = m.document
  BY <1>1, <1>5 DEF Held
<1>8. Types'
  BY <1>2, <1>3, <1>5 DEF Types, authorityVars, queueVars
<1>9. m.by = activation => step'[m.call] = "answered" /\ step[m.call] = "sent"
  BY <1>2 DEF Awaited
<1>10. m.by = activation /\ m.call # "load" => authority = "available"
  BY <1>4, <1>9 DEF StepsMatch
<1>11. authority = "available" => m.by = activation
  BY <1>2 DEF StepsMatch
<1>12. step["load"] # "answered"
  BY DEF StepsMatch
<1>13. InTransit'
  <2>1. \A k \in DOMAIN inbox' : inbox'[k].by = activation => step'[inbox'[k].call] = step[inbox'[k].call]
    BY <1>2 DEF MessageType
  <2>2. (\A k \in DOMAIN inbox : inbox[k].by = activation => Awaited(inbox[k]))'
    BY <1>2, <1>3, <2>1 DEF InTransit, Awaited
  <2>3. (\A j, k \in DOMAIN inbox : j < k =>
           /\ inbox[j].by <= inbox[k].by
           /\ inbox[j].by = activation => inbox[j].call # inbox[k].call)'
    <3>1. \A k \in DOMAIN inbox' : k \in Nat /\ k + 1 \in DOMAIN inbox /\ inbox'[k] = inbox[k + 1]
      BY <1>2
    <3>2. activation' = activation
      BY <1>3
    <3> QED
      BY <3>1, <3>2 DEF InTransit
  <2> QED
    BY <1>2, <1>3, <2>2, <2>3 DEF InTransit
<1>14. StepsMatch'
  <2>1. CASE m.by # activation
    <3>1. authority # "available"
      BY <1>11, <2>1
    <3> QED
      BY <1>2, <1>3, <1>12, <2>1, <3>1 DEF StepsMatch, authorityVars
  <2>2. CASE m.by = activation /\ m.call = "load"
    <3>1. inbox' = << >> /\ authority = "loading"
      <4> HIDE DEF a
      <4> QED
        BY <1>1, <2>2, LoadIsAlone DEF a
    <3>2. \A c \in Commits : step'[c] = step[c]
      BY <1>2, <2>2, Calls
    <3>3. step'["catalog"] = step["catalog"] /\ \A e \in Edit : step'[e] = step[e]
      BY <3>2, Calls
    <3> QED
      BY SMTT(40), <1>2, <1>3, <1>5, <1>9, <2>2, <3>1, <3>2, <3>3 DEF StepsMatch, authorityVars
  <2>3. CASE m.by = activation /\ m.call # "load"
    <3>1. step'["load"] = step["load"] /\ step["load"] = "done" /\ m.call \in Commits
      BY <1>2, <1>4, <1>10, <2>3, Calls DEF StepsMatch
    <3>2. step'["catalog"] # "done"
      BY <1>2, <1>9, <2>3, Calls DEF StepsMatch
    <3>3. \A e \in Edit : step'[e] # "done" <=> step[e] # "done"
      BY <1>2, <1>9, <2>3, Calls
    <3>4. \A k \in DOMAIN inbox' : inbox'[k].by = activation
      BY <1>2, <2>3
    <3> QED
      BY <1>3, <1>10, <2>3, <3>1, <3>2, <3>3, <3>4 DEF StepsMatch, authorityVars
  <2> QED
    BY <2>1, <2>2, <2>3
<1>15. \A r \in DOMAIN published : published[r].document.edits \subseteq m.document.edits
  <2>1. CASE m.kind = "write"
    <3>1. m.document.edits = Held(Stored).document.edits \cup ({ m.call } \cap Edit)
      BY <1>2, <2>1 DEF EditsCarried
    <3>2. \A r \in DOMAIN published : published[r].document.edits \subseteq Held(Stored).document.edits
      BY <1>1, <1>5 DEF EditsCarried, Held
    <3> QED
      BY <3>1, <3>2
  <2>2. CASE m.kind = "migrate"
    <3>1. m.document = published[1].document /\ Stored = 1
      BY <1>2, <2>2 DEF MigratedFirst
    <3> QED
      BY <1>5, <3>1
  <2> QED
    BY <2>1, <2>2
<1>16. \A e \in Edit : e \in m.document.edits =>
         (\E r \in DOMAIN published : e \in published[r].document.edits) \/ e = m.call
  <2> SUFFICES ASSUME NEW e \in Edit, e \in m.document.edits, e # m.call
               PROVE  \E r \in DOMAIN published : e \in published[r].document.edits
    OBVIOUS
  <2>1. CASE m.kind = "write"
    <3>1. e \in Held(Stored).document.edits
      BY <1>2, <2>1 DEF EditsCarried
    <3>2. Stored # 0
      BY <3>1 DEF Held, NoDocument
    <3> QED
      BY <1>1, <1>5, <3>1, <3>2 DEF Held
  <2>2. CASE m.kind = "migrate"
    BY <1>2, <1>5, <2>2 DEF MigratedFirst
  <2> QED
    BY <2>1, <2>2
<1>17. AnswersTrue'
  <2> SUFFICES ASSUME NEW c \in Commits
               PROVE  (/\ step[c] = "answered" => answer[c].kind # "none"
                       /\ step[c] = "told" => answer[c].kind \in { "record", "failed" }
                       /\ step[c] \in { "answered", "told" } => answer[c].revision <= Stored
                       /\ step[c] = "answered" /\ answer[c].kind = "record" =>
                            /\ answer[c].revision > 0
                            /\ c \in Edit => c \in published[answer[c].revision].document.edits)'
    BY DEF AnswersTrue
  <2>1. CASE step'[c] = step[c] /\ answer'[c] = answer[c]
    <3>1. c \in Call /\ answer[c].revision \in Nat
      BY Calls DEF Types, AnswerType
    <3>2. answer[c].revision > 0 /\ answer[c].revision <= Stored =>
            published'[answer[c].revision] = published[answer[c].revision]
      BY <1>1, <1>5, <3>1
    <3> QED
      BY <1>1, <1>5, <2>1, <3>1, <3>2 DEF AnswersTrue
  <2>2. CASE ~ (step'[c] = step[c] /\ answer'[c] = answer[c])
    <3>1. m.by = activation /\ c = m.call /\ c # "load"
      BY <1>2, <2>2, Calls
    <3>2. step'[c] = "answered" /\ answer'[c] = a /\ m.kind = "write"
      BY <1>2, <1>9, <3>1 DEF Awaited
    <3>3. c \in Edit => c \in m.document.edits
      BY <1>2, <3>1, <3>2 DEF EditsCarried
    <3> QED
      BY <1>1, <1>5, <3>2, <3>3
  <2> QED
    BY <2>1, <2>2
<1>18. MigratedFirst'
  <2>1. Current'
    BY <1>5 DEF Current
  <2>2. \A k \in DOMAIN inbox' : inbox'[k].kind # "migrate"
    <3> SUFFICES ASSUME NEW k \in DOMAIN inbox', inbox'[k].kind = "migrate" PROVE FALSE
      OBVIOUS
    <3>1. k + 1 \in DOMAIN inbox /\ inbox[k + 1].kind = "migrate" /\ k + 1 # 1
      BY <1>2
    <3>2. ~ Current /\ m.kind # "migrate"
      BY <1>2, <3>1 DEF MigratedFirst
    <3> QED
      BY <1>2, <3>2 DEF MigratedFirst
  <2> QED
    BY <2>1, <2>2 DEF MigratedFirst
<1>19. EditsCarried'
  <2>1. (\A r, s \in DOMAIN published : r <= s =>
           published[r].document.edits \subseteq published[s].document.edits)'
    <3> SUFFICES ASSUME NEW r \in DOMAIN published', NEW s \in DOMAIN published', r <= s
                 PROVE  published'[r].document.edits \subseteq published'[s].document.edits
      OBVIOUS
    <3>1. CASE s \in DOMAIN published
      BY <1>1, <1>5, <3>1 DEF EditsCarried
    <3>2. CASE s = Stored + 1 /\ r \in DOMAIN published
      BY <1>5, <1>15, <3>2
    <3>3. CASE s = Stored + 1 /\ r = Stored + 1
      BY <3>3
    <3> QED
      BY <1>1, <1>5, <3>1, <3>2, <3>3
  <2>2. (\A k \in DOMAIN inbox : inbox[k].kind = "write" =>
           /\ inbox[k].expected <= Stored
           /\ inbox[k].document.edits =
                Held(inbox[k].expected).document.edits \cup ({ inbox[k].call } \cap Edit))'
    <3> SUFFICES ASSUME NEW k \in DOMAIN inbox', inbox'[k].kind = "write"
                 PROVE  (/\ inbox[k].expected <= Stored
                         /\ inbox[k].document.edits =
                              Held(inbox[k].expected).document.edits \cup ({ inbox[k].call } \cap Edit))'
      OBVIOUS
    <3>1. /\ inbox'[k].expected \in 0..Stored
          /\ inbox'[k].document.edits =
               Held(inbox'[k].expected).document.edits \cup ({ inbox'[k].call } \cap Edit)
      BY <1>1, <1>2 DEF EditsCarried, MessageType
    <3>2. Held(inbox[k].expected)' = Held(inbox'[k].expected)
      BY <1>1, <1>5, <3>1 DEF Held
    <3> QED
      BY <1>1, <1>5, <3>1, <3>2
  <2>3. \A e \in Edit : Unsaved(e)' => Unsaved(e) /\ e \notin m.document.edits
    <3> SUFFICES ASSUME NEW e \in Edit, Unsaved(e)' PROVE Unsaved(e) /\ e \notin m.document.edits
      OBVIOUS
    <3>1. ~ (m.by = activation /\ e = m.call)
      <4> SUFFICES ASSUME m.by = activation, e = m.call PROVE FALSE
        OBVIOUS
      <4>1. step'[e] = "answered" /\ answer'[e].kind = "record" /\ step[e] = "sent"
        BY <1>2, <1>9
      <4>2. outcome[e] = "none"
        BY <4>1 DEF StepsMatch
      <4> QED
        BY <1>3, <4>1, <4>2 DEF Unsaved
    <3>2. Unsaved(e)
      BY <1>2, <1>3, <3>1, Calls DEF Unsaved
    <3>3. e # m.call
      <4> SUFFICES ASSUME e = m.call PROVE FALSE
        OBVIOUS
      <4>1. m.by < activation
        BY <1>2, <3>1 DEF InTransit, MessageType, Types
      <4>2. outcome[e] = "lost" /\ step[e] = "done"
        BY <1>2, <4>1, Calls DEF InTransit, StepsMatch
      <4> QED
        BY <3>2, <4>2 DEF Unsaved
    <3>4. \A r \in DOMAIN published : e \notin published[r].document.edits
      BY <3>2 DEF EditsCarried
    <3> QED
      BY <1>16, <3>2, <3>3, <3>4
  <2>4. (\A e \in Edit : Unsaved(e) => \A r \in DOMAIN published : e \notin published[r].document.edits)'
    BY <1>5, <2>3 DEF EditsCarried
  <2>5. (\A e \in Edit : outcome[e] = "applied" => Stored > 0 /\ e \in published[Stored].document.edits)'
    BY <1>1, <1>3, <1>5, <1>15 DEF EditsCarried
  <2> QED
    BY <2>1, <2>2, <2>4, <2>5 DEF EditsCarried
<1>20. CatalogsRise'
  <2>1. step'["catalog"] # "idle" => step["catalog"] # "idle"
    BY <1>2, <1>9, Calls
  <2> QED
    BY <1>3, <2>1 DEF CatalogsRise, authorityVars, queueVars
<1>21. \A r \in 0..Stored : Heeded(r) => Heeded(r)'
  <2>1. step["catalog"] = "answered" => step'["catalog"] = step["catalog"] /\ answer'["catalog"] = answer["catalog"]
    BY <1>2, <1>9, Calls
  <2> QED
    BY <1>3, <1>6, <2>1 DEF Heeded, authorityVars, queueVars
<1>22. CatalogsHeeded'
  <2>1. m.by = activation /\ m.call # "load" =>
          IF m.call = "catalog" THEN m.document.catalog = Head(submitted)
          ELSE m.document.catalog <= installed
    BY <1>2 DEF CatalogsHeeded, Awaited
  <2>2. m.by = activation /\ m.call # "load" => Heeded(Stored)'
    BY <1>2, <1>3, <1>7, <1>9, <2>1 DEF Heeded, authorityVars, queueVars
  <2>3. \A c \in Commits : step'[c] \in { "answered", "told" } =>
          \/ c = m.call /\ m.by = activation /\ answer'[c] = a
          \/ /\ answer'[c] = answer[c] /\ step'[c] = step[c] /\ answer[c].revision \in 0..Stored
    <3> SUFFICES ASSUME NEW c \in Commits, step'[c] \in { "answered", "told" }
                 PROVE  \/ c = m.call /\ m.by = activation /\ answer'[c] = a
                        \/ /\ answer'[c] = answer[c] /\ step'[c] = step[c]
                           /\ answer[c].revision \in 0..Stored
      OBVIOUS
    <3>1. c = m.call /\ m.by = activation => answer'[c] = a
      BY <1>2, Calls
    <3>2. c # m.call \/ m.by # activation => answer'[c] = answer[c] /\ step'[c] = step[c]
      BY <1>2, Calls
    <3>3. step[c] \in { "answered", "told" } => answer[c].revision <= Stored
      BY DEF AnswersTrue
    <3>4. answer[c].revision \in Nat /\ Stored \in Nat
      BY <1>1, Calls DEF Types, AnswerType
    <3> QED
      BY <3>1, <3>2, <3>3, <3>4
  <2>4. (\A c \in Commits : step[c] \in { "answered", "told" } /\ answer[c].kind = "record" =>
           Heeded(answer[c].revision))'
    <3> SUFFICES ASSUME NEW c \in Commits, step'[c] \in { "answered", "told" }, answer'[c].kind = "record"
                 PROVE  Heeded(answer[c].revision)'
      OBVIOUS
    <3>1. CASE c = m.call /\ m.by = activation /\ answer'[c] = a
      <4>1. Heeded(Stored)'
        BY <2>2, <3>1, Calls
      <4>2. answer'[c].revision = Stored' /\ Stored' = Stored + 1
        BY <1>5, <3>1
      <4> QED
        BY <4>1, <4>2, <1>7 DEF Heeded, Held
    <3>2. CASE answer'[c] = answer[c] /\ step'[c] = step[c] /\ answer[c].revision \in 0..Stored
      <4>1. Heeded(answer[c].revision)
        BY <3>2 DEF CatalogsHeeded
      <4> QED
        BY <3>2, <4>1, <1>21 DEF Heeded, Held
    <3> QED
      BY <2>3, <3>1, <3>2
  <2>5. (step["catalog"] = "answered" /\ answer["catalog"].kind = "record" =>
           Held(answer["catalog"].revision).document.catalog = Head(submitted))'
    <3> SUFFICES ASSUME step'["catalog"] = "answered", answer'["catalog"].kind = "record"
                 PROVE  Held(answer["catalog"].revision)'.document.catalog = Head(submitted)'
      OBVIOUS
    <3>1. CASE "catalog" = m.call /\ m.by = activation /\ answer'["catalog"] = a
      <4>1. answer'["catalog"].revision = Stored' /\ m.document.catalog = Head(submitted)
        BY <1>5, <2>1, <3>1, Calls
      <4>2. Held(answer["catalog"].revision)'.document = m.document
        BY <1>7, <4>1 DEF Held
      <4> QED
        BY <1>3, <4>1, <4>2 DEF queueVars
    <3>2. CASE answer'["catalog"] = answer["catalog"] /\ step'["catalog"] = step["catalog"]
               /\ answer["catalog"].revision \in 0..Stored
      BY <1>3, <1>6, <3>2 DEF CatalogsHeeded, Held, queueVars
    <3> QED
      BY <2>3, <3>1, <3>2, Calls
  <2>6. (\A k \in DOMAIN inbox : inbox[k].kind = "write" /\ inbox[k].by = activation =>
           IF inbox[k].call = "catalog" THEN inbox[k].document.catalog = Head(submitted)
           ELSE inbox[k].document.catalog <= installed)'
    BY <1>2, <1>3 DEF CatalogsHeeded, authorityVars, queueVars
  <2>7. (authority = "available" =>
           IF cataloged THEN Heeded(state.revision) /\ Heeded(Stored) ELSE Heeded(Stored) \/ Untouched)'
    <3> SUFFICES ASSUME authority = "available"
                 PROVE  Heeded(Stored)' /\ (cataloged => Heeded(state.revision)')
      BY <1>3 DEF authorityVars
    <3>1. m.by = activation /\ m.call # "load"
      BY <1>9, <1>11 DEF StepsMatch
    <3>2. Heeded(Stored)'
      BY <1>5, <2>2, <3>1 DEF Heeded, Held
    <3>3. cataloged => Heeded(state.revision) /\ state.revision \in 0..Stored
      BY <1>1 DEF CatalogsHeeded, HeldStands, Types
    <3>4. cataloged => Heeded(state.revision)'
      BY <1>3, <1>21, <3>3 DEF Heeded, Held, authorityVars
    <3> QED
      BY <3>2, <3>4
  <2> QED
    BY <2>4, <2>5, <2>6, <2>7 DEF CatalogsHeeded
<1>23. CatalogsAsTold'
  BY <1>3 DEF CatalogsAsTold, authorityVars, queueVars
<1>24. HeldStands'
  <2>1. state.revision \in 0..Stored
    BY <1>1 DEF HeldStands, Types
  <2> QED
    BY <1>1, <1>3, <1>5, <1>6, <2>1 DEF HeldStands, HeldIsPublished, authorityVars
<1> QED
  BY <1>8, <1>13, <1>14, <1>17, <1>18, <1>19, <1>20, <1>22, <1>23, <1>24

\* Every service of the host is one or the other.
LEMMA HostKeeps ==
  ASSUME WorkspaceInv, HostServes
  PROVE  WorkspaceInv'
<1> USE DEF WorkspaceInv
<1>1. Stored \in Nat /\ faults \in Nat
  BY DEF Types, Stored
<1>2. inbox # << >> => Head(inbox) = inbox[1]
  BY DEF Types
<1>3. CASE ServeRead
  <2> DEFINE a == [kind |-> "record", revision |-> Stored]
  <2>1. a \in AnswerType /\ Replies(Head(inbox), a)
    BY <1>1, <1>3 DEF AnswerType, Replies, ServeRead
  <2>2. inbox # << >> /\ Answers(Head(inbox), a) /\ published' = published /\ faults' \in Nat
    BY <1>1, <1>3 DEF ServeRead
  <2> HIDE DEF a
  <2> QED
    BY <2>1, <2>2, ReplyKeeps
<1>4. CASE ServeWrite \/ ServeMigrate
  <2>1. CASE ServeWrite /\ Head(inbox).expected # Stored
    <3> DEFINE a == [kind |-> "conflict", revision |-> 0]
    <3>1. a \in AnswerType /\ Replies(Head(inbox), a)
      BY <2>1 DEF AnswerType, Replies, ServeWrite
    <3>2. inbox # << >> /\ Answers(Head(inbox), a) /\ published' = published /\ faults' \in Nat
      BY <1>1, <2>1 DEF ServeWrite
    <3> HIDE DEF a
    <3> QED
      BY <3>1, <3>2, ReplyKeeps
  <2>2. CASE ServeWrite /\ Head(inbox).expected = Stored
    BY <1>2, <2>2, PublishKeeps DEF ServeWrite
  <2>3. CASE ServeMigrate
    BY <1>2, <2>3, PublishKeeps DEF ServeMigrate
  <2> QED
    BY <1>4, <2>1, <2>2, <2>3
<1>5. CASE ServeFails
  <2> DEFINE a == [kind |-> "failed", revision |-> 0]
  <2>1. a \in AnswerType /\ Replies(Head(inbox), a)
    BY DEF AnswerType, Replies
  <2>2. inbox # << >> /\ Answers(Head(inbox), a) /\ published' = published /\ faults' \in Nat
    BY <1>1, <1>5 DEF ServeFails
  <2> HIDE DEF a
  <2> QED
    BY <2>1, <2>2, ReplyKeeps
<1> QED
  BY <1>3, <1>4, <1>5 DEF HostServes

-----------------------------------------------------------------------------
(***************************************************************************)
(* The opening of a workspace.                                             *)
(***************************************************************************)

\* A message that a call begins to wait for.
LEMMA Posted ==
  ASSUME Types, InTransit, NEW x \in MessageType, inbox' = Append(inbox, x),
         x.by = activation, activation' = activation, outcome' = outcome,
         step[x.call] \notin { "sent", "asking" }, Awaited(x)',
         \A c \in Call \ { x.call } : step'[c] = step[c],
         x.kind = "migrate" => x.call = "load", x.kind = "write" => x.call \in Commits
  PROVE  /\ InTransit' /\ inbox' \in Seq(MessageType) /\ Len(inbox) \in Nat
         /\ DOMAIN inbox' = DOMAIN inbox \cup { Len(inbox) + 1 } /\ DOMAIN inbox = 1..Len(inbox)
         /\ \A k \in DOMAIN inbox : inbox'[k] = inbox[k] /\ inbox[k] \in MessageType
         /\ inbox'[Len(inbox) + 1] = x
<1>1. /\ inbox' \in Seq(MessageType) /\ Len(inbox) \in Nat
      /\ DOMAIN inbox' = DOMAIN inbox \cup { Len(inbox) + 1 } /\ DOMAIN inbox = 1..Len(inbox)
      /\ \A k \in DOMAIN inbox : inbox'[k] = inbox[k] /\ inbox[k] \in MessageType
      /\ inbox'[Len(inbox) + 1] = x
  BY AppendFacts DEF Types
<1>2. \A k \in DOMAIN inbox : inbox[k].by = activation => inbox[k].call # x.call
  BY DEF InTransit, Awaited
<1>3. (\A k \in DOMAIN inbox : inbox[k].by = activation => Awaited(inbox[k]))'
  <2> SUFFICES ASSUME NEW k \in DOMAIN inbox', inbox'[k].by = activation
               PROVE  Awaited(inbox[k])'
    OBVIOUS
  <2>1. CASE k \in DOMAIN inbox
    <3>1. inbox'[k] = inbox[k] /\ inbox[k].call \in Call \ { x.call } /\ Awaited(inbox[k])
      BY <1>1, <1>2, <2>1 DEF InTransit, MessageType
    <3> QED
      BY <3>1 DEF Awaited
  <2>2. CASE k = Len(inbox) + 1
    BY <1>1, <2>2 DEF Awaited
  <2> QED
    BY <1>1, <2>1, <2>2
<1>4. (\A j, k \in DOMAIN inbox : j < k =>
         /\ inbox[j].by <= inbox[k].by
         /\ inbox[j].by = activation => inbox[j].call # inbox[k].call)'
  <2> SUFFICES ASSUME NEW j \in DOMAIN inbox', NEW k \in DOMAIN inbox', j < k
               PROVE  /\ inbox'[j].by <= inbox'[k].by
                      /\ inbox'[j].by = activation => inbox'[j].call # inbox'[k].call
    OBVIOUS
  <2>1. j \in DOMAIN inbox /\ inbox'[j] = inbox[j]
    BY <1>1
  <2>2. CASE k \in DOMAIN inbox
    BY <1>1, <2>1, <2>2 DEF InTransit
  <2>3. CASE k = Len(inbox) + 1
    BY <1>1, <1>2, <2>1, <2>3 DEF InTransit
  <2> QED
    BY <1>1, <2>2, <2>3
<1>5. (\A k \in DOMAIN inbox :
         /\ inbox[k].by <= activation
         /\ inbox[k].by < activation /\ inbox[k].call \in Edit => outcome[inbox[k].call] = "lost"
         /\ inbox[k].kind = "migrate" => inbox[k].call = "load"
         /\ inbox[k].kind = "write" => inbox[k].call \in Commits)'
  <2> SUFFICES ASSUME NEW k \in DOMAIN inbox'
               PROVE  /\ inbox'[k].by <= activation
                      /\ inbox'[k].by < activation /\ inbox'[k].call \in Edit =>
                           outcome[inbox'[k].call] = "lost"
                      /\ inbox'[k].kind = "migrate" => inbox'[k].call = "load"
                      /\ inbox'[k].kind = "write" => inbox'[k].call \in Commits
    OBVIOUS
  <2>1. CASE k \in DOMAIN inbox
    BY <1>1, <2>1 DEF InTransit
  <2>2. CASE k = Len(inbox) + 1
    BY <1>1, <2>2 DEF Types
  <2> QED
    BY <1>1, <2>1, <2>2
<1> QED
  BY <1>1, <1>3, <1>4, <1>5 DEF InTransit

\* A step that posts nothing, ends no call that has a message, and tells nobody that an
\* edit is lost.
LEMMA Unposted ==
  ASSUME InTransit, Types, inbox' = inbox, activation' = activation,
         \A c \in Call : step[c] \in { "sent", "asking" } => step'[c] = step[c],
         \A e \in Edit : outcome[e] = "lost" => outcome'[e] = "lost"
  PROVE  InTransit'
<1>1. \A k \in DOMAIN inbox : inbox[k] \in MessageType /\ inbox[k].call \in Call
  <2>1. inbox \in Seq(MessageType)
    BY DEF Types
  <2>2. \A k \in DOMAIN inbox : inbox[k] \in MessageType
    BY <2>1, ElementFacts
  <2> QED
    BY <2>2 DEF MessageType
<1>2. \A k \in DOMAIN inbox : inbox[k].by = activation => Awaited(inbox[k])'
  BY <1>1 DEF InTransit, Awaited
<1> QED
  BY <1>2 DEF InTransit

\* The catalogs are as before for whoever keeps their variables.
LEMMA CatalogsStay ==
  ASSUME CatalogsRise, CatalogsAsTold, UNCHANGED << installed, cataloged >>,
         UNCHANGED << submitted, highest, ended, reported >>,
         step'["catalog"] # "idle" => step["catalog"] # "idle"
  PROVE  CatalogsRise' /\ CatalogsAsTold'
  BY DEF CatalogsRise, CatalogsAsTold

\* The plugin asks for the record.
LEMMA ActivateKeeps ==
  ASSUME WorkspaceInv, Activate
  PROVE  WorkspaceInv'
<1> USE DEF WorkspaceInv
<1>0. PICK x : x = Read("load")
  OBVIOUS
<1>1. x \in MessageType /\ x.by = activation /\ x.call = "load" /\ x.kind = "read"
  BY <1>0, Calls, WorkspaceBounds
     DEF Read, Message, MessageType, Kinds, NoDocument, Document, Types
<1>2. /\ inbox' = Append(inbox, x) /\ authority = "closed" /\ authority' = "loading"
      /\ UNCHANGED << published, activation, state, installed, cataloged, answer, read, outcome,
                      reloads, faults >>
      /\ UNCHANGED << canvas, submitted, highest, ended, reported, submits >>
      /\ step' = [step EXCEPT !["load"] = "sent"]
  BY <1>0 DEF Activate, queueVars
<1>3. /\ step' \in [Call -> Steps] /\ step'["load"] = "sent" /\ step["load"] = "idle"
      /\ \A c \in Call \ { "load" } : step'[c] = step[c]
  BY <1>2, Calls DEF Types, Steps, StepsMatch
<1>4. Awaited(x)'
  BY <1>1, <1>3 DEF Awaited
<1>5. /\ InTransit' /\ inbox' \in Seq(MessageType) /\ Len(inbox) \in Nat
      /\ DOMAIN inbox' = DOMAIN inbox \cup { Len(inbox) + 1 } /\ DOMAIN inbox = 1..Len(inbox)
      /\ \A k \in DOMAIN inbox : inbox'[k] = inbox[k] /\ inbox[k] \in MessageType
      /\ inbox'[Len(inbox) + 1] = x
  BY <1>1, <1>2, <1>3, <1>4, Posted
<1>6. Types'
  BY <1>2, <1>3, <1>5 DEF Types
<1>7. Stored' = Stored /\ \A r : Held(r)' = Held(r)
  BY <1>2 DEF Stored, Held
<1>8. \A c \in Commits : step'[c] = step[c] /\ c \in Call
  BY <1>3, Calls
<1>9. StepsMatch'
  BY <1>2, <1>3, <1>7, <1>8, Calls DEF StepsMatch
<1>10. AnswersTrue'
  BY <1>2, <1>7, <1>8 DEF AnswersTrue
<1>11. MigratedFirst'
  BY <1>1, <1>2, <1>5, <1>7 DEF MigratedFirst, Current
<1>12. EditsCarried'
  <2>1. \A e \in Edit : Unsaved(e)' <=> Unsaved(e)
    BY <1>2, <1>8, Calls DEF Unsaved
  <2>2. \A k \in DOMAIN inbox' : inbox'[k].kind = "write" =>
          k \in DOMAIN inbox /\ inbox'[k] = inbox[k]
    BY <1>1, <1>5
  <2> QED
    BY <1>2, <1>7, <2>1, <2>2 DEF EditsCarried
<1>13. CatalogsRise' /\ CatalogsAsTold'
  BY <1>2, <1>8, Calls, CatalogsStay
<1>14. CatalogsHeeded'
  <2>1. \A r : Heeded(r)' <=> Heeded(r)
    BY <1>2, <1>7, <1>8, Calls DEF Heeded
  <2>2. \A k \in DOMAIN inbox' : inbox'[k].kind = "write" =>
          k \in DOMAIN inbox /\ inbox'[k] = inbox[k]
    BY <1>1, <1>5
  <2> QED
    BY <1>2, <1>7, <1>8, <2>1, <2>2, Calls DEF CatalogsHeeded
<1>15. HeldStands'
  BY <1>2, <1>7 DEF HeldStands, HeldIsPublished
<1> QED
  BY <1>5, <1>6, <1>9, <1>10, <1>11, <1>12, <1>13, <1>14, <1>15

\* A record of an old schema is sent back to be migrated.
LEMMA MigrateKeeps ==
  ASSUME WorkspaceInv, Loaded, answer["load"].kind = "record", answer["load"].revision > 0,
         ~ published[answer["load"].revision].current
  PROVE  WorkspaceInv'
<1> USE DEF WorkspaceInv
<1>0. PICK x : x = Message("load", "migrate", answer["load"].revision,
                           published[answer["load"].revision].document)
  OBVIOUS
<1>1. /\ step["load"] = "answered" /\ inbox = << >> /\ answer["load"].revision = Stored
      /\ authority = "loading"
  BY DEF Loaded, StepsMatch, Types
<1>2. ~ Current /\ Stored = 1
  BY <1>1 DEF MigratedFirst, Current
<1>3. published[1] \in Record
  BY <1>2, ElementFacts DEF Types, Stored
<1>4. /\ x \in MessageType /\ x.by = activation /\ x.call = "load" /\ x.kind = "migrate"
      /\ x.document = published[1].document
  BY <1>0, <1>1, <1>2, <1>3, Calls DEF Message, MessageType, Kinds, Record, Types
<1>5. /\ inbox' = Append(inbox, x) /\ answer' = [answer EXCEPT !["load"] = NoAnswer]
      /\ UNCHANGED << published, activation, state, installed, cataloged, read, outcome,
                      reloads, faults, authority >>
      /\ UNCHANGED << canvas, submitted, highest, ended, reported, submits >>
      /\ step' = [step EXCEPT !["load"] = "sent"]
  BY <1>0 DEF Loaded, queueVars, Heard
<1>6. /\ step' \in [Call -> Steps] /\ step'["load"] = "sent" /\ answer' \in [Call -> AnswerType]
      /\ \A c \in Call \ { "load" } : step'[c] = step[c] /\ answer'[c] = answer[c]
  BY <1>5, Calls DEF Types, Steps, NoAnswer, AnswerType
<1>7. Awaited(x)'
  BY <1>4, <1>6 DEF Awaited
<1>8. /\ InTransit' /\ inbox' \in Seq(MessageType) /\ Len(inbox) \in Nat
      /\ DOMAIN inbox' = DOMAIN inbox \cup { Len(inbox) + 1 } /\ DOMAIN inbox = 1..Len(inbox)
      /\ inbox'[Len(inbox) + 1] = x
  BY <1>1, <1>4, <1>5, <1>6, <1>7, Posted
<1>9. DOMAIN inbox' = { 1 } /\ inbox'[1] = x
  BY <1>1, <1>8
<1>10. Types'
  BY <1>5, <1>6, <1>8 DEF Types
<1>11. Stored' = Stored /\ \A r : Held(r)' = Held(r)
  BY <1>5 DEF Stored, Held
<1>12. \A c \in Commits : step'[c] = step[c] /\ answer'[c] = answer[c] /\ c \in Call
  BY <1>6, Calls
<1>13. StepsMatch'
  BY <1>1, <1>5, <1>6, <1>12, Calls DEF StepsMatch
<1>14. AnswersTrue'
  BY <1>5, <1>11, <1>12 DEF AnswersTrue
<1>15. MigratedFirst'
  BY <1>1, <1>2, <1>4, <1>5, <1>9, <1>11 DEF MigratedFirst, Current
<1>16. EditsCarried'
  <2>1. \A e \in Edit : Unsaved(e)' <=> Unsaved(e)
    BY <1>5, <1>12, Calls DEF Unsaved
  <2> QED
    BY <1>4, <1>5, <1>9, <1>11, <2>1 DEF EditsCarried
<1>17. CatalogsRise' /\ CatalogsAsTold'
  BY <1>5, <1>12, Calls, CatalogsStay
<1>18. CatalogsHeeded'
  <2>1. \A r : Heeded(r)' <=> Heeded(r)
    BY <1>5, <1>11, <1>12, Calls DEF Heeded
  <2> QED
    BY <1>1, <1>4, <1>5, <1>9, <1>11, <1>12, <2>1, Calls DEF CatalogsHeeded
<1>19. HeldStands'
  BY <1>5, <1>11 DEF HeldStands, HeldIsPublished
<1> QED
  BY <1>8, <1>10, <1>13, <1>14, <1>15, <1>16, <1>17, <1>18, <1>19

\* What was loaded is held, or nothing when it could not be.
LEMMA OpenKeeps ==
  ASSUME WorkspaceInv, Loaded,
         ~ (answer["load"].kind = "record" /\ answer["load"].revision > 0
            /\ ~ published[answer["load"].revision].current)
  PROVE  WorkspaceInv'
<1> USE DEF WorkspaceInv
<1> DEFINE r == answer["load"].revision
<1>1. /\ step["load"] = "answered" /\ inbox = << >> /\ authority = "loading"
      /\ answer["load"].kind \in { "record", "failed" }
      /\ r = IF answer["load"].kind = "failed" THEN 0 ELSE Stored
  BY DEF Loaded, StepsMatch, Types
<1>2. /\ authority' = IF answer["load"].kind = "failed" THEN "unavailable" ELSE "available"
      /\ state' = Held(r) /\ inbox' = inbox /\ answer' = [answer EXCEPT !["load"] = NoAnswer]
      /\ UNCHANGED << published, activation, installed, cataloged, read, outcome, reloads, faults >>
      /\ UNCHANGED << canvas, submitted, highest, ended, reported, submits >>
      /\ step' = [step EXCEPT !["load"] = "done"]
  BY DEF Loaded, queueVars, Heard
<1>3. Stored \in Nat /\ r \in 0..Stored
  BY <1>1 DEF Types, Stored
<1>4. /\ step' \in [Call -> Steps] /\ step'["load"] = "done" /\ answer' \in [Call -> AnswerType]
      /\ \A c \in Call \ { "load" } : step'[c] = step[c] /\ answer'[c] = answer[c]
  BY <1>2, Calls DEF Types, Steps, NoAnswer, AnswerType
<1>5. state' \in [revision : Nat, document : Document] /\ state'.revision = r
  BY <1>2, <1>3, HeldFacts
<1>6. Types'
  BY <1>2, <1>4, <1>5 DEF Types
<1>7. Stored' = Stored /\ \A s : Held(s)' = Held(s)
  BY <1>2 DEF Stored, Held
<1>8. \A c \in Commits : step'[c] = step[c] /\ answer'[c] = answer[c] /\ c \in Call
  BY <1>4, Calls
<1>9. InTransit'
  BY <1>1, <1>2 DEF InTransit
<1>10. StepsMatch'
  BY <1>1, <1>2, <1>4, <1>5, <1>8, Calls DEF StepsMatch
<1>11. AnswersTrue'
  BY <1>2, <1>7, <1>8 DEF AnswersTrue
<1>12. MigratedFirst'
  BY <1>1, <1>2, <1>3, <1>7 DEF MigratedFirst, Current
<1>13. EditsCarried'
  <2>1. \A e \in Edit : Unsaved(e)' <=> Unsaved(e)
    BY <1>2, <1>8, Calls DEF Unsaved
  <2> QED
    BY <1>2, <1>7, <2>1 DEF EditsCarried
<1>14. CatalogsRise' /\ CatalogsAsTold'
  BY <1>2, <1>8, Calls, CatalogsStay
<1>15. CatalogsHeeded'
  <2>1. \A c \in Commits : step[c] \in { "idle", "done" }
    BY <1>1 DEF StepsMatch
  <2>2. authority' = "available" => Untouched' /\ ~ cataloged
    BY <1>1, <1>2, <1>5, <1>7, <1>8, <2>1 DEF Untouched, StepsMatch
  <2> QED
    BY <1>1, <1>2, <1>8, <2>1, <2>2, Calls DEF CatalogsHeeded
<1>16. HeldStands'
  BY <1>2, <1>3, <1>5, <1>7 DEF HeldStands, HeldIsPublished
<1> QED
  BY <1>6, <1>9, <1>10, <1>11, <1>12, <1>13, <1>14, <1>15, <1>16

\* The webview reloads: its calls are lost to it, the storage and the queue are not.
LEMMA ReloadKeeps ==
  ASSUME WorkspaceInv, Reload
  PROVE  WorkspaceInv'
<1> USE DEF WorkspaceInv
<1>1. /\ activation' = activation + 1 /\ reloads' = reloads + 1
      /\ inbox' \in { inbox, << >> }
      /\ authority' = "closed" /\ state' = Held(0) /\ installed' = 0 /\ ~ cataloged'
      /\ cataloged' = FALSE
      /\ canvas' = << >> /\ submitted' = << >> /\ highest' = 0 /\ submits' = 0
      /\ ended' = {} /\ reported' = {}
      /\ step' = [c \in Call |-> IF c \in Edit /\ step[c] # "idle" THEN "done" ELSE "idle"]
      /\ outcome' = [e \in Edit |-> IF outcome[e] = "none" /\ step[e] # "idle" THEN "lost"
                                    ELSE outcome[e]]
      /\ answer' = [c \in Call |-> NoAnswer]
      /\ UNCHANGED << published, read, faults >>
  BY DEF Reload
<1>2. Stored \in Nat /\ Stored' = Stored /\ \A r : Held(r)' = Held(r)
  BY <1>1 DEF Types, Stored, Held
<1>3. Held(0) \in [revision : Nat, document : Document] /\ Held(0).revision = 0
  BY <1>2, HeldFacts
<1>4. activation \in Nat /\ \A k \in DOMAIN inbox : inbox[k] \in MessageType
  BY ElementFacts DEF Types
<1>5. DOMAIN inbox' \subseteq DOMAIN inbox /\ \A k \in DOMAIN inbox' : inbox'[k] = inbox[k]
  BY <1>1
<1>6. /\ \A c \in Commits : step'[c] \in { "idle", "done" } /\ c \in Call
      /\ \A e \in Edit : /\ outcome'[e] = "none" <=> step'[e] # "done"
                         /\ step'[e] = IF step[e] = "idle" THEN "idle" ELSE "done"
                         /\ outcome'[e] = IF outcome[e] = "none" /\ step[e] # "idle" THEN "lost" ELSE outcome[e]
      /\ step'["load"] = "idle" /\ step'["catalog"] = "idle"
  BY <1>1, Calls DEF StepsMatch
<1>7. Types'
  <2>1. /\ inbox' \in Seq(MessageType) /\ canvas' \in Seq(Action)
        /\ submitted' \in Seq(1..MaxCatalog) /\ highest' \in 0..MaxCatalog /\ installed' \in 0..MaxCatalog
    <3>1. inbox' \in Seq(MessageType)
      BY <1>1, EmptySeq DEF Types
    <3>2. canvas' \in Seq(Action) /\ submitted' \in Seq(1..MaxCatalog)
      BY <1>1, EmptySeq
    <3> QED
      BY <1>1, <3>1, <3>2, Calls
  <2>2. step' \in [Call -> Steps] /\ answer' \in [Call -> AnswerType] /\ outcome' \in [Edit -> Outcomes]
    BY <1>1 DEF Types, Steps, AnswerType, NoAnswer, Outcomes
  <2>3. activation' \in Nat /\ reloads' \in Nat /\ activation' = reloads' /\ faults' \in Nat
    BY <1>1 DEF Types
  <2>4. ended' \subseteq 1..MaxCatalog /\ reported' \subseteq ended' /\ submits' \in Nat
    BY <1>1
  <2>5. cataloged' \in BOOLEAN
    BY <1>1
  <2> QED
    BY <1>1, <1>3, <2>1, <2>2, <2>3, <2>4, <2>5 DEF Types
<1>8. InTransit'
  <2>1. \A k \in DOMAIN inbox : inbox[k].by < activation + 1 /\ inbox[k].by # activation + 1
    BY <1>4 DEF InTransit, MessageType
  <2>2. \A k \in DOMAIN inbox : inbox[k].call \in Edit => outcome'[inbox[k].call] = "lost"
    <3> SUFFICES ASSUME NEW k \in DOMAIN inbox, inbox[k].call \in Edit
                 PROVE  outcome'[inbox[k].call] = "lost"
      OBVIOUS
    <3>1. CASE inbox[k].by = activation
      <4>1. step[inbox[k].call] \in { "sent", "asking" }
        BY <3>1 DEF InTransit, Awaited
      <4> QED
        BY <1>6, <4>1 DEF StepsMatch
    <3>2. CASE inbox[k].by < activation
      BY <1>6, <3>2 DEF InTransit
    <3> QED
      BY <1>4, <3>1, <3>2 DEF InTransit, MessageType
  <2>3. /\ \A k \in DOMAIN inbox' : inbox'[k].by < activation' /\ inbox'[k].by <= activation'
        /\ \A k \in DOMAIN inbox' : inbox'[k].by # activation'
    BY <1>1, <1>4, <1>5, <2>1 DEF MessageType
  <2>4. (\A k \in DOMAIN inbox :
           /\ inbox[k].kind = "migrate" => inbox[k].call = "load"
           /\ inbox[k].kind = "write" => inbox[k].call \in Commits)'
    BY <1>5 DEF InTransit
  <2>5. \A j, k \in DOMAIN inbox' : j < k => inbox'[j].by <= inbox'[k].by
    BY <1>5 DEF InTransit
  <2> QED
    BY <1>5, <2>2, <2>3, <2>4, <2>5 DEF InTransit
<1>9. StepsMatch'
  BY <1>1, <1>3, <1>6 DEF StepsMatch
<1>10. AnswersTrue'
  BY <1>6 DEF AnswersTrue
<1>11. MigratedFirst'
  BY <1>1, <1>2, <1>5 DEF MigratedFirst, Current
<1>12. EditsCarried'
  <2>1. \A e \in Edit : Unsaved(e)' => Unsaved(e)
    BY <1>6 DEF Unsaved
  <2>2. \A e \in Edit : outcome'[e] = "applied" => outcome[e] = "applied"
    BY <1>6
  <2>3. \A k \in DOMAIN inbox' : inbox'[k].kind = "write" =>
          /\ inbox'[k].expected <= Stored
          /\ inbox'[k].document.edits =
               Held(inbox'[k].expected).document.edits \cup ({ inbox'[k].call } \cap Edit)
    BY <1>5 DEF EditsCarried
  <2> QED
    BY <1>1, <1>2, <2>1, <2>2, <2>3 DEF EditsCarried
<1>13. CatalogsRise' /\ CatalogsAsTold'
  BY <1>1, <1>6 DEF CatalogsRise, CatalogsAsTold
<1>14. CatalogsHeeded'
  <2>1. \A k \in DOMAIN inbox' : inbox'[k].by # activation'
    BY <1>1, <1>4, <1>5 DEF InTransit, MessageType
  <2> QED
    BY <1>1, <1>6, <2>1, Calls DEF CatalogsHeeded
<1>15. HeldStands'
  BY <1>1, <1>2, <1>3 DEF HeldStands, HeldIsPublished
<1> QED
  BY <1>7, <1>8, <1>9, <1>10, <1>11, <1>12, <1>13, <1>14, <1>15

-----------------------------------------------------------------------------
(***************************************************************************)
(* Commands and catalogs.                                                  *)
(***************************************************************************)

\* The document of an edit, or of a catalog, is sent with the revision that is held.
LEMMA SendKeeps ==
  ASSUME WorkspaceInv, NEW call \in Commits, NEW d \in Document, Send(call, d),
         step[call] = "idle",
         d.edits = state.document.edits \cup ({ call } \cap Edit),
         IF call = "catalog" THEN submitted # << >> /\ d.catalog = Head(submitted)
         ELSE d.catalog <= installed,
         UNCHANGED << published, activation, authorityVars, queueVars, answer, read, outcome,
                      reloads, faults >>
  PROVE  WorkspaceInv'
<1> USE DEF WorkspaceInv
<1>0. PICK x : x = Message(call, "write", state.revision, d)
  OBVIOUS
<1>1. /\ call \in Call /\ call # "load"
      /\ x \in MessageType /\ x.by = activation /\ x.call = call /\ x.kind = "write"
      /\ x.expected = state.revision /\ x.document = d
  BY <1>0, Calls DEF Message, MessageType, Kinds, Types
<1>2. /\ inbox' = Append(inbox, x) /\ authority = "available"
      /\ UNCHANGED << published, activation, state, installed, cataloged, answer, read, outcome,
                      reloads, faults, authority >>
      /\ UNCHANGED << canvas, submitted, highest, ended, reported, submits >>
      /\ step' = [step EXCEPT ![call] = "sent"]
  BY <1>0 DEF Send, queueVars, authorityVars
<1>3. /\ step' \in [Call -> Steps] /\ step'[call] = "sent"
      /\ \A c \in Call \ { call } : step'[c] = step[c]
  BY <1>1, <1>2 DEF Types, Steps
<1>4. Awaited(x)'
  BY <1>1, <1>3 DEF Awaited
<1>5. /\ InTransit' /\ inbox' \in Seq(MessageType) /\ Len(inbox) \in Nat
      /\ DOMAIN inbox' = DOMAIN inbox \cup { Len(inbox) + 1 } /\ DOMAIN inbox = 1..Len(inbox)
      /\ \A k \in DOMAIN inbox : inbox'[k] = inbox[k] /\ inbox[k] \in MessageType
      /\ inbox'[Len(inbox) + 1] = x
  BY <1>1, <1>2, <1>3, <1>4, Posted
<1>6. Types'
  BY <1>2, <1>3, <1>5 DEF Types
<1>7. Stored' = Stored /\ Stored \in Nat /\ \A r : Held(r)' = Held(r)
  BY <1>2 DEF Stored, Held, Types
<1>8. \A c \in Commits : c \in Call /\ (c # call => step'[c] = step[c])
  BY <1>3, Calls
<1>9. StepsMatch'
  <2>1. step'["load"] = step["load"] /\ step["load"] = "done"
    BY <1>1, <1>2, <1>3, Calls DEF StepsMatch
  <2>2. \A k \in DOMAIN inbox' : inbox'[k].by = activation
    BY <1>1, <1>2, <1>5 DEF StepsMatch
  <2>3. step'["catalog"] # "done"
    BY <1>3, <1>8, Calls DEF StepsMatch
  <2>4. \A e \in Edit : step'[e] # "done" <=> step[e] # "done"
    BY <1>3, <1>8, Calls
  <2> QED
    BY <1>2, <2>1, <2>2, <2>3, <2>4 DEF StepsMatch
<1>10. AnswersTrue'
  BY <1>2, <1>3, <1>7, <1>8 DEF AnswersTrue
<1>11. MigratedFirst'
  BY <1>1, <1>2, <1>5, <1>7 DEF MigratedFirst, Current
<1>12. EditsCarried'
  <2>1. \A e \in Edit : Unsaved(e)' => Unsaved(e)
    BY <1>2, <1>3, <1>8, Calls DEF Unsaved
  <2>2. state.revision \in 0..Stored /\ state.document = Held(state.revision).document
    BY <1>7 DEF HeldStands, HeldIsPublished, Types
  <2>3. (\A k \in DOMAIN inbox : inbox[k].kind = "write" =>
           /\ inbox[k].expected <= Stored
           /\ inbox[k].document.edits =
                Held(inbox[k].expected).document.edits \cup ({ inbox[k].call } \cap Edit))'
    <3> SUFFICES ASSUME NEW k \in DOMAIN inbox', inbox'[k].kind = "write"
                 PROVE  (/\ inbox[k].expected <= Stored
                         /\ inbox[k].document.edits =
                              Held(inbox[k].expected).document.edits \cup ({ inbox[k].call } \cap Edit))'
      OBVIOUS
    <3>1. CASE k \in DOMAIN inbox
      BY <1>2, <1>5, <1>7, <3>1 DEF EditsCarried, Held
    <3>2. CASE k = Len(inbox) + 1
      BY <1>1, <1>2, <1>5, <1>7, <2>2, <3>2 DEF Held
    <3> QED
      BY <1>5, <3>1, <3>2
  <2> QED
    BY <1>2, <1>7, <2>1, <2>3 DEF EditsCarried
<1>13. CatalogsRise' /\ CatalogsAsTold'
  BY <1>2, <1>3, <1>8, Calls DEF CatalogsRise, CatalogsAsTold
<1>14. CatalogsHeeded'
  <2>1. \A r : Heeded(r)' <=> Heeded(r)
    BY <1>2, <1>3, <1>7, <1>8, Calls DEF Heeded
  <2>2. (\A k \in DOMAIN inbox : inbox[k].kind = "write" /\ inbox[k].by = activation =>
           IF inbox[k].call = "catalog" THEN inbox[k].document.catalog = Head(submitted)
           ELSE inbox[k].document.catalog <= installed)'
    BY <1>1, <1>2, <1>5 DEF CatalogsHeeded
  <2>3. \A c \in Commits : step'[c] \in { "answered", "told" } => step[c] = step'[c]
    BY <1>3, <1>8
  <2>4. Untouched => Untouched'
    <3>1. Untouched => \A k \in DOMAIN inbox' : inbox'[k].kind = "write" => inbox'[k].expected = Stored
      BY <1>1, <1>5 DEF Untouched
    <3> QED
      BY <1>2, <1>3, <1>7, <1>8, <3>1 DEF Untouched
  <2> QED
    BY <1>2, <1>7, <2>1, <2>2, <2>3, <2>4, Calls DEF CatalogsHeeded
<1>15. HeldStands'
  BY <1>2, <1>7 DEF HeldStands, HeldIsPublished
<1> QED
  BY <1>5, <1>6, <1>9, <1>10, <1>11, <1>12, <1>13, <1>14, <1>15

\* An edit that is not sent is in no record.
LEMMA TellKeeps ==
  ASSUME WorkspaceInv, NEW e \in Edit, step[e] = "idle",
         NEW what \in { "refused", "failed", "conflict" }, Tell(e, what),
         UNCHANGED << storeVars, activation, authorityVars, queueVars, answer, read, reloads, faults >>
  PROVE  WorkspaceInv'
<1> USE DEF WorkspaceInv
<1>1. /\ UNCHANGED << published, inbox, activation, state, installed, cataloged, answer, read,
                      reloads, faults, authority >>
      /\ UNCHANGED << canvas, submitted, highest, ended, reported, submits >>
      /\ step' = [step EXCEPT ![e] = "done"] /\ outcome' = [outcome EXCEPT ![e] = what]
  BY DEF Tell, queueVars, authorityVars, storeVars
<1>2. e \in Call /\ e # "load" /\ e # "catalog" /\ e \in Commits
  BY Calls
<1>3. /\ step' \in [Call -> Steps] /\ step'[e] = "done"
      /\ \A c \in Call \ { e } : step'[c] = step[c]
      /\ outcome' \in [Edit -> Outcomes] /\ outcome'[e] = what
      /\ \A f \in Edit \ { e } : outcome'[f] = outcome[f]
  BY <1>1, <1>2 DEF Types, Steps, Outcomes
<1>4. Types'
  BY <1>1, <1>3 DEF Types
<1>5. Stored' = Stored /\ \A r : Held(r)' = Held(r)
  BY <1>1 DEF Stored, Held
<1>6. outcome[e] = "none"
  BY DEF StepsMatch
<1>7. InTransit'
  BY <1>1, <1>3, <1>6, Unposted
<1>8. StepsMatch'
  BY <1>1, <1>2, <1>3, <1>5, Calls DEF StepsMatch
<1>9. \A c \in Commits : c \in Call /\ (c # e => step'[c] = step[c])
  BY <1>3, Calls
<1>10. AnswersTrue'
  BY <1>1, <1>3, <1>5, <1>9 DEF AnswersTrue
<1>11. MigratedFirst'
  BY <1>1, <1>5 DEF MigratedFirst, Current
<1>12. EditsCarried'
  <2>1. \A f \in Edit : Unsaved(f)' => Unsaved(f)
    BY <1>1, <1>3, Calls DEF Unsaved
  <2>2. \A f \in Edit : outcome'[f] = "applied" => outcome[f] = "applied"
    BY <1>3
  <2> QED
    BY <1>1, <1>5, <2>1, <2>2 DEF EditsCarried
<1>13. step'["catalog"] = step["catalog"]
  BY <1>2, <1>3, Calls
<1>14. CatalogsRise' /\ CatalogsAsTold'
  BY <1>1, <1>13, CatalogsStay
<1>15. CatalogsHeeded'
  <2>1. \A r : Heeded(r)' <=> Heeded(r)
    BY <1>1, <1>5, <1>13 DEF Heeded
  <2>2. \A c \in Commits : step'[c] \in { "answered", "told" } => step[c] = step'[c]
    BY <1>3, <1>9
  <2>3. Untouched => Untouched'
    BY <1>1, <1>3, <1>5, <1>9 DEF Untouched
  <2> QED
    BY <1>1, <1>5, <1>13, <2>1, <2>2, <2>3 DEF CatalogsHeeded
<1>16. HeldStands'
  BY <1>1, <1>5 DEF HeldStands, HeldIsPublished
<1> QED
  BY <1>4, <1>7, <1>8, <1>10, <1>11, <1>12, <1>14, <1>15, <1>16

\* What the user asks for and what a caller inspects disturbs nothing, nor does a catalog
\* that is submitted after others.
LEMMA QueueKeeps ==
  ASSUME WorkspaceInv,
         UNCHANGED << storeVars, activation, authorityVars, step, answer, outcome, ended, reported,
                      reloads, faults >>,
         canvas' \in Seq(Action), read' \in [Request -> Nat], submits' \in Nat,
         \/ UNCHANGED << submitted, highest >>
         \/ \E c \in 1..MaxCatalog :
              c >= highest /\ highest' = c /\ submitted' = Append(submitted, c)
  PROVE  WorkspaceInv'
<1> USE DEF WorkspaceInv
<1>1. /\ UNCHANGED << published, inbox, activation, state, installed, cataloged, step, answer,
                      outcome, ended, reported, reloads, faults, authority >>
  BY DEF authorityVars, storeVars
<1>2. /\ submitted' \in Seq(1..MaxCatalog) /\ highest' \in 0..MaxCatalog
      /\ submitted # << >> => submitted' # << >> /\ Head(submitted') = Head(submitted)
      /\ (CatalogsRise)'
  <2>1. CASE UNCHANGED << submitted, highest >>
    BY <1>1, <2>1 DEF Types, CatalogsRise
  <2>2. CASE \E c \in 1..MaxCatalog :
               c >= highest /\ highest' = c /\ submitted' = Append(submitted, c)
    <3>1. PICK c \in 1..MaxCatalog :
            c >= highest /\ highest' = c /\ submitted' = Append(submitted, c)
      BY <2>2
    <3>2. /\ submitted' \in Seq(1..MaxCatalog) /\ Len(submitted) \in Nat
          /\ DOMAIN submitted' = DOMAIN submitted \cup { Len(submitted) + 1 }
          /\ DOMAIN submitted = 1..Len(submitted) /\ Len(submitted') = Len(submitted) + 1
          /\ \A k \in DOMAIN submitted : submitted'[k] = submitted[k] /\ submitted[k] \in Nat
          /\ submitted'[Len(submitted) + 1] = c
          /\ submitted # << >> => Head(submitted') = Head(submitted)
      <4> DEFINE S == 1..MaxCatalog
      <4>1. submitted \in Seq(S) /\ c \in S /\ submitted' = Append(submitted, c) /\ S \subseteq Nat
        BY <3>1 DEF Types
      <4> HIDE DEF S
      <4>2. \A k \in DOMAIN submitted : submitted[k] \in Nat
        BY <4>1, ElementFacts
      <4>3. submitted' \in Seq(S)
        BY <4>1, AppendFacts
      <4>4. /\ Len(submitted) \in Nat
            /\ DOMAIN submitted' = DOMAIN submitted \cup { Len(submitted) + 1 }
            /\ DOMAIN submitted = 1..Len(submitted) /\ Len(submitted') = Len(submitted) + 1
            /\ \A k \in DOMAIN submitted : submitted'[k] = submitted[k]
            /\ submitted'[Len(submitted) + 1] = c
            /\ submitted # << >> => Head(submitted') = Head(submitted)
        BY <4>1, AppendFacts
      <4> QED
        BY <4>2, <4>3, <4>4 DEF S
    <3>3. highest' \in 0..MaxCatalog /\ submitted' # << >>
      <4>1. submitted' # << >>
        BY <3>2
      <4>2. c \in 0..MaxCatalog /\ highest' = c
        BY <3>1, Calls
      <4> QED
        BY <4>1, <4>2
    <3>4. installed \in Nat /\ highest \in Nat /\ installed <= highest /\ c \in Nat /\ highest <= c
      BY <3>1, Calls DEF Types, CatalogsRise
    <3>5. \A i \in DOMAIN submitted' : installed <= submitted'[i] /\ submitted'[i] <= highest'
      <4> SUFFICES ASSUME NEW i \in DOMAIN submitted'
                   PROVE  installed <= submitted'[i] /\ submitted'[i] <= highest'
        OBVIOUS
      <4>1. CASE i \in DOMAIN submitted
        <5>1. installed <= submitted[i] /\ submitted[i] <= highest /\ submitted[i] \in Nat
          BY <3>2, <4>1 DEF CatalogsRise
        <5>2. submitted'[i] = submitted[i] /\ highest' = c
          BY <3>1, <3>2, <4>1
        <5> QED
          BY <3>4, <5>1, <5>2
      <4>2. CASE i = Len(submitted) + 1
        <5>1. submitted'[i] = c /\ highest' = c
          BY <3>1, <3>2, <4>2
        <5> QED
          BY <3>4, <5>1
      <4> QED
        BY <3>2, <4>1, <4>2
    <3>6. \A i, j \in DOMAIN submitted' : i < j => submitted'[i] <= submitted'[j]
      <4> SUFFICES ASSUME NEW i \in DOMAIN submitted', NEW j \in DOMAIN submitted', i < j
                   PROVE  submitted'[i] <= submitted'[j]
        OBVIOUS
      <4>1. i \in DOMAIN submitted
        BY <3>2
      <4>2. CASE j \in DOMAIN submitted
        BY <3>2, <4>1, <4>2 DEF CatalogsRise
      <4>3. CASE j = Len(submitted) + 1
        <5>1. submitted[i] <= highest /\ submitted[i] \in Nat
          BY <3>2, <4>1 DEF CatalogsRise
        <5>2. submitted'[i] = submitted[i] /\ submitted'[j] = c
          BY <3>2, <4>1, <4>3
        <5> QED
          BY <3>4, <5>1, <5>2
      <4> QED
        BY <3>2, <4>2, <4>3
    <3>7. installed' <= highest'
      BY <1>1, <3>1, <3>4
    <3> QED
      BY <1>1, <3>2, <3>3, <3>5, <3>6, <3>7 DEF CatalogsRise
  <2> QED
    BY <2>1, <2>2
<1>3. Types'
  BY <1>1, <1>2 DEF Types
<1>4. Stored' = Stored /\ \A r : Held(r)' = Held(r)
  BY <1>1 DEF Stored, Held
<1>5. InTransit'
  BY <1>1, Unposted
<1>6. StepsMatch'
  BY <1>1, <1>4 DEF StepsMatch
<1>7. AnswersTrue'
  BY <1>1, <1>4 DEF AnswersTrue
<1>8. MigratedFirst'
  BY <1>1, <1>4 DEF MigratedFirst, Current
<1>9. EditsCarried'
  BY <1>1, <1>4 DEF EditsCarried, Unsaved
<1>10. CatalogsAsTold'
  BY <1>1 DEF CatalogsAsTold
<1>11. CatalogsHeeded'
  <2>1. step["catalog"] # "idle" => Head(submitted') = Head(submitted)
    BY <1>2 DEF CatalogsRise
  <2>2. \A r : Heeded(r)' <=> Heeded(r)
    BY <1>1, <1>4, <2>1 DEF Heeded
  <2>3. Untouched' <=> Untouched
    BY <1>1, <1>4 DEF Untouched
  <2>4. \A k \in DOMAIN inbox : inbox[k].by = activation /\ inbox[k].call = "catalog" =>
          Head(submitted') = Head(submitted)
    BY <2>1 DEF InTransit, Awaited
  <2> QED
    BY <1>1, <1>4, <2>1, <2>2, <2>3, <2>4 DEF CatalogsHeeded
<1>12. HeldStands'
  BY <1>1, <1>4 DEF HeldStands, HeldIsPublished
<1> QED
  BY <1>2, <1>3, <1>5, <1>6, <1>7, <1>8, <1>9, <1>10, <1>11, <1>12

-----------------------------------------------------------------------------
(***************************************************************************)
(* Answers to commits.                                                     *)
(***************************************************************************)

\* What is held after an answer was published, and of the type.
LEMMA HeldAnswer ==
  ASSUME WorkspaceInv, NEW c \in Commits, step[c] \in { "answered", "told" },
         state' = state \/ state' = Held(answer[c].revision), published' = published
  PROVE  state' \in [revision : Nat, document : Document] /\ HeldStands'
<1> USE DEF WorkspaceInv
<1>1. answer[c].revision \in 0..Stored /\ Stored' = Stored /\ \A r : Held(r)' = Held(r)
  BY Calls DEF AnswersTrue, Types, AnswerType, Stored, Held
<1>2. CASE state' = state
  BY <1>1, <1>2 DEF HeldStands, HeldIsPublished, Types
<1>3. CASE state' = Held(answer[c].revision)
  <2>1. Held(answer[c].revision) \in [revision : Nat, document : Document]
        /\ Held(answer[c].revision).revision = answer[c].revision
    BY <1>1, HeldFacts
  <2>2. state'.revision = answer[c].revision /\ state'.revision <= Stored'
    BY <1>1, <1>3, <2>1
  <2>3. state' = Held(state'.revision)
    BY <1>3, <2>2
  <2>4. (Held(state.revision))' = Held(state'.revision)
    BY <1>1 DEF Held
  <2> QED
    BY <1>3, <2>1, <2>2, <2>3, <2>4 DEF HeldStands, HeldIsPublished
<1> QED
  BY <1>2, <1>3

\* The commit of an edit ends: it was saved, or it is in no record and its caller is told
\* so.
LEMMA EditEndsKeeps ==
  ASSUME WorkspaceInv, NEW e \in Edit, step[e] \in { "answered", "told" },
         NEW what \in { "applied", "conflict", "failed" }, Tell(e, what), Heard(e),
         what = "applied" => step[e] = "answered" /\ answer[e].kind = "record",
         what # "applied" => step[e] = "told" \/ answer[e].kind = "failed",
         state' = state \/ (answer[e].kind = "record" /\ state' = Held(answer[e].revision)),
         UNCHANGED << storeVars, activation, authority, installed, cataloged, queueVars, read,
                      reloads, faults >>
  PROVE  WorkspaceInv'
<1> USE DEF WorkspaceInv
<1>1. /\ UNCHANGED << published, inbox, activation, authority, installed, cataloged, read,
                      reloads, faults >>
      /\ UNCHANGED << canvas, submitted, highest, ended, reported, submits >>
      /\ step' = [step EXCEPT ![e] = "done"] /\ outcome' = [outcome EXCEPT ![e] = what]
      /\ answer' = [answer EXCEPT ![e] = NoAnswer]
  BY DEF Tell, Heard, queueVars, storeVars
<1>2. e \in Call /\ e # "load" /\ e # "catalog" /\ e \in Commits
  BY Calls
<1>3. /\ step' \in [Call -> Steps] /\ step'[e] = "done"
      /\ \A c \in Call \ { e } : step'[c] = step[c] /\ answer'[c] = answer[c]
      /\ outcome' \in [Edit -> Outcomes] /\ outcome'[e] = what
      /\ \A f \in Edit \ { e } : outcome'[f] = outcome[f]
  BY <1>1, <1>2 DEF Types, Steps, Outcomes
<1>4. answer' \in [Call -> AnswerType] /\ answer'[e] = NoAnswer
  BY <1>1, <1>2 DEF Types, AnswerType, NoAnswer
<1>5. Stored' = Stored /\ \A r : Held(r)' = Held(r)
  BY <1>1 DEF Stored, Held
<1>6. state' \in [revision : Nat, document : Document] /\ HeldStands'
  BY <1>1, <1>2, HeldAnswer
<1>7. Types'
  BY <1>1, <1>3, <1>4, <1>6 DEF Types
<1>8. authority = "available"
  BY <1>2 DEF StepsMatch
<1>9. InTransit'
  <2>1. outcome[e] = "none"
    BY DEF StepsMatch
  <2> QED
    BY <1>1, <1>3, <2>1, Unposted
<1>10. StepsMatch'
  BY <1>1, <1>2, <1>3, <1>5, <1>8, Calls DEF StepsMatch
<1>11. \A c \in Commits : c \in Call /\ (c # e => step'[c] = step[c] /\ answer'[c] = answer[c])
  BY <1>3, Calls
<1>12. AnswersTrue'
  BY <1>1, <1>3, <1>5, <1>11 DEF AnswersTrue
<1>13. MigratedFirst'
  BY <1>1, <1>5 DEF MigratedFirst, Current
<1>14. EditsCarried'
  <2>1. \A f \in Edit : Unsaved(f)' => Unsaved(f)
    BY <1>2, <1>3, <1>11, Calls DEF Unsaved
  <2>2. \A f \in Edit : outcome'[f] = "applied" =>
          Stored > 0 /\ f \in published[Stored].document.edits
    <3> SUFFICES ASSUME NEW f \in Edit, outcome'[f] = "applied"
                 PROVE  Stored > 0 /\ f \in published[Stored].document.edits
      OBVIOUS
    <3>1. CASE f # e
      BY <1>3, <3>1 DEF EditsCarried
    <3>2. CASE f = e
      <4>1. step[e] = "answered" /\ answer[e].kind = "record"
        BY <1>3, <3>2
      <4>2. /\ answer[e].revision > 0 /\ answer[e].revision <= Stored
            /\ e \in published[answer[e].revision].document.edits
        BY <1>2, <4>1 DEF AnswersTrue
      <4>3. answer[e].revision \in Nat /\ Stored \in Nat /\ DOMAIN published = 1..Stored
        BY <1>2 DEF Types, AnswerType, Stored
      <4>4. published[answer[e].revision].document.edits \subseteq published[Stored].document.edits
        BY <4>2, <4>3 DEF EditsCarried
      <4> QED
        BY <3>2, <4>2, <4>3, <4>4
    <3> QED
      BY <3>1, <3>2
  <2> QED
    BY <1>1, <1>5, <2>1, <2>2 DEF EditsCarried
<1>15. step'["catalog"] = step["catalog"] /\ answer'["catalog"] = answer["catalog"]
  BY <1>2, <1>11, Calls
<1>16. CatalogsRise' /\ CatalogsAsTold'
  BY <1>1, <1>15, CatalogsStay
<1>17. CatalogsHeeded'
  <2>1. \A r : Heeded(r)' <=> Heeded(r)
    BY <1>1, <1>5, <1>15 DEF Heeded
  <2>2. \A c \in Commits : step'[c] \in { "answered", "told" } =>
          step[c] = step'[c] /\ answer'[c] = answer[c]
    BY <1>3, <1>11
  <2>3. IF cataloged' THEN Heeded(state'.revision) /\ Heeded(Stored)
        ELSE Heeded(Stored) \/ (Untouched /\ state' = state)
    <3>1. CASE state' = state
      BY <1>1, <1>8, <3>1 DEF CatalogsHeeded
    <3>2. CASE answer[e].kind = "record" /\ state' = Held(answer[e].revision)
      <4>1. state'.revision = answer[e].revision
        BY <3>2 DEF Held
      <4>2. Heeded(answer[e].revision) /\ ~ Untouched
        BY <1>2, <3>2 DEF CatalogsHeeded, Untouched
      <4> QED
        BY <1>1, <1>8, <4>1, <4>2 DEF CatalogsHeeded
    <3> QED
      BY <3>1, <3>2
  <2>4. Untouched /\ state' = state => Untouched'
    BY <1>1, <1>3, <1>5, <1>11 DEF Untouched
  <2>5. (authority = "available" =>
           IF cataloged THEN Heeded(state.revision) /\ Heeded(Stored) ELSE Heeded(Stored) \/ Untouched)'
    <3>1. Heeded(state.revision)' <=> Heeded(state'.revision)
      BY <1>1, <1>5, <1>15 DEF Heeded
    <3>2. Heeded(Stored)' <=> Heeded(Stored)
      BY <1>1, <1>5, <1>15 DEF Heeded
    <3> QED
      BY <2>3, <2>4, <3>1, <3>2
  <2>6. (\A k \in DOMAIN inbox : inbox[k].kind = "write" /\ inbox[k].by = activation =>
           IF inbox[k].call = "catalog" THEN inbox[k].document.catalog = Head(submitted)
           ELSE inbox[k].document.catalog <= installed)'
    BY <1>1 DEF CatalogsHeeded
  <2>7. (\A c \in Commits : step[c] \in { "answered", "told" } /\ answer[c].kind = "record" =>
           Heeded(answer[c].revision))'
    BY <1>1, <1>5, <1>15, <2>2 DEF CatalogsHeeded, Heeded
  <2>8. (step["catalog"] = "answered" /\ answer["catalog"].kind = "record" =>
           Held(answer["catalog"].revision).document.catalog = Head(submitted))'
    BY <1>1, <1>5, <1>15 DEF CatalogsHeeded
  <2> QED
    BY <2>5, <2>6, <2>7, <2>8 DEF CatalogsHeeded
<1> QED
  BY <1>6, <1>7, <1>9, <1>10, <1>12, <1>13, <1>14, <1>16, <1>17

\* What the end of a reconciliation leaves of the queue.
LEMMA EndFacts ==
  ASSUME Types, CatalogsRise, submitted # << >>, NEW failed \in BOOLEAN,
         End(Head(submitted), failed)
  PROVE  /\ Head(submitted) \in 1..MaxCatalog
         /\ installed <= Head(submitted) /\ Head(submitted) <= highest
         /\ submitted' \in Seq(1..MaxCatalog)
         /\ \A i \in DOMAIN submitted' : Head(submitted) <= submitted'[i] /\ submitted'[i] <= highest
         /\ \A i, j \in DOMAIN submitted' : i < j => submitted'[i] <= submitted'[j]
         /\ step' \in [Call -> Steps] /\ step'["catalog"] = "idle"
         /\ \A c \in Call \ { "catalog" } : step'[c] = step[c]
         /\ ended' = ended \cup { Head(submitted) } /\ ended' \subseteq 1..MaxCatalog
         /\ reported' \subseteq ended' /\ reported \subseteq reported'
         /\ failed => Head(submitted) \in reported'
         /\ UNCHANGED << canvas, highest, submits >>
<1> DEFINE S == 1..MaxCatalog
           h == Head(submitted)
<1>1. submitted \in Seq(S)
  BY DEF Types
<1>2. /\ submitted' = Tail(submitted) /\ step' = [step EXCEPT !["catalog"] = "idle"]
      /\ ended' = ended \cup { h } /\ UNCHANGED << canvas, highest, submits >>
      /\ reported' = IF failed THEN reported \cup { h } ELSE reported
  BY DEF End
<1>3. /\ submitted' \in Seq(S) /\ 1 \in DOMAIN submitted /\ h = submitted[1] /\ h \in S
      /\ \A k \in DOMAIN submitted' :
           k \in Nat /\ k >= 1 /\ k + 1 \in DOMAIN submitted /\ submitted'[k] = submitted[k + 1]
  <2> HIDE DEF S
  <2> QED
    BY <1>1, <1>2, TailFacts
<1>4. installed <= h /\ h <= highest
  BY <1>3 DEF CatalogsRise
<1>5. \A i \in DOMAIN submitted' : h <= submitted'[i] /\ submitted'[i] <= highest
  <2> SUFFICES ASSUME NEW i \in DOMAIN submitted'
               PROVE  h <= submitted'[i] /\ submitted'[i] <= highest
    OBVIOUS
  <2>1. 1 < i + 1 /\ i + 1 \in DOMAIN submitted /\ submitted'[i] = submitted[i + 1]
    BY <1>3
  <2> QED
    BY <1>3, <2>1 DEF CatalogsRise
<1>6. \A i, j \in DOMAIN submitted' : i < j => submitted'[i] <= submitted'[j]
  <2> SUFFICES ASSUME NEW i \in DOMAIN submitted', NEW j \in DOMAIN submitted', i < j
               PROVE  submitted'[i] <= submitted'[j]
    OBVIOUS
  <2>1. /\ i + 1 < j + 1 /\ i + 1 \in DOMAIN submitted /\ j + 1 \in DOMAIN submitted
        /\ submitted'[i] = submitted[i + 1] /\ submitted'[j] = submitted[j + 1]
    BY <1>3
  <2> QED
    BY <2>1 DEF CatalogsRise
<1>7. /\ step' \in [Call -> Steps] /\ step'["catalog"] = "idle"
      /\ \A c \in Call \ { "catalog" } : step'[c] = step[c]
  BY <1>2, Calls DEF Types, Steps
<1>8. ended' \subseteq S /\ reported' \subseteq ended' /\ reported \subseteq reported'
      /\ (failed => h \in reported')
  BY <1>2, <1>3 DEF Types
<1> QED
  BY <1>2, <1>3, <1>4, <1>5, <1>6, <1>7, <1>8

\* The reconciliation of a catalog ends: its failure is reported, or the catalog, or a
\* later one, is installed.
LEMMA CatalogEndsKeeps ==
  ASSUME WorkspaceInv, submitted # << >>, NEW failed \in BOOLEAN, End(Head(submitted), failed),
         step["catalog"] \in { "idle", "answered", "told" },
         answer' \in [Call -> AnswerType],
         \A c \in Call \ { "catalog" } : answer'[c] = answer[c],
         \/ state' = state
         \/ /\ step["catalog"] \in { "answered", "told" } /\ answer["catalog"].kind = "record"
            /\ state' = Held(answer["catalog"].revision),
         \/ /\ UNCHANGED << installed, cataloged >>
            /\ failed \/ (cataloged /\ Head(submitted) <= installed)
            /\ ~ (step["catalog"] = "answered" /\ answer["catalog"].kind = "record")
         \/ /\ installed' = Head(submitted) /\ cataloged' = TRUE /\ authority = "available"
            /\ state'.document.catalog = Head(submitted),
         UNCHANGED << storeVars, activation, authority, read, outcome, reloads, faults >>
  PROVE  WorkspaceInv'
<1> USE DEF WorkspaceInv
<1> DEFINE h == Head(submitted)
<1>1. UNCHANGED << published, inbox, activation, authority, read, outcome, reloads, faults >>
  BY DEF storeVars
<1>2. /\ h \in 1..MaxCatalog /\ installed <= h /\ h <= highest
      /\ submitted' \in Seq(1..MaxCatalog)
      /\ \A i \in DOMAIN submitted' : h <= submitted'[i] /\ submitted'[i] <= highest
      /\ \A i, j \in DOMAIN submitted' : i < j => submitted'[i] <= submitted'[j]
      /\ step' \in [Call -> Steps] /\ step'["catalog"] = "idle"
      /\ \A c \in Call \ { "catalog" } : step'[c] = step[c]
      /\ ended' = ended \cup { h } /\ ended' \subseteq 1..MaxCatalog
      /\ reported' \subseteq ended' /\ reported \subseteq reported'
      /\ failed => h \in reported'
      /\ UNCHANGED << canvas, highest, submits >>
  BY EndFacts
<1>3. Stored' = Stored /\ Stored \in Nat /\ \A r : Held(r)' = Held(r)
  BY <1>1 DEF Stored, Held, Types
<1>4. state' \in [revision : Nat, document : Document] /\ HeldStands'
  <2>1. CASE state' = state
    BY <1>1, <1>3, <2>1 DEF HeldStands, HeldIsPublished, Types
  <2>2. CASE step["catalog"] \in { "answered", "told" } /\ state' = Held(answer["catalog"].revision)
    BY <1>1, <2>2, HeldAnswer, Calls
  <2> QED
    BY <2>1, <2>2
<1>5. /\ installed \in Nat /\ installed' \in Nat /\ installed' \in 0..MaxCatalog
      /\ cataloged' \in BOOLEAN /\ installed <= installed'
      /\ (installed' = h \/ installed' = installed)
      /\ cataloged => cataloged'
  <2>1. CASE UNCHANGED << installed, cataloged >>
    BY <2>1 DEF Types
  <2>2. CASE installed' = h /\ cataloged' = TRUE
    BY <1>2, <2>2, Calls DEF Types
  <2> QED
    BY <2>1, <2>2
<1>6. Types'
  BY <1>1, <1>2, <1>4, <1>5 DEF Types
<1>7. InTransit'
  BY <1>1, <1>2, Unposted
<1>8. \A c \in Commits : c \in Call /\ (c # "catalog" => step'[c] = step[c] /\ answer'[c] = answer[c])
  BY <1>2, Calls
<1>9. \A e \in Edit : step'[e] = step[e] /\ answer'[e] = answer[e]
  BY <1>8, Calls
<1>10. StepsMatch'
  <2>1. step'["load"] = step["load"] /\ answer'["load"] = answer["load"]
    BY <1>2, Calls
  <2>2. authority # "available" => ~ cataloged' /\ state' = state
    BY Calls DEF StepsMatch
  <2> QED
    BY <1>1, <1>2, <1>3, <1>8, <1>9, <2>1, <2>2 DEF StepsMatch
<1>11. AnswersTrue'
  BY <1>1, <1>2, <1>3, <1>8 DEF AnswersTrue
<1>12. MigratedFirst'
  BY <1>1, <1>3 DEF MigratedFirst, Current
<1>13. EditsCarried'
  <2>1. \A e \in Edit : Unsaved(e)' <=> Unsaved(e)
    BY <1>1, <1>9 DEF Unsaved
  <2> QED
    BY <1>1, <1>3, <2>1 DEF EditsCarried
<1>14. CatalogsRise'
  <2>1. ~ cataloged' => installed' = 0
    BY DEF CatalogsRise
  <2>2. installed' <= h /\ installed' <= highest'
    BY <1>2, Calls DEF Types
  <2>3. \A i \in DOMAIN submitted' : installed' <= submitted'[i] /\ submitted'[i] <= highest'
    <3> SUFFICES ASSUME NEW i \in DOMAIN submitted'
                 PROVE  installed' <= submitted'[i] /\ submitted'[i] <= highest'
      OBVIOUS
    <3>1. h <= submitted'[i] /\ submitted'[i] <= highest' /\ submitted'[i] \in Nat /\ h \in Nat
      <4>1. submitted'[i] \in 1..MaxCatalog
        BY <1>2, ElementFacts
      <4> QED
        BY <1>2, <4>1
    <3> QED
      BY <1>5, <2>2, <3>1
  <2> QED
    BY <1>2, <2>1, <2>2, <2>3 DEF CatalogsRise
<1>15. CatalogsAsTold'
  <2> SUFFICES ASSUME NEW c \in ended' PROVE c \in reported' \/ (cataloged' /\ installed' >= c)
    BY DEF CatalogsAsTold
  <2>1. c \in 1..MaxCatalog
    BY <1>2
  <2>2. CASE c \in ended
    BY <1>2, <1>5, <2>1, <2>2 DEF CatalogsAsTold
  <2>3. CASE c = h
    BY <1>2, <1>5, <2>1, <2>3
  <2> QED
    BY <1>2, <2>2, <2>3
<1>16. \A r \in 0..Stored : Heeded(r) => Heeded(r)'
  <2> SUFFICES ASSUME NEW r \in 0..Stored, Heeded(r) PROVE Heeded(r)'
    OBVIOUS
  <2>1. Held(r).document.catalog \in Nat /\ Held(r)' = Held(r)
    BY <1>3, HeldFacts DEF Document
  <2>2. Held(r).document.catalog <= installed'
    <3>1. CASE Held(r).document.catalog <= installed
      BY <1>2, <1>5, <2>1, <3>1
    <3>2. CASE ~ (Held(r).document.catalog <= installed)
      <4>1. /\ step["catalog"] = "answered" /\ answer["catalog"].kind = "record"
            /\ Held(r).document.catalog = h
        BY <3>2 DEF Heeded
      <4>2. installed' = h
        BY <4>1
      <4> QED
        BY <2>1, <4>1, <4>2
    <3> QED
      BY <3>1, <3>2
  <2> QED
    BY <2>1, <2>2 DEF Heeded
<1>17. state'.revision \in 0..Stored /\ Stored \in 0..Stored
  BY <1>3, <1>4 DEF HeldStands
<1>18. CatalogsHeeded'
  <2>1. (\A k \in DOMAIN inbox : inbox[k].kind = "write" /\ inbox[k].by = activation =>
           IF inbox[k].call = "catalog" THEN inbox[k].document.catalog = Head(submitted)
           ELSE inbox[k].document.catalog <= installed)'
    <3> SUFFICES ASSUME NEW k \in DOMAIN inbox, inbox[k].kind = "write", inbox[k].by = activation
                 PROVE  inbox[k].call # "catalog" /\ inbox[k].document.catalog <= installed'
      BY <1>1
    <3>1. step[inbox[k].call] \in { "sent", "asking" }
      BY DEF InTransit, Awaited
    <3>2. inbox[k].call # "catalog"
      BY <3>1
    <3>3. inbox[k].document.catalog <= installed
      BY <3>2 DEF CatalogsHeeded
    <3>4. inbox[k].document.catalog \in Nat
      <4>1. inbox[k] \in MessageType
        BY ElementFacts DEF Types
      <4> QED
        BY <4>1 DEF MessageType, Document
    <3> QED
      BY <1>2, <1>5, <3>2, <3>3, <3>4
  <2>2. (\A c \in Commits : step[c] \in { "answered", "told" } /\ answer[c].kind = "record" =>
           Heeded(answer[c].revision))'
    <3> SUFFICES ASSUME NEW c \in Commits, step'[c] \in { "answered", "told" }, answer'[c].kind = "record"
                 PROVE  Heeded(answer[c].revision)'
      OBVIOUS
    <3>1. c # "catalog" /\ step'[c] = step[c] /\ answer'[c] = answer[c]
      BY <1>2, <1>8
    <3>2. Heeded(answer[c].revision) /\ answer[c].revision \in 0..Stored
      BY <1>8, <3>1 DEF CatalogsHeeded, AnswersTrue, Types, AnswerType
    <3> QED
      BY <1>16, <3>1, <3>2 DEF Heeded, Held
  <2>3. step'["catalog"] # "answered"
    BY <1>2
  <2>4. (authority = "available" =>
           IF cataloged THEN Heeded(state.revision) /\ Heeded(Stored) ELSE Heeded(Stored) \/ Untouched)'
    <3> SUFFICES ASSUME authority = "available"
                 PROVE  IF cataloged' THEN Heeded(state.revision)' /\ Heeded(Stored)'
                        ELSE Heeded(Stored)' \/ Untouched'
      BY <1>1
    <3>1. Heeded(state'.revision) => Heeded(state.revision)'
      BY <1>3, <1>16, <1>17 DEF Heeded, Held
    <3>2. Heeded(Stored) => Heeded(Stored)'
      BY <1>3, <1>16, <1>17 DEF Heeded, Held
    <3>3. CASE /\ step["catalog"] \in { "answered", "told" } /\ answer["catalog"].kind = "record"
               /\ state' = Held(answer["catalog"].revision)
      <4>1. Heeded(answer["catalog"].revision) /\ ~ Untouched
        BY <3>3, Calls DEF CatalogsHeeded, Untouched
      <4>2. state'.revision = answer["catalog"].revision
        BY <3>3 DEF Held
      <4>3. Heeded(Stored)
        BY <4>1 DEF CatalogsHeeded
      <4> QED
        BY <3>1, <3>2, <4>1, <4>2, <4>3
    <3>4. CASE state' = state /\ cataloged
      BY <1>5, <3>1, <3>2, <3>4 DEF CatalogsHeeded
    <3>5. CASE state' = state /\ ~ cataloged /\ ~ cataloged'
      <4>1. Untouched => Untouched'
        BY <1>1, <1>2, <1>3, <1>8, <3>5 DEF Untouched
      <4> QED
        BY <3>2, <3>5, <4>1 DEF CatalogsHeeded
    <3>6. CASE state' = state /\ ~ cataloged /\ cataloged'
      <4>1. installed' = h /\ state.document.catalog = h
        BY <3>6
      <4>2. Held(state.revision).document.catalog = h /\ state.revision \in 0..Stored
        BY <1>17, <3>6, <4>1 DEF HeldStands, HeldIsPublished
      <4>3. Heeded(state.revision)'
        <5>1. (Held(state.revision))' = Held(state.revision)
          BY <1>1, <3>6 DEF Held
        <5>2. Held(state.revision)'.document.catalog <= installed'
          BY <1>2, <4>1, <4>2, <5>1
        <5> QED
          BY <5>2 DEF Heeded
      <4>4. Untouched => Heeded(Stored)'
        BY <1>1, <1>2, <1>3, <4>1, <4>2 DEF Heeded, Held, Untouched
      <4> QED
        BY <3>2, <3>6, <4>3, <4>4 DEF CatalogsHeeded
    <3> QED
      BY <3>3, <3>4, <3>5, <3>6
  <2> QED
    BY <2>1, <2>2, <2>3, <2>4 DEF CatalogsHeeded
<1> QED
  BY <1>4, <1>6, <1>7, <1>10, <1>11, <1>12, <1>13, <1>14, <1>15, <1>18

\* The record is asked for after a conflict.
LEMMA ConflictsKeeps ==
  ASSUME WorkspaceInv, NEW call \in Commits, Conflicts(call)
  PROVE  WorkspaceInv'
<1> USE DEF WorkspaceInv
<1>0. PICK x : x = Read(call)
  OBVIOUS
<1>1. /\ call \in Call /\ call # "load"
      /\ x \in MessageType /\ x.by = activation /\ x.call = call /\ x.kind = "read"
  BY <1>0, Calls, WorkspaceBounds
     DEF Read, Message, MessageType, Kinds, NoDocument, Document, Types
<1>2. /\ inbox' = Append(inbox, x) /\ step[call] = "answered" /\ answer[call].kind = "conflict"
      /\ UNCHANGED << published, activation, state, installed, cataloged, read, outcome, reloads,
                      faults, authority >>
      /\ UNCHANGED << canvas, submitted, highest, ended, reported, submits >>
      /\ step' = [step EXCEPT ![call] = "asking"] /\ answer' = [answer EXCEPT ![call] = NoAnswer]
  BY <1>0 DEF Conflicts, Heard, queueVars, authorityVars
<1>3. /\ step' \in [Call -> Steps] /\ step'[call] = "asking"
      /\ \A c \in Call \ { call } : step'[c] = step[c] /\ answer'[c] = answer[c]
      /\ answer' \in [Call -> AnswerType]
  BY <1>1, <1>2 DEF Types, Steps, AnswerType, NoAnswer
<1>4. Awaited(x)'
  BY <1>1, <1>3 DEF Awaited
<1>5. /\ InTransit' /\ inbox' \in Seq(MessageType) /\ Len(inbox) \in Nat
      /\ DOMAIN inbox' = DOMAIN inbox \cup { Len(inbox) + 1 } /\ DOMAIN inbox = 1..Len(inbox)
      /\ \A k \in DOMAIN inbox : inbox'[k] = inbox[k] /\ inbox[k] \in MessageType
      /\ inbox'[Len(inbox) + 1] = x
  BY <1>1, <1>2, <1>3, <1>4, Posted
<1>6. Types'
  BY <1>2, <1>3, <1>5 DEF Types
<1>7. Stored' = Stored /\ \A r : Held(r)' = Held(r)
  BY <1>2 DEF Stored, Held
<1>8. \A c \in Commits : c \in Call /\ (c # call => step'[c] = step[c] /\ answer'[c] = answer[c])
  BY <1>3, Calls
<1>9. authority = "available"
  BY <1>2 DEF StepsMatch
<1>10. StepsMatch'
  <2>1. step'["load"] = step["load"] /\ step["load"] = "done"
    BY <1>1, <1>3, <1>9, Calls DEF StepsMatch
  <2>2. \A k \in DOMAIN inbox' : inbox'[k].by = activation
    BY <1>1, <1>5, <1>9 DEF StepsMatch
  <2>3. step'["catalog"] # "done"
    BY <1>3, <1>8, Calls DEF StepsMatch
  <2>4. \A e \in Edit : step'[e] # "done" <=> step[e] # "done"
    BY <1>2, <1>3, <1>8, Calls
  <2> QED
    BY <1>2, <1>9, <2>1, <2>2, <2>3, <2>4 DEF StepsMatch
<1>11. AnswersTrue'
  BY <1>2, <1>3, <1>7, <1>8 DEF AnswersTrue
<1>12. MigratedFirst'
  BY <1>1, <1>2, <1>5, <1>7 DEF MigratedFirst, Current
<1>13. EditsCarried'
  <2>1. \A e \in Edit : Unsaved(e)' => Unsaved(e)
    BY <1>2, <1>3, <1>8, Calls DEF Unsaved
  <2>2. \A k \in DOMAIN inbox' : inbox'[k].kind = "write" => k \in DOMAIN inbox /\ inbox'[k] = inbox[k]
    BY <1>1, <1>5
  <2> QED
    BY <1>2, <1>7, <2>1, <2>2 DEF EditsCarried
<1>14. CatalogsRise' /\ CatalogsAsTold'
  BY <1>2, <1>3, <1>8, Calls, CatalogsStay
<1>15. CatalogsHeeded'
  <2>1. \A r : Heeded(r)' <=> Heeded(r)
    BY <1>2, <1>3, <1>7, <1>8, Calls DEF Heeded
  <2>2. \A k \in DOMAIN inbox' : inbox'[k].kind = "write" => k \in DOMAIN inbox /\ inbox'[k] = inbox[k]
    BY <1>1, <1>5
  <2>3. \A c \in Commits : step'[c] \in { "answered", "told" } =>
          step[c] = step'[c] /\ answer'[c] = answer[c]
    BY <1>3, <1>8
  <2>4. ~ Untouched
    BY <1>2 DEF Untouched
  <2> QED
    BY <1>2, <1>7, <2>1, <2>2, <2>3, <2>4, Calls DEF CatalogsHeeded
<1>16. HeldStands'
  BY <1>2, <1>7 DEF HeldStands, HeldIsPublished
<1> QED
  BY <1>5, <1>6, <1>10, <1>11, <1>12, <1>13, <1>14, <1>15, <1>16

\* A record that was saved, or read after a conflict, is held.
LEMMA HearsKeeps ==
  ASSUME WorkspaceInv, NEW call \in Commits, Saved(call) \/ Adopt(call)
  PROVE  WorkspaceInv'
<1> USE DEF WorkspaceInv
<1>1. /\ step[call] \in { "answered", "told" } /\ answer[call].kind = "record"
      /\ state' = Held(answer[call].revision) /\ Heard(call)
      /\ UNCHANGED << storeVars, activation, authority, read, reloads, faults >>
  BY DEF Saved, Adopt
<1>2. CASE call = "catalog"
  <2>1. submitted # << >> /\ authority = "available"
    BY <1>1, <1>2, Calls DEF CatalogsRise, StepsMatch
  <2>2. /\ answer' \in [Call -> AnswerType]
        /\ \A c \in Call \ { "catalog" } : answer'[c] = answer[c]
    BY <1>1, <1>2, Calls DEF Heard, Types, AnswerType, NoAnswer
  <2>3. CASE Saved(call)
    <3>1. /\ End(Head(submitted), FALSE) /\ UNCHANGED outcome
          /\ installed' = Head(submitted) /\ cataloged' = TRUE
      BY <1>2, <2>3 DEF Saved, Finish
    <3>2. state'.document.catalog = Head(submitted)
      BY <1>1, <1>2, <2>3 DEF Saved, CatalogsHeeded
    <3> QED
      BY <1>1, <1>2, <2>1, <2>2, <3>1, <3>2, CatalogEndsKeeps
  <2>4. CASE Adopt(call)
    <3>1. /\ End(Head(submitted), TRUE) /\ UNCHANGED outcome /\ step["catalog"] = "told"
          /\ UNCHANGED << installed, cataloged >>
      BY <1>2, <2>4 DEF Adopt, Finish
    <3> QED
      BY <1>1, <1>2, <2>1, <2>2, <3>1, CatalogEndsKeeps
  <2> QED
    BY <2>3, <2>4
<1>3. CASE call # "catalog"
  <2>1. call \in Edit
    BY <1>3 DEF Commits
  <2>2. CASE Saved(call)
    <3>1. /\ Tell(call, "applied") /\ step[call] = "answered"
          /\ UNCHANGED << queueVars, installed, cataloged >>
      BY <1>3, <2>2 DEF Saved, Finish
    <3> QED
      BY <1>1, <2>1, <3>1, EditEndsKeeps
  <2>3. CASE Adopt(call)
    <3>1. /\ Tell(call, "conflict") /\ step[call] = "told"
          /\ UNCHANGED << queueVars, installed, cataloged >>
      BY <1>3, <2>3 DEF Adopt, Finish
    <3> QED
      BY <1>1, <2>1, <3>1, EditEndsKeeps
  <2> QED
    BY <2>2, <2>3
<1> QED
  BY <1>2, <1>3

\* A write or a read that failed changes nothing of what is held.
LEMMA FailsKeeps ==
  ASSUME WorkspaceInv, NEW call \in Commits, Fails(call)
  PROVE  WorkspaceInv'
<1> USE DEF WorkspaceInv
<1>1. /\ step[call] \in { "answered", "told" } /\ answer[call].kind = "failed"
      /\ UNCHANGED << state, installed, cataloged >> /\ Heard(call) /\ Finish(call, "failed")
      /\ UNCHANGED << storeVars, activation, authority, read, reloads, faults >>
  BY DEF Fails, authorityVars
<1>2. CASE call = "catalog"
  <2>1. submitted # << >>
    BY <1>1, <1>2, Calls DEF CatalogsRise
  <2>2. /\ answer' \in [Call -> AnswerType]
        /\ \A c \in Call \ { "catalog" } : answer'[c] = answer[c]
    BY <1>1, <1>2, Calls DEF Heard, Types, AnswerType, NoAnswer
  <2>3. End(Head(submitted), TRUE) /\ UNCHANGED outcome
    BY <1>1, <1>2 DEF Finish
  <2> QED
    BY <1>1, <1>2, <2>1, <2>2, <2>3, CatalogEndsKeeps
<1>3. CASE call # "catalog"
  <2>1. call \in Edit /\ Tell(call, "failed") /\ UNCHANGED queueVars
    BY <1>1, <1>3 DEF Finish, Commits
  <2> QED
    BY <1>1, <2>1, EditEndsKeeps
<1> QED
  BY <1>2, <1>3

-----------------------------------------------------------------------------
(***************************************************************************)
(* The steps of the webview.                                               *)
(***************************************************************************)

\* A catalog is installed as it is, sent, or reported when there is no storage.
LEMMA ReconcileKeeps ==
  ASSUME WorkspaceInv, Reconcile
  PROVE  WorkspaceInv'
<1> USE DEF WorkspaceInv
<1> DEFINE h == Head(submitted)
           unchanged == state.document.catalog = h /\ Reconciled(h) = state.document
<1>1. /\ submitted # << >> /\ step["catalog"] = "idle"
      /\ UNCHANGED << published, activation, authority, state, answer, read, outcome, reloads, faults >>
  BY DEF Reconcile
<1>2. h \in 1..MaxCatalog
  <2>1. submitted \in Seq(1..MaxCatalog)
    BY DEF Types
  <2> QED
    BY <1>1, <2>1, TailFacts
<1>3. state.document \in Document /\ state.revision \in 0..Stored
      /\ Held(state.revision).document = state.document
  BY HeldFacts DEF Types, HeldStands, HeldIsPublished, Stored
<1>4. CASE unchanged /\ End(h, FALSE) /\ UNCHANGED inbox
           /\ IF cataloged THEN UNCHANGED << installed, cataloged >>
              ELSE installed' = h /\ cataloged' = TRUE
  <2>1. state.revision # 0
    BY <1>2, <1>3, <1>4, Calls DEF Held, NoDocument
  <2>2. authority = "available"
    BY <2>1 DEF StepsMatch
  <2>3. cataloged => h <= installed
    BY <1>1, <1>3, <1>4, <2>2 DEF CatalogsHeeded, Heeded
  <2>4. \/ UNCHANGED << installed, cataloged >> /\ cataloged /\ h <= installed
        \/ installed' = h /\ cataloged' = TRUE /\ state'.document.catalog = h
    BY <1>1, <1>4, <2>3
  <2> QED
    BY <1>1, <1>4, <2>2, <2>4, CatalogEndsKeeps DEF storeVars, Types
<1>5. CASE Send("catalog", Reconciled(h)) /\ UNCHANGED << installed, cataloged, queueVars >>
  <2>1. /\ Reconciled(h) \in Document /\ Reconciled(h).catalog = h
        /\ Reconciled(h).edits = state.document.edits \cup ({ "catalog" } \cap Edit)
    BY <1>2, <1>3, Calls DEF Reconciled, Document
  <2> QED
    BY <1>1, <1>5, <2>1, SendKeeps, Calls DEF authorityVars
<1>6. CASE authority = "unavailable" /\ End(h, TRUE) /\ UNCHANGED << installed, cataloged, inbox >>
  BY <1>1, <1>6, CatalogEndsKeeps DEF storeVars, Types
<1> QED
  BY <1>4, <1>5, <1>6 DEF Reconcile

\* A command is sent, or it ends.
LEMMA EvaluateKeeps ==
  ASSUME WorkspaceInv, NEW e \in Edit, step[e] = "idle", Evaluate(e),
         UNCHANGED << published, activation, authorityVars, queueVars, answer, read, reloads, faults >>
  PROVE  WorkspaceInv'
<1> USE DEF WorkspaceInv
<1>1. CASE Send(e, Edited(e)) /\ UNCHANGED outcome
  <2>1. /\ Edited(e) \in Document /\ Edited(e).catalog = installed
        /\ Edited(e).edits = state.document.edits \cup ({ e } \cap Edit)
    BY DEF Edited, Document, Types
  <2>2. installed <= installed /\ e # "catalog" /\ e \in Commits
    BY Calls DEF Types
  <2> QED
    BY <1>1, <2>1, <2>2, SendKeeps
<1>2. CASE UNCHANGED inbox /\ \E what \in { "refused", "failed" } : Tell(e, what)
  BY <1>2, TellKeeps DEF storeVars
<1> QED
  BY <1>1, <1>2 DEF Evaluate

\* What users and callers do.
LEMMA EditKeeps ==
  ASSUME WorkspaceInv, NEW e \in Edit, Enqueue(e) \/ Inspect(e) \/ Apply(e)
  PROVE  WorkspaceInv'
<1> USE DEF WorkspaceInv
<1>1. CASE Enqueue(e)
  <2>1. canvas' \in Seq(Action)
    BY <1>1, AppendFacts DEF Enqueue, Types
  <2> QED
    BY <1>1, <2>1, QueueKeeps DEF Enqueue, callVars, Types
<1>2. CASE Inspect(e)
  <2>1. read' \in [Request -> Nat]
    BY <1>2 DEF Inspect, Types
  <2> QED
    BY <1>2, <2>1, QueueKeeps DEF Inspect, queueVars, Types
<1>3. CASE Apply(e)
  <2>1. /\ step[e] = "idle" /\ (Evaluate(e) \/ (Tell(e, "conflict") /\ UNCHANGED inbox))
        /\ UNCHANGED << published, activation, authorityVars, queueVars, answer, read, reloads, faults >>
    BY <1>3 DEF Apply
  <2> QED
    BY <2>1, EvaluateKeeps, TellKeeps DEF storeVars
<1> QED
  BY <1>1, <1>2, <1>3

\* What the canvas does.
LEMMA CanvasKeeps ==
  ASSUME WorkspaceInv, Execute \/ Follow
  PROVE  WorkspaceInv'
<1> USE DEF WorkspaceInv
<1>1. canvas # << >> /\ canvas \in Seq(Action)
  BY DEF Execute, Follow, Types
<1>2. CASE Execute
  <2>1. Head(canvas) \in Edit
    BY <1>1, TailFacts, Calls
  <2> QED
    BY <1>2, <2>1, EvaluateKeeps DEF Execute
<1>3. CASE Follow
  <2>1. canvas' \in Seq(Action)
    BY <1>1, <1>3, TailFacts DEF Follow
  <2> QED
    BY <1>3, <2>1, QueueKeeps DEF Follow, callVars, Types
<1> QED
  BY <1>2, <1>3

\* A catalog is submitted.
LEMMA SubmitKeeps ==
  ASSUME WorkspaceInv, NEW c \in 1..MaxCatalog, Submit(c)
  PROVE  WorkspaceInv'
<1>1. /\ c >= highest /\ highest' = c /\ submitted' = Append(submitted, c)
      /\ submits' = submits + 1 /\ UNCHANGED << canvas, step, answer, read, outcome >>
      /\ UNCHANGED << storeVars, activation, authorityVars, ended, reported, reloads, faults >>
  BY DEF Submit, callVars
<1>2. canvas' \in Seq(Action) /\ read' \in [Request -> Nat] /\ submits' \in Nat
  BY <1>1 DEF WorkspaceInv, Types
<1> QED
  BY <1>1, <1>2, QueueKeeps

\* A step that changes nothing.
LEMMA WorkspaceStutters ==
  ASSUME WorkspaceInv, UNCHANGED workspaceVars
  PROVE  WorkspaceInv'
  BY QueueKeeps DEF WorkspaceInv, workspaceVars, storeVars, callVars, authorityVars,
        queueVars, Types

\* A new installation, or one of an earlier version, satisfies the invariant.
LEMMA WorkspaceBegins ==
  ASSUME WorkspaceInit
  PROVE  WorkspaceInv
<1> USE DEF WorkspaceInit
<1>1. NoDocument \in Document /\ MaxCatalog \in Nat
  BY Calls DEF NoDocument, Document
<1>2. Held(0) = [revision |-> 0, document |-> NoDocument]
  BY DEF Held
<1>3. published \in Seq(Record) /\ (Stored = 0 \/ Stored = 1) /\ DOMAIN published = 1..Stored
      /\ \A r \in DOMAIN published : published[r].document = NoDocument
  <2>0. PICK x : x = [document |-> NoDocument, current |-> FALSE]
    OBVIOUS
  <2>1. x \in Record /\ x.document = NoDocument
    BY <1>1, <2>0 DEF Record
  <2>2. CASE published = << >>
    BY <2>2 DEF Stored
  <2>3. CASE published = << x >>
    BY <2>1, <2>3 DEF Stored
  <2> QED
    BY <2>0, <2>2, <2>3
<1>4. Types
  <2>1. activation \in Nat /\ activation = reloads /\ reloads \in Nat /\ faults \in Nat /\ submits \in Nat
    OBVIOUS
  <2>2. inbox \in Seq(MessageType) /\ canvas \in Seq(Action) /\ submitted \in Seq(1..MaxCatalog)
    OBVIOUS
  <2>3. state \in [revision : Nat, document : Document]
    BY <1>1, <1>2
  <2>4. installed \in 0..MaxCatalog /\ highest \in 0..MaxCatalog
    BY <1>1
  <2>6. cataloged \in BOOLEAN
    OBVIOUS
  <2>5. step \in [Call -> Steps] /\ answer \in [Call -> AnswerType] /\ outcome \in [Edit -> Outcomes]
        /\ read \in [Request -> Nat]
    BY DEF Steps, AnswerType, NoAnswer, Outcomes
  <2> QED
    BY <1>3, <2>1, <2>2, <2>3, <2>4, <2>5, <2>6 DEF Types
<1>5. InTransit /\ MigratedFirst
  BY <1>3 DEF InTransit, MigratedFirst, Current
<1>6. StepsMatch /\ AnswersTrue
  BY <1>2, Calls DEF StepsMatch, AnswersTrue
<1>7. EditsCarried
  BY <1>3 DEF EditsCarried, NoDocument
<1>8. CatalogsRise /\ CatalogsAsTold
  BY Calls DEF CatalogsRise, CatalogsAsTold
<1>9. CatalogsHeeded
  BY Calls DEF CatalogsHeeded
<1>10. HeldStands
  BY <1>2, <1>3 DEF HeldStands, HeldIsPublished
<1> QED
  BY <1>4, <1>5, <1>6, <1>7, <1>8, <1>9, <1>10 DEF WorkspaceInv

-----------------------------------------------------------------------------
\* Every step keeps the invariant, whatever is served, answered, asked for or reloaded
\* in which order.
LEMMA WorkspaceStep ==
  ASSUME WorkspaceInv, [WorkspaceNext]_workspaceVars
  PROVE  WorkspaceInv'
<1>1. CASE HostServes
  BY <1>1, HostKeeps
<1>2. CASE Opens \/ Reload
  BY <1>2, ActivateKeeps, MigrateKeeps, OpenKeeps, ReloadKeeps DEF Opens
<1>3. CASE \E e \in Edit : Enqueue(e) \/ Inspect(e) \/ Apply(e)
  BY <1>3, EditKeeps
<1>4. CASE \E c \in 1..MaxCatalog : Submit(c)
  BY <1>4, SubmitKeeps
<1>5. CASE Begins
  BY <1>5, CanvasKeeps, ReconcileKeeps DEF Begins
<1>6. CASE \E call \in Commits : Answered(call)
  BY <1>6, HearsKeeps, ConflictsKeeps, FailsKeeps DEF Answered
<1>7. CASE UNCHANGED workspaceVars
  BY <1>7, WorkspaceStutters
<1> QED
  BY <1>1, <1>2, <1>3, <1>4, <1>5, <1>6, <1>7 DEF WorkspaceNext

\* The strengthened invariant of the workspace holds whatever its clients, the host and
\* the user do.
THEOREM WorkspaceInvariant == WorkspaceSpec => []WorkspaceInv
  BY WorkspaceStep, WorkspaceBegins, PTL DEF WorkspaceSpec

\* What callers, the controller and the authority are told is true of the storage: an
\* applied edit is in the record, an edit given up is in none, a catalog whose
\* reconciliation ended is installed or reported, and what is held was published
\* (authority.ts:1353-1470, acceptedCatalogController.ts:54-73).
THEOREM WorkspaceTold == WorkspaceSpec => []ToldTheTruth
<1>1. WorkspaceInv => ToldTheTruth
  BY DEF WorkspaceInv, EditsCarried, Unsaved, HeldStands, ToldTheTruth, EditsAsTold
<1> QED
  BY <1>1, WorkspaceInvariant, PTL

-----------------------------------------------------------------------------
(***************************************************************************)
(* Both.                                                                   *)
(***************************************************************************)

\* Reloads and faults do not exceed the bounds of the model.
Troubles == reloads <= MaxReloads /\ faults <= MaxFaults

\* Only a webview that reloads and a storage that fails add to them, below the bounds.
LEMMA TroublesStep ==
  ASSUME Types, Troubles, [WorkspaceNext]_workspaceVars
  PROVE  Troubles'
<1> USE DEF Troubles
<1>1. CASE HostServes
  BY <1>1, WorkspaceBounds DEF HostServes, ServeRead, ServeWrite, ServeMigrate, ServeFails, Answers, Types
<1>2. CASE Opens
  BY <1>2 DEF Opens, Activate, Loaded
<1>3. CASE Reload
  BY <1>3, WorkspaceBounds DEF Reload, Types
<1>4. CASE \E e \in Edit : Enqueue(e) \/ Inspect(e) \/ Apply(e)
  BY <1>4 DEF Enqueue, Inspect, Apply
<1>5. CASE \E c \in 1..MaxCatalog : Submit(c)
  BY <1>5 DEF Submit
<1>6. CASE Begins
  BY <1>6 DEF Begins, Execute, Follow, Reconcile
<1>7. CASE \E call \in Commits : Answered(call)
  BY <1>7 DEF Answered, Saved, Conflicts, Adopt, Fails
<1>8. CASE UNCHANGED workspaceVars
  BY <1>8 DEF workspaceVars
<1> QED
  BY <1>1, <1>2, <1>3, <1>4, <1>5, <1>6, <1>7, <1>8 DEF WorkspaceNext

\* Every variable of the acceptance of schedules and of a workspace keeps its type, and
\* what is held is a revision that is stored (scheduler/runtime.rs:250-285,
\* authority.ts:75-80).
THEOREM FamiliesTypeCorrect == FamiliesSpec => []TypesOK
<1>1. Init /\ [][Next]_vars => []TypeOK
  BY TypeCorrect DEF Spec
<1>2. WorkspaceInit => Troubles
  BY WorkspaceBounds DEF WorkspaceInit, Troubles
<1>3. WorkspaceInv => Types
  BY DEF WorkspaceInv
<1>4. WorkspaceInit /\ [][WorkspaceNext]_workspaceVars => [](WorkspaceInv /\ Troubles)
  BY <1>2, <1>3, WorkspaceBegins, WorkspaceStep, TroublesStep, PTL
<1>5. WorkspaceInv /\ Troubles => WorkspaceTypeOK
  <2> SUFFICES ASSUME WorkspaceInv, Troubles PROVE WorkspaceTypeOK
    OBVIOUS
  <2>1. \A k \in DOMAIN inbox : inbox[k].call \in Call /\ inbox[k].by \in 0..activation
    <3> TAKE k \in DOMAIN inbox
    <3>1. inbox[k] \in MessageType
      BY ElementFacts DEF WorkspaceInv, Types
    <3>2. inbox[k].by <= activation /\ activation \in Nat
      BY DEF WorkspaceInv, Types, InTransit
    <3> QED
      BY <3>1, <3>2 DEF MessageType
  <2>2. state \in [revision : 0..Stored, document : Document]
    <3>1. state \in [revision : Nat, document : Document] /\ state.revision <= Stored
      BY DEF WorkspaceInv, Types, HeldStands
    <3>2. Stored \in Nat
      BY DEF WorkspaceInv, Types, Stored
    <3>3. state = [revision |-> state.revision, document |-> state.document]
      BY <3>1
    <3> QED
      BY <3>1, <3>2, <3>3
  <2>3. activation = reloads /\ reloads \in 0..MaxReloads /\ faults \in 0..MaxFaults
    BY WorkspaceBounds DEF WorkspaceInv, Types, Troubles
  <2>4. step \in [Call -> Steps] /\ outcome \in [Edit -> Outcomes]
    BY DEF WorkspaceInv, Types
  <2> QED
    BY <2>1, <2>2, <2>3, <2>4 DEF WorkspaceInv, Types, WorkspaceTypeOK, Steps, Outcomes
<1> QED
  BY <1>1, <1>4, <1>5, PTL DEF FamiliesSpec, TypesOK
=============================================================================
