------------------------- MODULE ScheduleAcceptance -------------------------
(***************************************************************************)
(* How SchedulerService accepts schedule definitions                       *)
(* (core/backend/src/scheduler/runtime.rs).                                *)
(*                                                                         *)
(* Every operation that changes the accepted snapshot holds the refresh    *)
(* lock from beginning to end.  It loads a complete candidate (the schedule*)
(* directory and the definitions declared by activations), checks every    *)
(* target against a route table under the bus update lock, and commits.    *)
(* Except in the route-and-schedule transaction the bus lock is released   *)
(* before the commit, so route tables can be published in between.  The    *)
(* directory is edited by anyone at any time: each load finds any content, *)
(* and any load may find sources that do not parse.                        *)
(***************************************************************************)
EXTENDS Naturals, Sequences, FiniteSets

CONSTANTS
  FileDefinition,      \* definitions that are files of the schedule directory
  DeclaredDefinition,  \* definitions declared by activations
  ScheduleId,
  Target,              \* channels and topics
  IdOf,                \* [Definition -> ScheduleId]
  TargetOf,            \* [Definition -> Target]
  MaxTables,           \* model bound on the published tables
  MaxAccepted          \* model bound on the snapshot generation

Definition == FileDefinition \cup DeclaredDefinition

ASSUME AcceptanceAssumption ==
  /\ FileDefinition \cap DeclaredDefinition = {}
  /\ IdOf \in [Definition -> ScheduleId]
  /\ TargetOf \in [Definition -> Target]
  /\ MaxTables \in Nat /\ MaxAccepted \in Nat

VARIABLES
  tables,      \* targets routed by each published table, in order
  announced,   \* generation in the public snapshot watch of the bus
  busHolder,   \* who holds the update lock of the bus across steps
  op,          \* the operation that holds the refresh lock
  generation, accepted, binding,  \* SchedulerState: the accepted snapshot
  overlay,     \* SchedulerState.runtime_definitions
  degraded,    \* SchedulerState.diagnostics is not empty
  watch,       \* the generation sent to the snapshot watch
  retained,    \* StartupState.candidate is present
  startup,     \* its definitions
  waiter,      \* the task that waits for the first routes
  down,        \* the service is shut down
  superseded,  \* history: an explicit refresh has begun
  reconciled   \* history: the table published by the last reconciliation

busVars == << tables, announced, busHolder >>
stateVars == << generation, accepted, binding, overlay, degraded, watch >>
startVars == << retained, startup, waiter, down >>
candidateVars == << retained, startup >>
history == << superseded, reconciled >>
vars == << tables, announced, busHolder, op, generation,
           accepted, binding, overlay, degraded, watch, retained, startup,
           waiter, down, superseded, reconciled >>

Idle == [kind |-> "none", phase |-> "none", defs |-> {}, overlay |-> {},
         binding |-> 0, expected |-> 0]

Kind == {"none", "initial", "refresh", "replace", "reconcile", "withdraw"}
Phase == {"none", "preflight", "announce", "commit", "publish"}

-----------------------------------------------------------------------------
(***************************************************************************)
(* Candidates.                                                             *)
(***************************************************************************)

Routed(g) == IF g = 0 THEN {} ELSE tables[g]

Distinct(defs) == \A d, e \in defs : IdOf[d] = IdOf[e] => d = e

\* The files and the declared definitions share one space of identities; a
\* candidate is valid as a whole or not at all.
Candidates(declared) ==
  {defs \in {files \cup declared : files \in SUBSET FileDefinition} : Distinct(defs)}

AllRouted(defs, table) == \A d \in defs : TargetOf[d] \in table

-----------------------------------------------------------------------------
(***************************************************************************)
(* The environment: route publication by the bridge, the start, the end.   *)
(***************************************************************************)

PublishRoutes(next) ==
  /\ busHolder = "none"
  /\ Len(tables) < MaxTables
  /\ tables' = Append(tables, next)
  /\ busHolder' = "bridge"
  /\ UNCHANGED << announced, op, stateVars, startVars, history >>

\* Mutant: the announcement counts the table that comes next.
AnnounceRoutesAhead ==
  /\ busHolder = "bridge"
  /\ announced' = Len(tables) + 1
  /\ busHolder' = "none"
  /\ UNCHANGED << tables, op, stateVars, startVars, history >>

AnnounceRoutes ==
  /\ busHolder = "bridge"
  /\ announced' = Len(tables)
  /\ busHolder' = "none"
  /\ UNCHANGED << tables, op, stateVars, startVars, history >>

StartInitialRouteRefresh ==
  /\ ~down /\ waiter = "new"
  /\ waiter' = IF retained THEN "waiting" ELSE "done"
  /\ UNCHANGED << busVars, op, stateVars, candidateVars, down, history >>

\* Mutant: only the first publication counts, and it may have been missed.
RoutesReadyFirstOnly ==
  /\ waiter = "waiting"
  /\ announced = 1 \/ down
  /\ waiter' = IF down THEN "done" ELSE "ready"
  /\ UNCHANGED << busVars, op, stateVars, candidateVars, down, history >>

RoutesReady ==
  /\ waiter = "waiting"
  /\ announced > 0 \/ down
  /\ waiter' = IF down THEN "done" ELSE "ready"
  /\ UNCHANGED << busVars, op, stateVars, candidateVars, down, history >>

Shutdown ==
  /\ ~down /\ down' = TRUE
  /\ UNCHANGED << busVars, op, stateVars, candidateVars, waiter, history >>

-----------------------------------------------------------------------------
(***************************************************************************)
(* Operations, from taking the refresh lock.                               *)
(***************************************************************************)

Start(kind, defs, declared, expected) ==
  op' = [kind |-> kind, phase |-> "preflight", defs |-> defs,
         overlay |-> declared, binding |-> 0, expected |-> expected]

DropStartup == retained' = FALSE /\ startup' = {}

\* apply_initial_candidate: the candidate is the one read at construction.
BeginInitial ==
  /\ op = Idle /\ waiter = "ready"
  /\ waiter' = "done"
  /\ DropStartup
  /\ IF retained THEN Start("initial", startup, overlay, 0)
                 ELSE UNCHANGED op
  /\ UNCHANGED << busVars, stateVars, down, history >>

\* Mutant: a refresh reads the directory only.
BeginRefreshForgetsOverlay ==
  /\ op = Idle /\ generation < MaxAccepted
  /\ DropStartup
  /\ superseded' = TRUE
  /\ \/ /\ \E defs \in Candidates({}) : Start("refresh", defs, overlay, 0)
        /\ UNCHANGED degraded
     \/ degraded' = TRUE /\ UNCHANGED op
  /\ UNCHANGED << busVars, generation, accepted, binding, overlay, watch,
                  waiter, down, reconciled >>

BeginRefresh ==
  /\ op = Idle /\ generation < MaxAccepted
  /\ DropStartup
  /\ superseded' = TRUE
  /\ \/ /\ \E defs \in Candidates(overlay) : Start("refresh", defs, overlay, 0)
        /\ UNCHANGED degraded
     \/ degraded' = TRUE /\ UNCHANGED op
  /\ UNCHANGED << busVars, generation, accepted, binding, overlay, watch,
                  waiter, down, reconciled >>

\* replace_runtime_definitions: a rejected candidate is only returned.
BeginReplace(declared) ==
  /\ op = Idle /\ generation < MaxAccepted
  /\ \E defs \in Candidates(declared) : Start("replace", defs, declared, 0)
  /\ UNCHANGED << busVars, stateVars, startVars, history >>

BeginReconcile(expected, declared) ==
  /\ op = Idle /\ generation < MaxAccepted
  /\ \E defs \in Candidates(declared) : Start("reconcile", defs, declared, expected)
  /\ UNCHANGED << busVars, stateVars, startVars, history >>

\* withdraw_schedule: the lease service calls it for schedules that are files.
\* The snapshot is sent to the watch after the state is released.
WithdrawSchedule(id) ==
  /\ op = Idle /\ generation < MaxAccepted
  /\ id \notin {IdOf[d] : d \in overlay}
  /\ DropStartup
  /\ IF \E d \in accepted : IdOf[d] = id
       THEN /\ accepted' = {d \in accepted : IdOf[d] # id}
            /\ generation' = generation + 1
            /\ degraded' = FALSE
            /\ op' = [Idle EXCEPT !.kind = "withdraw", !.phase = "publish"]
       ELSE UNCHANGED << accepted, generation, degraded, op >>
  /\ UNCHANGED << busVars, binding, overlay, watch, waiter, down, history >>

\* The targets are checked, and the successor prepared, under the bus lock.
Preflight ==
  /\ op.phase = "preflight" /\ op.kind # "reconcile"
  /\ busHolder = "none"
  /\ AllRouted(op.defs, Routed(Len(tables)))
  /\ op' = [op EXCEPT !.phase = "commit", !.binding = Len(tables)]
  /\ UNCHANGED << busVars, stateVars, startVars, history >>

\* A target is missing, or a definition has no next occurrence.  Only a
\* refresh and the initial candidate leave diagnostics behind.
PreflightRejects ==
  /\ op.phase = "preflight"
  /\ busHolder = "none"
  /\ op' = Idle
  /\ degraded' = IF op.kind \in {"initial", "refresh"} THEN TRUE ELSE degraded
  /\ UNCHANGED << busVars, generation, accepted, binding, overlay, watch,
                  startVars, history >>

\* Mutant: the targets are checked against the table that is being replaced.
ReconcileRoutesChecksOldTable(next) ==
  /\ op.phase = "preflight" /\ op.kind = "reconcile"
  /\ busHolder = "none"
  /\ op.expected = Len(tables) /\ Len(tables) < MaxTables
  /\ AllRouted(op.defs, Routed(Len(tables)))
  /\ tables' = Append(tables, next)
  /\ busHolder' = "scheduler"
  /\ op' = [op EXCEPT !.phase = "announce", !.binding = Len(tables) + 1]
  /\ reconciled' = Len(tables) + 1
  /\ UNCHANGED << announced, stateVars, startVars, superseded >>

\* reconcile_many_with_scheduler_preflight: the targets are checked against
\* the successor table, which is then published; the bus lock is kept.
ReconcileRoutes(next) ==
  /\ op.phase = "preflight" /\ op.kind = "reconcile"
  /\ busHolder = "none"
  /\ op.expected = Len(tables) /\ Len(tables) < MaxTables
  /\ AllRouted(op.defs, next)
  /\ tables' = Append(tables, next)
  /\ busHolder' = "scheduler"
  /\ op' = [op EXCEPT !.phase = "announce", !.binding = Len(tables) + 1]
  /\ reconciled' = Len(tables) + 1
  /\ UNCHANGED << announced, stateVars, startVars, superseded >>

ReconcileAnnounces ==
  /\ op.phase = "announce"
  /\ announced' = Len(tables)
  /\ op' = [op EXCEPT !.phase = "commit"]
  /\ UNCHANGED << tables, busHolder, stateVars, startVars, history >>

\* Mutant: the commit keeps the route binding of the previous snapshot.
CommitKeepsBinding ==
  /\ op.phase = "commit"
  /\ DropStartup
  /\ generation' = generation + 1
  /\ accepted' = op.defs
  /\ overlay' = op.overlay
  /\ degraded' = FALSE
  /\ op' = [op EXCEPT !.phase = "publish"]
  /\ UNCHANGED << busVars, binding, watch, waiter, down, history >>

CommitCandidate ==
  /\ op.phase = "commit"
  /\ DropStartup
  /\ generation' = generation + 1
  /\ accepted' = op.defs
  /\ binding' = op.binding
  /\ overlay' = op.overlay
  /\ degraded' = FALSE
  /\ op' = [op EXCEPT !.phase = "publish"]
  /\ UNCHANGED << busVars, watch, waiter, down, history >>

\* Mutant: the bus lock of the transaction is not released.
PublishSnapshotKeepsBusLock ==
  /\ op.phase = "publish"
  /\ watch' = generation
  /\ op' = Idle
  /\ UNCHANGED << busVars, generation, accepted, binding,
                  overlay, degraded, startVars, history >>

PublishSnapshot ==
  /\ op.phase = "publish"
  /\ watch' = generation
  /\ op' = Idle
  /\ busHolder' = IF op.kind = "reconcile" THEN "none" ELSE busHolder
  /\ UNCHANGED << tables, announced, generation, accepted, binding,
                  overlay, degraded, startVars, history >>

-----------------------------------------------------------------------------
\* A valid directory is retained as the startup candidate.
Init ==
  /\ tables = << >> /\ announced = 0 /\ busHolder = "none"
  /\ op = Idle
  /\ generation = 0 /\ accepted = {} /\ binding = 0 /\ overlay = {}
  /\ watch = 0
  /\ retained \in BOOLEAN
  /\ startup \in IF retained THEN Candidates({}) ELSE {{}}
  /\ degraded = (retained => startup # {})
  /\ waiter = "new" /\ down = FALSE
  /\ superseded = FALSE /\ reconciled = 0

Operation ==
  \/ BeginInitial
  \/ BeginRefresh
  \/ \E declared \in SUBSET DeclaredDefinition : BeginReplace(declared)
  \/ \E expected \in 0..Len(tables), declared \in SUBSET DeclaredDefinition :
       BeginReconcile(expected, declared)
  \/ \E id \in ScheduleId : WithdrawSchedule(id)

Progress ==
  \/ Preflight \/ PreflightRejects
  \/ \E next \in SUBSET Target : ReconcileRoutes(next)
  \/ ReconcileAnnounces
  \/ CommitCandidate \/ PublishSnapshot

Environment ==
  \/ \E next \in SUBSET Target : PublishRoutes(next)
  \/ AnnounceRoutes
  \/ StartInitialRouteRefresh
  \/ RoutesReady
  \/ Shutdown

Next == Operation \/ Progress \/ Environment

Spec == Init /\ [][Next]_vars

\* The operation that holds the refresh lock is polled until it ends, the bus
\* lock is released by its holder, and the refresh lock is handed over in the
\* order of the requests (tokio's mutex is fair), so the waiter gets its turn.
FairSpec ==
  /\ Spec
  /\ WF_vars(AnnounceRoutes)
  /\ SF_vars(Preflight \/ PreflightRejects)
  /\ WF_vars(ReconcileAnnounces \/ CommitCandidate \/ PublishSnapshot)
  /\ WF_vars(RoutesReady)
  /\ SF_vars(BeginInitial)

-----------------------------------------------------------------------------
(***************************************************************************)
(* Properties.                                                             *)
(***************************************************************************)

OpType == [kind : Kind, phase : Phase, defs : SUBSET Definition,
           overlay : SUBSET DeclaredDefinition, binding : Nat, expected : Nat]

TypeOK ==
  /\ tables \in Seq(SUBSET Target)
  /\ announced \in Nat /\ announced <= Len(tables)
  /\ busHolder \in {"none", "bridge", "scheduler"}
  /\ op \in OpType
  /\ generation \in Nat
  /\ accepted \in SUBSET Definition
  /\ binding \in Nat
  /\ overlay \in SUBSET DeclaredDefinition
  /\ degraded \in BOOLEAN
  /\ watch \in Nat
  /\ retained \in BOOLEAN
  /\ startup \in SUBSET FileDefinition
  /\ waiter \in {"new", "waiting", "ready", "done"}
  /\ down \in BOOLEAN
  /\ superseded \in BOOLEAN
  /\ reconciled \in Nat

\* A committed schedule never targets a route that was not published, and two
\* accepted schedules never share an identity.
AcceptedWasRouted ==
  /\ binding <= Len(tables)
  /\ AllRouted(accepted, Routed(binding))
  /\ Distinct(accepted)

\* Whatever is refreshed, restarted late or withdrawn, the definitions that the
\* live activations declared stay in the accepted snapshot; in particular the
\* candidate read at construction never replaces them.
DeclaredStayAccepted == overlay \subseteq accepted

\* After an explicit refresh the startup candidate is gone for good.
RefreshSupersedesStartup ==
  superseded => ~retained /\ op.kind # "initial"

\* Routes and schedules of one reconciliation are replaced together: once it
\* releases its locks, the accepted snapshot is bound to its table or a later.
ReconciledTogether == op.kind # "reconcile" => binding >= reconciled

\* The watch is behind the state only while the refresh lock is held.
WatchIsCurrent == op.phase # "publish" => watch = generation

\* The strengthening for the proofs.
Prepared ==
  /\ op.phase \in {"announce", "commit"} =>
       /\ op.binding \in binding..Len(tables)
       /\ AllRouted(op.defs, Routed(op.binding))
       /\ op.kind = "reconcile" => op.binding = reconciled
  /\ op.phase \in {"preflight", "announce", "commit"} =>
       /\ Distinct(op.defs)
       /\ op.overlay \subseteq op.defs
  /\ op.phase \in {"preflight", "publish"} => binding >= reconciled
  /\ op.phase = "announce" => op.kind = "reconcile"

LockState ==
  /\ op.kind = "none" => op = Idle
  /\ op.kind # "none" => op.phase # "none"
  /\ op.kind = "reconcile" /\ op.phase # "preflight" <=> busHolder = "scheduler"
  /\ reconciled <= Len(tables)
  /\ op.kind = "initial" /\ op.phase # "publish" => overlay = {}
  /\ retained => overlay = {} /\ Distinct(startup)

AcceptanceInv ==
  /\ TypeOK /\ AcceptedWasRouted /\ DeclaredStayAccepted
  /\ RefreshSupersedesStartup /\ ReconciledTogether /\ WatchIsCurrent
  /\ Prepared /\ LockState

\* The accepted snapshot changes in single generations and its route binding
\* never moves backwards.
GenerationsAreSerial ==
  [][/\ generation' \in {generation, generation + 1}
     /\ accepted' # accepted => generation' = generation + 1
     /\ binding' >= binding]_vars

\* The refresh lock is always released, and the startup candidate is dealt with once the
\* first routes are public: no operation and no startup candidate waits for ever.
AcceptanceSettles == []<>(op = Idle /\ (waiter = "waiting" => announced = 0))

\* Seen from outside, every operation is one step of AcceptedSchedules.
Abstract == INSTANCE AcceptedSchedules
  WITH Definition <- Definition, Target <- Target, IdOf <- IdOf, TargetOf <- TargetOf,
       tables <- tables, generation <- generation, accepted <- accepted,
       binding <- binding
AcceptedSpec == Abstract!Spec
=============================================================================
