--------------------------- MODULE ScheduleLeases ---------------------------
(***************************************************************************)
(* The leases of activations on schedules: SchedulerLeaseService           *)
(* (core/backend/src/scheduler/leases.rs) between the frontend bridge      *)
(* (core/tauri/src/message_bridge.rs, scheduler.rs), the schedule directory*)
(* and the accepted schedules.                                             *)
(*                                                                         *)
(* A durable lease is a file in the schedule directory, a declared one an  *)
(* entry of the scheduler's overlay.  Leases change under one mutation     *)
(* lock; the user's files, the routes, an explicit refresh and observers do*)
(* not take it.  The bridge looks up a caller's authority before the call  *)
(* waits for the lock.                                                     *)
(*                                                                         *)
(* An operation of the scheduler is one step: it holds the refresh lock and*)
(* replaces the accepted schedules at once (ScheduleAcceptance).  A        *)
(* definition is its schedule and who provides it.                         *)
(***************************************************************************)
EXTENDS Naturals

CONSTANTS
  Activation, ScheduleId, Lease,
  User,        \* the provider of the files that are not lease sources
  None,
  MaxFaults,   \* model bound on failing file operations
  MaxChanges   \* model bound on changes made from outside

Grant == [actor : Activation, id : ScheduleId, declared : BOOLEAN]
Request == [kind : {"register"}, of : ScheduleId] \cup [kind : {"cancel"}, of : Lease]
             \cup [kind : {"observe", "stop"}, of : {None}]

ASSUME LeaseAssumption ==
  /\ User \notin Lease /\ None \notin Lease \cup {User} \cup ScheduleId
  /\ None \notin Grant /\ None \notin Request
  /\ MaxFaults \in Nat /\ MaxChanges \in Nat

VARIABLES
  stage,      \* of an activation: new, admitted by the bridge, retired by a
              \* reconciliation, closing, released, failed, gone with a restart
  request,    \* the authorized call of an activation that waits to run
  op,         \* the operation that holds the mutation lock
  lease,      \* SchedulerLeaseState.leases
  owner,      \* SchedulerLeaseState.schedule_owners
  observers,  \* activations with a delivery observer
  source,     \* lease sources in the schedule directory
  userFiles, broken,  \* the user's files; whether the directory does not load
  overlay,    \* the scheduler's activation-owned definitions
  accepted,   \* the accepted schedules and their providers
  routed,     \* schedules whose target is routed
  stale,      \* history: activations served after their release
  faults, changes

tableVars == << lease, owner >>
diskVars == << source, userFiles, broken >>
schedulerVars == << overlay, accepted, routed >>
boundVars == << faults, changes >>
vars == << stage, request, op, tableVars, observers, diskVars, schedulerVars, stale, boundVars >>

NoLeases == [l \in Lease |-> None]

Idle == [kind |-> "none", pc |-> "idle", actor |-> None, id |-> None, lease |-> None,
         rest |-> {}, failed |-> FALSE, next |-> {}, table |-> NoLeases]

LockFree == op = Idle
Leased(a) == {l \in Lease : lease[l] # None /\ lease[l].actor = a}
Fresh(l) == lease[l] = None /\ source[l] = None

-----------------------------------------------------------------------------
(***************************************************************************)
(* The scheduler.                                                          *)
(***************************************************************************)

Provides(over, p, id) ==
  IF p = User THEN id \in userFiles ELSE source[p] = id \/ over[p] = id

\* The whole candidate is rejected when the directory does not load, when two
\* definitions share their identity, or when one target is not routed.
Valid(over, routes) ==
  /\ ~broken
  /\ \A id \in ScheduleId, p, q \in Lease \cup {User} :
       Provides(over, p, id) /\ Provides(over, q, id) => p = q /\ id \in routes

Built(over) ==
  [id \in ScheduleId |->
     IF \E p \in Lease \cup {User} : Provides(over, p, id)
       THEN CHOOSE p \in Lease \cup {User} : Provides(over, p, id)
       ELSE None]

\* The declared definitions of a lease table.
Declared(table) ==
  [l \in Lease |-> IF table[l] # None /\ table[l].declared THEN table[l].id ELSE None]

Without(ls) == Declared([l \in Lease |-> IF l \in ls THEN None ELSE lease[l]])

\* replace_runtime_definitions, which fails when anything in the directory does.
ReplaceDefinitions(over) ==
  Valid(over, routed) /\ overlay' = over /\ accepted' = Built(over) /\ UNCHANGED routed

WithdrawSchedule(id) ==
  accepted' = [accepted EXCEPT ![id] = None] /\ UNCHANGED << overlay, routed >>

Refresh ==
  /\ Valid(overlay, routed)
  /\ accepted' = Built(overlay)
  /\ UNCHANGED << stage, request, op, tableVars, observers, diskVars, overlay, routed, stale,
                  boundVars >>

-----------------------------------------------------------------------------
(***************************************************************************)
(* The surroundings.                                                       *)
(***************************************************************************)

EditDirectory(files, unloadable) ==
  /\ changes < MaxChanges /\ changes' = changes + 1
  /\ userFiles' = files /\ broken' = unloadable
  /\ UNCHANGED << stage, request, op, tableVars, observers, source, schedulerVars, stale, faults >>

\* Other bridges and host modules register and withdraw routes.
ChangeRoutes(routes) ==
  /\ changes < MaxChanges /\ changes' = changes + 1
  /\ routed' = routes
  /\ UNCHANGED << stage, request, op, tableVars, observers, diskVars, overlay, accepted, stale,
                  faults >>

\* The process ends anywhere; the next one purges the lease sources before it
\* constructs the scheduler, and does not start when it cannot.
Restart ==
  /\ changes < MaxChanges /\ changes' = changes + 1
  /\ stage' = [a \in Activation |-> IF stage[a] = "new" THEN "new" ELSE "gone"]
  /\ request' = [a \in Activation |-> None]
  /\ op' = Idle
  /\ lease' = [l \in Lease |-> None] /\ owner' = [id \in ScheduleId |-> None]
  /\ source' = [l \in Lease |-> None]
  /\ observers' = {} /\ stale' = {}
  /\ overlay' = [l \in Lease |-> None] /\ accepted' = [id \in ScheduleId |-> None]
  /\ UNCHANGED << userFiles, broken, routed, faults >>

RetireSource(l) == source' = [source EXCEPT ![l] = None] /\ UNCHANGED faults

\* The source is renamed and then removed; either may fail.
RetireSourceFails(l) ==
  /\ faults < MaxFaults /\ faults' = faults + 1
  /\ source' \in {source, [source EXCEPT ![l] = None]}

-----------------------------------------------------------------------------
(***************************************************************************)
(* Calls of an activation.                                                 *)
(***************************************************************************)

\* activation_authority: only for an activation of an open bridge.
Authorize(a, r) ==
  /\ stage[a] = "admitted" /\ request[a] = None
  /\ r.kind = "cancel" => r.of \in Leased(a)
  /\ request' = [request EXCEPT ![a] = r]
  /\ UNCHANGED << stage, op, tableVars, observers, diskVars, schedulerVars, stale, boundVars >>

Serve(a, kind) == request[a] # None /\ request[a].kind = kind /\
                  request' = [request EXCEPT ![a] = None]

ServedLate(a) == stale' = IF stage[a] = "admitted" THEN stale ELSE stale \cup {a}

Observe(a) ==
  /\ Serve(a, "observe")
  /\ observers' = observers \cup {a}
  /\ ServedLate(a)
  /\ UNCHANGED << stage, op, tableVars, diskVars, schedulerVars, boundVars >>

StopObserving(a) ==
  /\ Serve(a, "stop")
  /\ observers' = observers \ {a}
  /\ UNCHANGED << stage, op, tableVars, diskVars, schedulerVars, stale, boundVars >>

\* Mutant: only the lease table is searched for the identity.
RegisterUnchecked(a) ==
  /\ LockFree /\ Serve(a, "register")
  /\ LET id == request[a].of IN
     \/ /\ id \in routed
        /\ \E l \in Lease :
             /\ Fresh(l)
             /\ source' = [source EXCEPT ![l] = id]
             /\ op' = [Idle EXCEPT !.kind = "register", !.pc = "refresh", !.actor = a,
                                   !.id = id, !.lease = l]
        /\ UNCHANGED faults
     \/ UNCHANGED << source, op, faults >>
  /\ UNCHANGED << stage, tableVars, observers, userFiles, broken, schedulerVars, stale, changes >>

\* The identity must be free and the target routed; then the source is written.
Register(a) ==
  /\ LockFree /\ Serve(a, "register")
  /\ LET id == request[a].of IN
     \/ /\ owner[id] = None /\ accepted[id] = None /\ id \in routed
        /\ \/ /\ \E l \in Lease :
                   /\ Fresh(l)
                   /\ source' = [source EXCEPT ![l] = id]
                   /\ op' = [Idle EXCEPT !.kind = "register", !.pc = "refresh", !.actor = a,
                                         !.id = id, !.lease = l]
              /\ UNCHANGED faults
           \/ faults < MaxFaults /\ faults' = faults + 1 /\ UNCHANGED << source, op >>
     \/ /\ owner[id] # None \/ accepted[id] # None \/ id \notin routed
        /\ UNCHANGED << source, op, faults >>
  /\ UNCHANGED << stage, tableVars, observers, userFiles, broken, schedulerVars, stale, changes >>

RegisterRefresh ==
  /\ op.pc = "refresh"
  /\ \/ /\ Valid(overlay, routed)
        /\ accepted' = Built(overlay)
        /\ op' = [op EXCEPT !.pc = "insert"]
     \/ /\ ~Valid(overlay, routed)
        /\ op' = [op EXCEPT !.pc = "undo"]
        /\ UNCHANGED accepted
  /\ UNCHANGED << stage, request, tableVars, observers, diskVars, overlay, routed, stale,
                  boundVars >>

RegisterInsert ==
  /\ op.pc = "insert"
  /\ lease' = [lease EXCEPT ![op.lease] = [actor |-> op.actor, id |-> op.id, declared |-> FALSE]]
  /\ owner' = [owner EXCEPT ![op.id] = op.lease]
  /\ ServedLate(op.actor)
  /\ op' = Idle
  /\ UNCHANGED << stage, request, observers, diskVars, schedulerVars, boundVars >>

\* Mutant: a failed registration withdraws nothing.
RegisterUndoSourceOnly ==
  /\ op.pc = "undo"
  /\ RetireSource(op.lease) \/ RetireSourceFails(op.lease)
  /\ op' = Idle
  /\ UNCHANGED << stage, request, tableVars, observers, userFiles, broken, schedulerVars, stale,
                  changes >>

\* An error of the retirement is ignored.
RegisterUndo ==
  /\ op.pc = "undo"
  /\ RetireSource(op.lease) \/ RetireSourceFails(op.lease)
  /\ op' = [op EXCEPT !.pc = "withdraw"]
  /\ UNCHANGED << stage, request, tableVars, observers, userFiles, broken, schedulerVars, stale,
                  changes >>

\* Mutant: a declared lease is cancelled in the table only.
CancelTableOnly(a) ==
  /\ LockFree /\ Serve(a, "cancel")
  /\ LET l == request[a].of
         remove(pc) == op' = [Idle EXCEPT !.kind = "cancel", !.pc = pc, !.actor = a,
                                          !.id = lease[l].id, !.lease = l]
     IN
     \/ /\ l \notin Leased(a)
        /\ UNCHANGED << op, source, overlay, accepted, routed, faults >>
     \/ /\ l \in Leased(a) /\ ~lease[l].declared
        /\ \/ RetireSource(l) /\ remove("withdraw")
           \/ RetireSourceFails(l) /\ UNCHANGED op
        /\ UNCHANGED << overlay, accepted, routed >>
     \/ /\ l \in Leased(a) /\ lease[l].declared
        /\ remove("remove") /\ UNCHANGED << overlay, accepted, routed, source, faults >>
  /\ UNCHANGED << stage, tableVars, observers, userFiles, broken, stale, changes >>

Cancel(a) ==
  /\ LockFree /\ Serve(a, "cancel")
  /\ LET l == request[a].of
         remove(pc) == op' = [Idle EXCEPT !.kind = "cancel", !.pc = pc, !.actor = a,
                                          !.id = lease[l].id, !.lease = l]
     IN
     \/ /\ l \notin Leased(a)
        /\ UNCHANGED << op, source, overlay, accepted, routed, faults >>
     \/ /\ l \in Leased(a) /\ ~lease[l].declared
        /\ \/ RetireSource(l) /\ remove("withdraw")
           \/ RetireSourceFails(l) /\ UNCHANGED op
        /\ UNCHANGED << overlay, accepted, routed >>
     \/ /\ l \in Leased(a) /\ lease[l].declared
        /\ \/ ReplaceDefinitions(Without({l})) /\ remove("remove")
           \/ ~Valid(Without({l}), routed) /\ UNCHANGED << op, overlay, accepted, routed >>
        /\ UNCHANGED << source, faults >>
  /\ UNCHANGED << stage, tableVars, observers, userFiles, broken, stale, changes >>

\* The tail of a failed registration, a cancellation and a release.
Withdraw ==
  /\ op.pc = "withdraw"
  /\ WithdrawSchedule(op.id)
  /\ op' = IF op.kind = "register" THEN Idle ELSE [op EXCEPT !.pc = "remove"]
  /\ UNCHANGED << stage, request, tableVars, observers, diskVars, stale, boundVars >>

\* Mutant: a released lease is still to be released.
RemoveKeepsRest ==
  /\ op.pc = "remove"
  /\ lease' = [lease EXCEPT ![op.lease] = None]
  /\ owner' = [owner EXCEPT ![op.id] = None]
  /\ op' = IF op.kind = "cancel" THEN Idle
           ELSE [op EXCEPT !.pc = "next", !.id = None, !.lease = None]
  /\ UNCHANGED << stage, request, observers, diskVars, schedulerVars, stale, boundVars >>

Remove ==
  /\ op.pc = "remove"
  /\ lease' = [lease EXCEPT ![op.lease] = None]
  /\ owner' = [owner EXCEPT ![op.id] = None]
  /\ op' = IF op.kind = "cancel" THEN Idle
           ELSE [op EXCEPT !.pc = "next", !.id = None, !.lease = None, !.rest = @ \ {op.lease}]
  /\ UNCHANGED << stage, request, observers, diskVars, schedulerVars, stale, boundVars >>

-----------------------------------------------------------------------------
(***************************************************************************)
(* The bridge.                                                             *)
(***************************************************************************)

\* The table of a reconciliation: the durable leases stay, whoever owns them;
\* the declared ones are those of the next activations, under the identity of an
\* equal declaration of the same activation or a new one.
Reconcilable(table, next) ==
  /\ \A l \in Lease :
       IF lease[l] # None /\ ~lease[l].declared THEN table[l] = lease[l]
       ELSE table[l] # None =>
              table[l].declared /\ table[l].actor \in next /\ (table[l] = lease[l] \/ Fresh(l))
  /\ \A l, m \in Lease : table[l] # None /\ table[m] # None /\ l # m => table[l].id # table[m].id

\* Routes and schedules are replaced by one transaction.  Opening a bridge is
\* the same with nothing retired.
Reconcile(next, table, routes) ==
  /\ LockFree /\ next \subseteq {a \in Activation : stage[a] \in {"new", "admitted"}}
  /\ Reconcilable(table, next)
  /\ Valid(Declared(table), routes)
  /\ overlay' = Declared(table) /\ accepted' = Built(Declared(table)) /\ routed' = routes
  /\ op' = [Idle EXCEPT !.kind = "declare", !.pc = "install", !.next = next, !.table = table]
  /\ UNCHANGED << stage, request, tableVars, observers, diskVars, stale, boundVars >>

Owners(table) ==
  [id \in ScheduleId |->
     IF \E l \in Lease : table[l] # None /\ table[l].id = id
       THEN CHOOSE l \in Lease : table[l] # None /\ table[l].id = id
       ELSE None]

\* The table is installed; then the bridge replaces its authorities.
Install ==
  /\ op.pc = "install"
  /\ lease' = op.table /\ owner' = Owners(op.table)
  /\ stage' = [a \in Activation |-> IF a \in op.next THEN "admitted"
                                    ELSE IF stage[a] = "admitted" THEN "retired" ELSE stage[a]]
  /\ op' = Idle
  /\ UNCHANGED << request, observers, diskVars, schedulerVars, stale, boundVars >>

\* A reconciliation that runs is waited for; the bridge is gone before its
\* activations are released one by one.
Close ==
  /\ op.kind # "declare"
  /\ \E a \in Activation : stage[a] = "admitted"
  /\ stage' = [a \in Activation |-> IF stage[a] = "admitted" THEN "closing" ELSE stage[a]]
  /\ UNCHANGED << request, op, tableVars, observers, diskVars, schedulerVars, stale, boundVars >>

\* The declared schedules are replaced first: when that fails nothing is
\* released.
Release(a) ==
  /\ LockFree /\ stage[a] = "closing"
  /\ LET declared == {l \in Leased(a) : lease[l].declared} IN
     \/ /\ \/ declared = {} /\ UNCHANGED schedulerVars
           \/ declared # {} /\ ReplaceDefinitions(Without(declared))
        /\ op' = [Idle EXCEPT !.kind = "release", !.pc = "next", !.actor = a, !.rest = Leased(a)]
        /\ UNCHANGED stage
     \/ /\ declared # {} /\ ~Valid(Without(declared), routed)
        /\ stage' = [stage EXCEPT ![a] = "failed"]
        /\ UNCHANGED << op, schedulerVars >>
  /\ UNCHANGED << request, tableVars, observers, diskVars, stale, boundVars >>

ReleaseNext ==
  /\ op.pc = "next"
  /\ \E l \in op.rest :
       \/ /\ lease[l].declared \/ RetireSource(l)
          /\ lease[l].declared => UNCHANGED << source, faults >>
          /\ op' = [op EXCEPT !.pc = IF lease[l].declared THEN "remove" ELSE "withdraw",
                              !.id = lease[l].id, !.lease = l]
       \/ /\ ~lease[l].declared /\ RetireSourceFails(l)
          /\ op' = [op EXCEPT !.rest = @ \ {l}, !.failed = TRUE]
  /\ UNCHANGED << stage, request, tableVars, observers, userFiles, broken, schedulerVars, stale,
                  changes >>

\* Mutant: a release without errors returns before the observers.
ReleaseEndKeepsObservers ==
  /\ op.pc = "next" /\ op.rest = {}
  /\ stage' = [stage EXCEPT ![op.actor] = IF op.failed THEN "failed" ELSE "released"]
  /\ op' = Idle
  /\ UNCHANGED << observers, request, tableVars, diskVars, schedulerVars, stale, boundVars >>

ReleaseEnd ==
  /\ op.pc = "next" /\ op.rest = {}
  /\ observers' = observers \ {op.actor}
  /\ stage' = [stage EXCEPT ![op.actor] = IF op.failed THEN "failed" ELSE "released"]
  /\ op' = Idle
  /\ UNCHANGED << request, tableVars, diskVars, schedulerVars, stale, boundVars >>

-----------------------------------------------------------------------------
Init ==
  /\ stage = [a \in Activation |-> "new"]
  /\ request = [a \in Activation |-> None]
  /\ op = Idle
  /\ lease = NoLeases /\ owner = [id \in ScheduleId |-> None]
  /\ observers = {}
  /\ source = NoLeases /\ userFiles = {} /\ broken = FALSE
  /\ overlay = NoLeases /\ accepted = [id \in ScheduleId |-> None]
  /\ routed = ScheduleId
  /\ stale = {} /\ faults = 0 /\ changes = 0

Holder ==
  \/ RegisterRefresh \/ RegisterInsert \/ RegisterUndo
  \/ Withdraw \/ Remove \/ Install \/ ReleaseNext \/ ReleaseEnd

Next ==
  \/ Holder
  \/ \E a \in Activation, r \in Request : Authorize(a, r)
  \/ \E a \in Activation :
       Register(a) \/ Cancel(a) \/ Observe(a) \/ StopObserving(a) \/ Release(a)
  \/ \E next \in SUBSET Activation, table \in [Lease -> Grant \cup {None}],
        routes \in SUBSET ScheduleId : Reconcile(next, table, routes)
  \/ Close
  \/ Refresh
  \/ \E files \in SUBSET ScheduleId, unloadable \in BOOLEAN : EditDirectory(files, unloadable)
  \/ \E routes \in SUBSET ScheduleId : ChangeRoutes(routes)
  \/ Restart

Spec == Init /\ [][Next]_vars

-----------------------------------------------------------------------------
(***************************************************************************)
(* Properties.                                                             *)
(***************************************************************************)

Table == [Lease -> Grant \cup {None}]

TypeOK ==
  /\ stage \in [Activation -> {"new", "admitted", "retired", "closing", "released", "failed",
                               "gone"}]
  /\ request \in [Activation -> Request \cup {None}]
  /\ op \in [kind : {"none", "register", "cancel", "declare", "release"},
             pc : {"idle", "refresh", "insert", "undo", "withdraw", "remove", "install", "next"},
             actor : Activation \cup {None}, id : ScheduleId \cup {None},
             lease : Lease \cup {None}, rest : SUBSET Lease, failed : BOOLEAN,
             next : SUBSET Activation, table : Table]
  /\ \A l \in op.rest : lease[l] # None
  /\ lease \in Table /\ owner \in [ScheduleId -> Lease \cup {None}]
  /\ observers \in SUBSET Activation /\ stale \in SUBSET Activation
  /\ source \in [Lease -> ScheduleId \cup {None}] /\ overlay \in [Lease -> ScheduleId \cup {None}]
  /\ userFiles \in SUBSET ScheduleId /\ broken \in BOOLEAN
  /\ accepted \in [ScheduleId -> Lease \cup {User, None}]
  /\ routed \in SUBSET ScheduleId
  /\ faults \in 0..MaxFaults /\ changes \in 0..MaxChanges

\* Between operations the lease table is what the scheduler works with, while
\* no file operation failed: every lease has its source or its overlay entry
\* and its schedule is accepted from there, whatever file the user adds, removes
\* or breaks, whichever routes change and whichever registrations failed.
LeasesAccepted ==
  LockFree /\ faults = 0 =>
    \A l \in Lease : lease[l] # None =>
      /\ accepted[lease[l].id] = l /\ owner[lease[l].id] = l
      /\ IF lease[l].declared THEN overlay[l] = lease[l].id ELSE source[l] = lease[l].id

\* And nothing in the scheduler or the directory belongs to a lease that does
\* not exist: no accepted schedule, no overlay entry, no source, no owner.
NothingWithoutLease ==
  LockFree /\ faults = 0 =>
    /\ \A id \in ScheduleId :
         /\ accepted[id] \in Lease => lease[accepted[id]] # None
         /\ owner[id] # None => lease[owner[id]] # None /\ lease[owner[id]].id = id
    /\ \A l \in Lease : source[l] # None \/ overlay[l] # None => lease[l] # None

\* Leases and scheduler agree, in both directions.
TableAndSchedulerAgree == LeasesAccepted /\ NothingWithoutLease

\* The overlay never differs from the table between operations, even when file
\* operations failed.
OverlayFollowsTable == LockFree => overlay = Declared(lease)

\* A release that returned without an error left nothing of the activation,
\* but what was authorized before and ran after it.
ReleasedOwnsNothing ==
  \A a \in Activation \ stale : stage[a] = "released" => Leased(a) = {} /\ a \notin observers

\* The same without the exception.
ReleasedIsFinal ==
  \A a \in Activation : stage[a] = "released" => Leased(a) = {} /\ a \notin observers

-----------------------------------------------------------------------------
(***************************************************************************)
(* The inductive invariant (ActivationsProofs).                            *)
(***************************************************************************)

\* What an operation that holds the lock knows of the lease table.
Registering ==
  /\ op.kind = "register" /\ op.pc \in {"refresh", "insert", "undo", "withdraw"}
  /\ op.actor \in Activation /\ op.id \in ScheduleId /\ op.lease \in Lease /\ op.rest = {}
  /\ lease[op.lease] = None /\ owner[op.id] = None

Removing ==
  /\ op.pc \in {"withdraw", "remove"} /\ op.lease \in Lease /\ lease[op.lease] # None
  /\ op.id = lease[op.lease].id /\ (op.pc = "withdraw" => ~lease[op.lease].declared)

Cancelling == op.kind = "cancel" /\ op.rest = {} /\ Removing

Releasing ==
  /\ op.kind = "release" /\ op.actor \in Activation
  /\ ~op.failed => Leased(op.actor) \subseteq op.rest
  /\ \/ op.pc = "next" /\ op.lease = None
     \/ op.lease \in op.rest /\ Removing

Declaring ==
  /\ op.kind = "declare" /\ op.pc = "install" /\ op.rest = {} /\ op.lease = None
  /\ \A l \in Lease :
       IF lease[l] # None /\ ~lease[l].declared THEN op.table[l] = lease[l]
       ELSE op.table[l] # None => op.table[l].declared /\ op.table[l].actor \in op.next
  /\ \A l, m \in Lease :
       op.table[l] # None /\ op.table[m] # None /\ l # m => op.table[l].id # op.table[m].id

OpState == op = Idle \/ Registering \/ Cancelling \/ Releasing \/ Declaring

\* The table that the scheduler works with, and the leases that are leaving it.
InEffect == IF op.kind = "declare" THEN op.table ELSE lease
Leaving == op.rest \cup {op.lease}

OverlayState ==
  overlay = Declared([l \in Lease |-> IF l \in Leaving THEN None ELSE InEffect[l]])

OwnersMatch ==
  /\ \A l \in Lease : lease[l] # None => owner[lease[l].id] = l
  /\ \A id \in ScheduleId : owner[id] # None => lease[owner[id]] # None /\ lease[owner[id]].id = id

\* Without a failure: a source belongs to a lease, or to one that is registered.
SourcesMatch ==
  /\ \A l \in Lease : source[l] # None =>
       \/ lease[l] # None /\ ~lease[l].declared /\ source[l] = lease[l].id
       \/ op.pc \in {"refresh", "insert", "undo"} /\ l = op.lease /\ source[l] = op.id
  /\ op.pc \in {"refresh", "insert", "undo"} => source[op.lease] = op.id
  /\ op.pc \in {"withdraw", "remove"} => source[op.lease] = None

AcceptedProvided ==
  \A id \in ScheduleId, p \in Lease : accepted[id] = p =>
    Provides(overlay, p, id) \/ (op.pc = "withdraw" /\ p = op.lease /\ id = op.id)

LeasesHeld ==
  /\ \A l \in Lease \ Leaving : InEffect[l] # None =>
       /\ accepted[InEffect[l].id] = l
       /\ ~InEffect[l].declared => source[l] = InEffect[l].id
  /\ op.pc = "insert" => accepted[op.id] = op.lease

LeasesInv ==
  /\ TypeOK /\ OpState /\ OverlayState /\ OwnersMatch /\ ReleasedOwnsNothing
  /\ faults = 0 => SourcesMatch /\ AcceptedProvided /\ LeasesHeld
=============================================================================
