-------------------------- MODULE LiveReconciliation --------------------------
(***************************************************************************)
(* How a committed registry revision becomes the served module family.     *)
(*                                                                         *)
(* The native ModuleControlService (module_control/live.rs) commits desired*)
(* state, publishes the revision on a watch channel, and keeps what the    *)
(* frontend reports.  The LiveModuleSupervisor of the webview rereads the  *)
(* whole catalog for each revision frame, and its LivePluginReconciler     *)
(* prepares a private candidate, switches the routes, installs the family  *)
(* and disposes its predecessor.  At its first call in a process it first  *)
(* recovers the family that was applied last.                              *)
(*                                                                         *)
(* The graph of modules that a revision desires is a value of Graph; a     *)
(* build of the host can activate the graphs in Loadable, and the bridge   *)
(* admits those in Routable.  A process incarnation ends with a restart;   *)
(* the registry (history, acceptance, failureLog) outlives it.             *)
(***************************************************************************)
EXTENDS Naturals, Sequences, FiniteSets

CONSTANTS
  Graph,
  InitialGraph,
  MaxRevision,   \* model bound on committed revisions
  MaxTroubles,   \* model bound on failing calls between webview and host,
                 \* restarts of the process and disposals, counted together
  Loadable,      \* of an incarnation: the graphs its build can activate
  Routable       \* the graphs whose routes and schedules the bridge admits

\* What the constants are: the registry begins with a graph that can be desired.
ASSUME ReconciliationAssumption ==
  InitialGraph \in Graph /\ MaxRevision \in Nat \ {0} /\ MaxTroubles \in Nat

Nothing == [revision |-> 0, graph |-> InitialGraph]

VARIABLES
  history,    \* the registry: the graph that each revision desires
  acceptance, \* the registry: the revision and graph applied last, or Nothing
  failureLog, \* the registry: revisions with a recorded failure
  operations, \* revisions that transition_module committed in this process
  notifying,  \* of these, the ones whose send_replace is still to come
  watch,      \* the value of the revision channel
  lowered,    \* history: a send_replace lowered the channel
  written,    \* the registry file changed since its observer last looked
  sent,       \* last_sent of the webview's revision stream
  runtime,    \* the revision of the native runtime snapshot; 0 before one
  failures,   \* reconciliation_failures in memory
  routes,     \* the activation whose routes the bus has; 0 for none
  phase,      \* what the supervisor does
  queue,      \* calls of reconcileLatest: the event's revision, 0 for start's
  event,      \* the call that runs
  catalog,    \* what it read
  target,     \* the desired snapshot that is reconciled
  settled,    \* #highestSettledRevision; 0 for none
  family,     \* the accepted, public family, with the activation that it runs
  previous,   \* the activation to dispose; 0 for none
  live,       \* activations that were made and not deactivated
  reports,    \* events whose observation failure is being reported
  disposing,  \* dispose was called, or start failed
  faults, restarts

registryVars == << history, acceptance, failureLog >>
channelVars == << operations, notifying, watch, lowered >>
streamVars == << sent, queue >>
hostVars == << runtime, failures, routes >>
callVars == << event, catalog, target >>
familyVars == << settled, family, previous, live >>
vars == << registryVars, channelVars, written, streamVars, hostVars, phase, callVars, familyVars,
           reports, disposing, faults, restarts >>

Revision == Len(history)
Troubles == faults + restarts + (IF disposing THEN 1 ELSE 0)
NoFamily == [revision |-> 0, graph |-> InitialGraph, activation |-> 0]

-----------------------------------------------------------------------------
(***************************************************************************)
(* The registry and the revision channel.                                  *)
(***************************************************************************)

\* A transition of the running instance commits the next revision.
Transition(g) ==
  /\ Revision < MaxRevision /\ g # history[Revision]
  /\ history' = Append(history, g)
  /\ operations' = operations \cup {Revision + 1}
  /\ notifying' = notifying \cup {Revision + 1}
  /\ written' = TRUE
  /\ UNCHANGED << acceptance, failureLog, watch, lowered, streamVars, hostVars, phase, callVars,
                  familyVars, reports, disposing, faults, restarts >>

\* Another process installs an artifact or enables a module.
CommitExternally(g) ==
  /\ Revision < MaxRevision
  /\ history' = Append(history, g)
  /\ written' = TRUE
  /\ UNCHANGED << acceptance, failureLog, channelVars, streamVars, hostVars, phase, callVars,
                  familyVars, reports, disposing, faults, restarts >>

\* The transition publishes its revision whatever the channel holds by now.
Notify(r) ==
  /\ r \in notifying
  /\ notifying' = notifying \ {r}
  /\ watch' = r
  /\ lowered' = (lowered \/ r < watch)
  /\ UNCHANGED << registryVars, operations, written, streamVars, hostVars, phase, callVars,
                  familyVars, reports, disposing, faults, restarts >>

\* The file observer publishes the revision that it reads, if it is greater.
FileEvent ==
  /\ written
  /\ written' = FALSE
  /\ watch' = IF Revision > watch THEN Revision ELSE watch
  /\ UNCHANGED << registryVars, operations, notifying, lowered, streamVars, hostVars, phase, callVars,
                  familyVars, reports, disposing, faults, restarts >>

Observing == phase \notin {"off", "gone"}

\* Mutant: a frame that arrives while a call runs is dropped.
SendFrameIfIdle ==
  /\ Observing /\ watch # sent
  /\ sent' = watch
  /\ queue' = IF phase = "idle" THEN Append(queue, watch) ELSE queue
  /\ UNCHANGED << registryVars, channelVars, written, hostVars, phase, callVars, familyVars, reports,
                  disposing, faults, restarts >>

\* The stream sends a value that differs from the one that it sent last; the
\* supervisor answers each frame with a call of reconcileLatest.
SendFrame ==
  /\ Observing /\ watch # sent
  /\ sent' = watch
  /\ queue' = Append(queue, watch)
  /\ UNCHANGED << registryVars, channelVars, written, hostVars, phase, callVars, familyVars, reports,
                  disposing, faults, restarts >>

-----------------------------------------------------------------------------
(***************************************************************************)
(* The supervisor.                                                         *)
(***************************************************************************)

\* The bridge is open and the revision stream observed.
Boot ==
  /\ phase = "off"
  /\ phase' = "open"
  /\ UNCHANGED << registryVars, channelVars, written, streamVars, hostVars, callVars, familyVars,
                  reports, disposing, faults, restarts >>

\* start calls reconcileLatest itself; frames may have been queued before.
StartCall ==
  /\ phase = "open"
  /\ phase' = "idle"
  /\ queue' = IF disposing THEN queue ELSE Append(queue, 0)
  /\ UNCHANGED << registryVars, channelVars, written, sent, hostVars, callVars, familyVars,
                  reports, disposing, faults, restarts >>

\* Calls run one after the other, and return at once when disposed.
Begin ==
  /\ phase = "idle" /\ queue # << >> /\ ~disposing
  /\ phase' = "revision"
  /\ event' = Head(queue) /\ queue' = Tail(queue)
  /\ UNCHANGED << registryVars, channelVars, written, sent, hostVars, catalog, target, familyVars,
                  reports, disposing, faults, restarts >>

\* A call that throws: an event's error is reported beside the queue, the one of
\* start disposes the supervisor.
Throw ==
  /\ phase' = "idle"
  /\ IF event = 0 THEN disposing' = TRUE /\ UNCHANGED reports
     ELSE reports' = reports \cup {event} /\ UNCHANGED disposing

\* The catalog is read by separate queries, not by one transaction: first the
\* revision ...
ReadRevision ==
  /\ phase = "revision"
  /\ phase' = "desired"
  /\ catalog' = [catalog EXCEPT !.revision = Revision]
  /\ UNCHANGED << registryVars, channelVars, written, streamVars, hostVars, event, target, familyVars,
                  reports, disposing, faults, restarts >>

Disagrees(g) == acceptance.revision = catalog.revision /\ acceptance.graph # g

\* The graph that was applied last is recovered when nothing is accepted yet.
Recovers(g) ==
  /\ family = NoFamily /\ acceptance # Nothing
  /\ acceptance.revision < catalog.revision

Snapshot(c, recovery) == [revision |-> c.revision, graph |-> c.graph, recovery |-> recovery]

\* ... then the desired state.
ReadDesired ==
  /\ phase = "desired"
  /\ LET g == history[Revision]
         read == [catalog EXCEPT !.graph = g]
     IN
     /\ catalog' = read
     /\ IF family = NoFamily /\ acceptance # Nothing /\ Disagrees(g)
          THEN Throw /\ UNCHANGED target
          ELSE /\ phase' = "reconcile"
               /\ target' = IF Recovers(g) THEN Snapshot(acceptance, TRUE) ELSE Snapshot(read, FALSE)
               /\ UNCHANGED << reports, disposing >>
  /\ UNCHANGED << registryVars, channelVars, written, streamVars, hostVars, event, familyVars,
                  faults, restarts >>

\* A catalog call fails: the registry was busy, or changed between two queries.
ReadFails ==
  /\ phase \in {"revision", "desired"} /\ Troubles < MaxTroubles
  /\ faults' = faults + 1
  /\ Throw
  /\ UNCHANGED << registryVars, channelVars, written, streamVars, hostVars, callVars, familyVars,
                  restarts >>

\* After the recovered snapshot comes the current one.
Proceed ==
  IF target.recovery
    THEN phase' = "reconcile" /\ target' = Snapshot(catalog, FALSE)
    ELSE phase' = "idle" /\ UNCHANGED target

-----------------------------------------------------------------------------
(***************************************************************************)
(* The reconciler.                                                         *)
(***************************************************************************)

Stale == target.revision < settled \/ target.revision < family.revision
Repeated == target.revision = settled
\* Mutant: a graph that is published once is never replaced.
UnchangedAlways == family # NoFamily
Unchanged == family # NoFamily /\ family.graph = target.graph

Skip ==
  /\ phase = "reconcile" /\ (Stale \/ Repeated)
  /\ Proceed
  /\ UNCHANGED << registryVars, channelVars, written, streamVars, hostVars, event, catalog, familyVars,
                  reports, disposing, faults, restarts >>

\* Mutant: a retained family is not reported.
RetainSilently ==
  /\ phase = "reconcile" /\ ~Stale /\ ~Repeated /\ Unchanged
  /\ Proceed
  /\ family' = [family EXCEPT !.revision = target.revision]
  /\ settled' = target.revision
  /\ UNCHANGED << registryVars, channelVars, written, streamVars, hostVars, event, catalog, previous,
                  live, reports, disposing, faults, restarts >>

\* The same graph under a new revision keeps its activations.
Retain ==
  /\ phase = "reconcile" /\ ~Stale /\ ~Repeated /\ Unchanged
  /\ phase' = "report"
  /\ family' = [family EXCEPT !.revision = target.revision]
  /\ settled' = target.revision
  /\ UNCHANGED << registryVars, channelVars, written, streamVars, hostVars, callVars, previous, live,
                  reports, disposing, faults, restarts >>

\* The candidate activates its own generation of activations, in private.
Prepare ==
  /\ phase = "reconcile" /\ ~Stale /\ ~Repeated /\ ~Unchanged
  /\ IF target.graph \in Loadable[restarts]
       THEN /\ phase' = "publish" /\ live' = live \cup {target.revision}
            /\ UNCHANGED << settled, target >>
       ELSE /\ settled' = target.revision
            /\ IF target.recovery THEN Proceed ELSE phase' = "reject" /\ UNCHANGED target
            /\ UNCHANGED live
  /\ UNCHANGED << registryVars, channelVars, written, streamVars, hostVars, event, catalog, family,
                  previous, reports, disposing, faults, restarts >>

\* Mutant: the candidate of a refused publication stays active.
RefuseKeeping ==
  /\ phase = "publish" /\ target.graph \notin Routable
  /\ settled' = target.revision
  /\ IF target.recovery THEN Proceed ELSE phase' = "reject" /\ UNCHANGED target
  /\ UNCHANGED << live, registryVars, channelVars, written, streamVars, hostVars, event, catalog,
                  family, previous, reports, disposing, faults, restarts >>

\* The bridge refuses the candidate's routes or schedules.
Refuse ==
  /\ phase = "publish" /\ target.graph \notin Routable
  /\ live' = live \ {target.revision}
  /\ settled' = target.revision
  /\ IF target.recovery THEN Proceed ELSE phase' = "reject" /\ UNCHANGED target
  /\ UNCHANGED << registryVars, channelVars, written, streamVars, hostVars, event, catalog,
                  family, previous, reports, disposing, faults, restarts >>

\* Mutant: the predecessor is deactivated before the routes are switched.
SwitchRetired ==
  /\ phase = "publish" /\ target.graph \in Routable
  /\ phase' = "switched"
  /\ routes' = target.revision
  /\ live' = live \ {family.activation}
  /\ UNCHANGED << registryVars, channelVars, written, streamVars, runtime, failures, callVars,
                  settled, family, previous, reports, disposing, faults, restarts >>

\* The bridge switches the routes ...
Switch ==
  /\ phase = "publish" /\ target.graph \in Routable
  /\ phase' = "switched"
  /\ routes' = target.revision
  /\ UNCHANGED << registryVars, channelVars, written, streamVars, runtime, failures, callVars,
                  familyVars, reports, disposing, faults, restarts >>

\* ... and the family becomes public with the receipt.
Install ==
  /\ phase = "switched"
  /\ phase' = "retire"
  /\ previous' = family.activation
  /\ family' = [revision |-> target.revision, graph |-> target.graph, activation |-> target.revision]
  /\ settled' = target.revision
  /\ UNCHANGED << registryVars, channelVars, written, streamVars, hostVars, callVars, live, reports,
                  disposing, faults, restarts >>

\* The predecessor's activations are disposed.
Retire ==
  /\ phase = "retire"
  /\ phase' = "report"
  /\ live' = live \ {previous} /\ previous' = 0
  /\ UNCHANGED << registryVars, channelVars, written, streamVars, hostVars, callVars, settled, family,
                  reports, disposing, faults, restarts >>

-----------------------------------------------------------------------------
(***************************************************************************)
(* Reports to the host, and what an operation shows of them.               *)
(***************************************************************************)

\* publish_frontend_snapshot records the acceptance in the registry ...
RecordAcceptance ==
  /\ phase = "report" /\ runtime <= target.revision
  /\ phase' = "accepted"
  /\ acceptance' = [revision |-> target.revision, graph |-> family.graph]
  /\ written' = TRUE
  /\ UNCHANGED << history, failureLog, channelVars, streamVars, hostVars, callVars, familyVars, reports,
                  disposing, faults, restarts >>

\* ... and then sets the runtime snapshot.
SetRuntime ==
  /\ phase = "accepted"
  /\ runtime' = target.revision
  /\ Proceed
  /\ UNCHANGED << registryVars, channelVars, written, streamVars, failures, routes, event, catalog,
                  familyVars, reports, disposing, faults, restarts >>

ReportFails ==
  /\ phase \in {"report", "reject"} /\ Troubles < MaxTroubles
  /\ faults' = faults + 1
  /\ Throw
  /\ UNCHANGED << registryVars, channelVars, written, streamVars, hostVars, callVars, familyVars,
                  restarts >>

\* report_reconciliation_failure, in the registry and in memory.
RecordFailure(r) ==
  /\ failureLog' = failureLog \cup {r} /\ failures' = failures \cup {r}
  /\ written' = TRUE
  /\ UNCHANGED << history, acceptance, channelVars, streamVars, runtime, routes, event, catalog,
                  familyVars, disposing, faults, restarts >>

ReportRejected ==
  /\ phase = "reject"
  /\ RecordFailure(target.revision)
  /\ Proceed
  /\ UNCHANGED reports

\* The error of a call is recorded under the revision of its event.
ReportObservation(e) ==
  /\ e \in reports
  /\ RecordFailure(e)
  /\ reports' = reports \ {e}
  /\ UNCHANGED << phase, target >>

\* A disposed supervisor reports nothing, and nobody retries a report that fails.
DropReport(e) ==
  /\ e \in reports
  /\ reports' = reports \ {e}
  /\ \/ disposing /\ UNCHANGED faults
     \/ Troubles < MaxTroubles /\ faults' = faults + 1
  /\ UNCHANGED << registryVars, channelVars, written, streamVars, hostVars, phase, callVars,
                  familyVars, disposing, restarts >>

\* Mutant: a snapshot of any revision settles the operation.
StatusOfAny(r) ==
  CASE runtime > 0 -> "succeeded"
    [] runtime = 0 /\ r \in failures -> "failed"
    [] OTHER -> "pending"

\* inspect_operation.
Status(r) ==
  CASE runtime >= r -> "succeeded"
    [] runtime < r /\ r \in failures -> "failed"
    [] OTHER -> "pending"

-----------------------------------------------------------------------------
(***************************************************************************)
(* Disposal and restart.                                                   *)
(***************************************************************************)

RequestDispose ==
  /\ ~disposing /\ phase # "off" /\ Troubles < MaxTroubles
  /\ disposing' = TRUE
  /\ UNCHANGED << registryVars, channelVars, written, streamVars, hostVars, phase, callVars,
                  familyVars, reports, faults, restarts >>

\* Disposal waits for the running call, disposes the family and closes the
\* bridge, which withdraws its routes.
Dispose ==
  /\ disposing /\ phase = "idle"
  /\ phase' = "gone"
  /\ live' = live \ {family.activation} /\ family' = NoFamily /\ routes' = 0
  /\ UNCHANGED << registryVars, channelVars, written, streamVars, runtime, failures, callVars, settled,
                  previous, reports, disposing, faults, restarts >>

\* Mutant: recorded failures are not loaded.
RestartForgetting ==
  /\ Troubles < MaxTroubles
  /\ restarts' = restarts + 1
  /\ operations' = {} /\ notifying' = {} /\ watch' = Revision /\ lowered' = FALSE
  /\ written' = FALSE /\ sent' = 0 /\ queue' = << >>
  /\ runtime' = 0 /\ failures' = {} /\ routes' = 0
  /\ phase' = "off" /\ event' = 0 /\ catalog' = Nothing /\ target' = Snapshot(Nothing, FALSE)
  /\ settled' = 0 /\ family' = NoFamily /\ previous' = 0 /\ live' = {}
  /\ reports' = {} /\ disposing' = FALSE
  /\ UNCHANGED << registryVars, faults >>

\* The process ends at any moment and another incarnation reads the registry.
Restart ==
  /\ Troubles < MaxTroubles
  /\ restarts' = restarts + 1
  /\ operations' = {} /\ notifying' = {} /\ watch' = Revision /\ lowered' = FALSE
  /\ written' = FALSE /\ sent' = 0 /\ queue' = << >>
  /\ runtime' = 0 /\ failures' = failureLog /\ routes' = 0
  /\ phase' = "off" /\ event' = 0 /\ catalog' = Nothing /\ target' = Snapshot(Nothing, FALSE)
  /\ settled' = 0 /\ family' = NoFamily /\ previous' = 0 /\ live' = {}
  /\ reports' = {} /\ disposing' = FALSE
  /\ UNCHANGED << registryVars, faults >>

-----------------------------------------------------------------------------
Init ==
  /\ history = << InitialGraph >> /\ acceptance = Nothing /\ failureLog = {}
  /\ operations = {} /\ notifying = {} /\ watch = 1 /\ lowered = FALSE
  /\ written = FALSE /\ sent = 0 /\ queue = << >>
  /\ runtime = 0 /\ failures = {} /\ routes = 0
  /\ phase = "off" /\ event = 0 /\ catalog = Nothing /\ target = Snapshot(Nothing, FALSE)
  /\ settled = 0 /\ family = NoFamily /\ previous = 0 /\ live = {}
  /\ reports = {} /\ disposing = FALSE
  /\ faults = 0 /\ restarts = 0

Reading == ReadRevision \/ ReadDesired
Reconciling == Skip \/ Retain \/ Prepare \/ Refuse \/ Switch \/ Install \/ Retire
Reporting == RecordAcceptance \/ SetRuntime \/ ReportRejected
Calls == Boot \/ StartCall \/ Begin \/ Reading \/ Reconciling \/ Reporting \/ Dispose
Notifications == FileEvent \/ SendFrame \/ \E r \in notifying : Notify(r)
Reports == \E e \in reports : ReportObservation(e) \/ DropReport(e)
Faults == ReadFails \/ ReportFails

Next ==
  \/ \E g \in Graph : Transition(g) \/ CommitExternally(g)
  \/ Notifications \/ Calls \/ Reports \/ Faults
  \/ RequestDispose \/ Restart

Spec == Init /\ [][Next]_vars

\* What was begun runs on: the supervisor, the channel and its observers.
\* Nobody has to commit, to fail, to dispose or to restart.
Fairness ==
  /\ WF_vars(Calls) /\ WF_vars(FileEvent) /\ WF_vars(SendFrame)
  /\ WF_vars(Reports)
  /\ \A r \in 2..MaxRevision : WF_vars(Notify(r))

FairSpec == Spec /\ Fairness

-----------------------------------------------------------------------------
(***************************************************************************)
(* Properties.                                                             *)
(***************************************************************************)

Snapshots == [revision : 0..MaxRevision, graph : Graph]
Phases == {"off", "open", "idle", "revision", "desired", "reconcile", "publish", "switched", "retire",
           "report", "accepted", "reject", "gone"}

TypeOK ==
  /\ history \in Seq(Graph) /\ Revision \in 1..MaxRevision
  /\ acceptance \in Snapshots /\ acceptance.revision <= Revision
  /\ failureLog \subseteq 1..Revision /\ failures = failureLog
  /\ notifying \subseteq operations /\ operations \subseteq 1..Revision
  /\ watch \in 1..Revision /\ sent \in 0..Revision
  /\ lowered \in BOOLEAN /\ written \in BOOLEAN /\ disposing \in BOOLEAN
  /\ runtime \in 0..acceptance.revision
  /\ routes \in 0..Revision /\ settled \in 0..Revision /\ previous \in 0..Revision
  /\ phase \in Phases /\ queue \in Seq(0..Revision) /\ event \in 0..Revision
  /\ catalog \in Snapshots
  /\ target \in [revision : 0..Revision, graph : Graph, recovery : BOOLEAN]
  /\ family \in [revision : 0..Revision, graph : Graph, activation : 0..Revision]
  /\ live \subseteq 1..Revision /\ reports \subseteq 1..Revision
  /\ faults \in 0..MaxTroubles /\ restarts \in 0..MaxTroubles

\* What the public family and the published routes run on is active: a
\* predecessor is deactivated after its successor is public, a candidate only
\* when it never was.
ServedIsLive ==
  /\ family # NoFamily => family.activation \in live
  /\ routes # 0 => routes \in live

\* Between calls only the accepted family is active, whatever was prepared,
\* refused, replaced or recovered before.
NoOrphans ==
  phase \in {"idle", "gone"} =>
    /\ live = {family.activation} \ {0}
    /\ routes = family.activation

\* What is public is served by an active family, and nothing else stays active.
ServedAndNothingElse == ServedIsLive /\ NoOrphans

\* The public family shows the graph that its revision desires, or one that was
\* desired after it: never what an older revision wanted.
PublicWasDesired ==
  family # NoFamily => \E r \in family.revision..Revision : family.graph = history[r]

\* An operation succeeds when its revision, or a later one, is public.
SuccessIsPublic ==
  phase # "gone" => \A r \in operations : Status(r) = "succeeded" => r <= family.revision

\* What is shown was desired, and what is reported as done is shown.
ShownAndReported == PublicWasDesired /\ SuccessIsPublic

\* While no call fails (a failed one is not repeated), every revision reaches
\* the supervisor in the end: it is applied or rejected, unless a late
\* transition lowered the channel or the supervisor is disposed.
Converges == <>[](settled = Revision \/ lowered \/ phase = "gone" \/ faults # 0)

\* Nor does the host stay behind: it comes to know the revision that is public.
RuntimeCatchesUp == <>[](runtime = family.revision \/ phase = "gone" \/ faults # 0)

\* Desired, settled and reported revision meet.
RevisionsMeet == Converges /\ RuntimeCatchesUp

=============================================================================
