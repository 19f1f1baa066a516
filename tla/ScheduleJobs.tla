---------------------------- MODULE ScheduleJobs ----------------------------
(***************************************************************************)
(* The jobs and manual triggers of SchedulerService                        *)
(* (core/backend/src/scheduler/runtime.rs).                                *)
(*                                                                         *)
(* A commit writes the accepted snapshot, then the snapshot watch, then    *)
(* reconciles the jobs: it stops the jobs whose definition is gone or      *)
(* changed and spawns one for every definition without a job.  Jobs and    *)
(* triggers run on other threads: they read the watches and the snapshot   *)
(* at moments of their own, deliver through the bus and record the result  *)
(* only while the definition they hold is accepted.  Stopping a task (a    *)
(* flag and tokio's abort) takes effect where the task next waits.         *)
(*                                                                         *)
(* Clocks are left out: an armed timer fires at any time, every schedule   *)
(* recurs.  A definition is its digest and the file it was read from; the  *)
(* digest does not cover the file.                                         *)
(***************************************************************************)
EXTENDS Naturals, FiniteSets

CONSTANTS
  ScheduleId, Digest, Source,
  None,         \* no definition, or no attempt
  Triggered,    \* model bound: the schedules that are triggered by hand, once
  MaxVersion,   \* model bound on the accepted snapshots
  MaxRoutes     \* model bound on the route publications

Definition == [digest : Digest, source : Source]
Attempt == [def : Definition, delivered : BOOLEAN]

ASSUME JobsAssumption ==
  /\ None \notin Definition /\ None \notin Attempt
  /\ Triggered \subseteq ScheduleId
  /\ MaxVersion \in Nat /\ MaxRoutes \in Nat

\* The job of schedule id spawned by snapshot v is << id, v >>; << id, 0 >> is a
\* manual trigger of schedule id.
JobTask == ScheduleId \X (0..MaxVersion)
IsJob(w) == w[2] # 0

VARIABLES
  version, snapshot,  \* SchedulerState.snapshot, the enabled definitions
  attempt,            \* ScheduleRuntimeState.last_attempt
  available,          \* schedules whose target_availability is Available
  commit,             \* the operation that holds the refresh lock
  seenVersion, watched,  \* the snapshot watch: which snapshot, its content
  jobs,               \* SchedulerJobs.jobs: the snapshot that spawned the job
  down,               \* SchedulerJobs.shutdown
  worker,             \* the tasks
  routed, routeVersion   \* schedules whose target is routed; the route watch

stateVars == << version, snapshot, attempt, available >>
watchVars == << seenVersion, watched >>
jobVars == << jobs, down >>
routeVars == << routed, routeVersion >>
vars == << version, snapshot, attempt, available, commit, seenVersion, watched,
           jobs, down, worker, routed, routeVersion >>

Unused == [pc |-> "unused", def |-> None, seen |-> 0, routesSeen |-> 0,
           ok |-> FALSE, stop |-> FALSE, late |-> 0]

\* Without a prepared candidate.
Phase(phase) == [phase |-> phase, next |-> [id \in ScheduleId |-> None],
                 attempt |-> [id \in ScheduleId |-> None]]

\* definition_matches: the same identity, enabled, with the same digest.
Matches(def, accepted) == accepted # None /\ accepted.digest = def.digest

Set(w, r) == worker' = [worker EXCEPT ![w] = r]

Ended(r) == [r EXCEPT !.pc = "done", !.seen = 0, !.routesSeen = 0, !.ok = FALSE]

\* Pending watch changes; the snapshot watch is polled before the route watch.
SnapshotPending(w) == worker[w].seen # seenVersion
RoutesPending(w) == worker[w].routesSeen # routeVersion
Stopped(w) == worker[w].stop \/ down

-----------------------------------------------------------------------------
(***************************************************************************)
(* Commits, under the refresh lock.                                        *)
(***************************************************************************)

\* Mutant: an attempt is kept by identity, whatever the definition became.
RetainedOfAny(id, def) ==
  IF def # None /\ attempt[id] # None THEN attempt[id] ELSE None

\* The last attempt of an unchanged definition, with its current file.
Retained(id, def) ==
  IF def # None /\ attempt[id] # None /\ snapshot[id] # None /\ Matches(def, snapshot[id])
    THEN [attempt[id] EXCEPT !.def = def]
    ELSE None

\* prepare_scheduler_candidate copies the runtime state; it is written back by
\* the commit.  Every target was routed when the candidate was prepared.
Prepare(next) ==
  /\ commit.phase = "idle" /\ version < MaxVersion
  /\ \A id \in ScheduleId : next[id] # None => id \in routed
  /\ commit' = [phase |-> "prepared", next |-> next,
                attempt |-> [id \in ScheduleId |-> Retained(id, next[id])]]
  /\ UNCHANGED << stateVars, watchVars, jobVars, worker, routeVars >>

Commit ==
  /\ commit.phase = "prepared"
  /\ version' = version + 1
  /\ snapshot' = commit.next
  /\ attempt' = commit.attempt
  /\ available' = {id \in ScheduleId : commit.next[id] # None}
  /\ commit' = Phase("publish")
  /\ UNCHANGED << watchVars, jobVars, worker, routeVars >>

\* Mutant: the watch is written first, the state by a later step.
WithdrawAnnouncedFirst(id) ==
  /\ commit.phase = "idle" /\ version < MaxVersion
  /\ snapshot[id] # None
  /\ seenVersion' = version + 1
  /\ watched' = [snapshot EXCEPT ![id] = None]
  /\ commit' = [Phase("prepared") EXCEPT !.next = [snapshot EXCEPT ![id] = None],
                                        !.attempt = [attempt EXCEPT ![id] = None]]
  /\ UNCHANGED << stateVars, jobVars, worker, routeVars >>

Withdraw(id) ==
  /\ commit.phase = "idle" /\ version < MaxVersion
  /\ snapshot[id] # None
  /\ version' = version + 1
  /\ snapshot' = [snapshot EXCEPT ![id] = None]
  /\ attempt' = [attempt EXCEPT ![id] = None]
  /\ available' = available \ {id}
  /\ commit' = Phase("publish")
  /\ UNCHANGED << watchVars, jobVars, worker, routeVars >>

PublishWatch ==
  /\ commit.phase = "publish"
  /\ seenVersion' = version /\ watched' = snapshot
  /\ commit' = Phase("jobs")
  /\ UNCHANGED << stateVars, jobVars, worker, routeVars >>

Running(id) == jobs[id] # 0 /\ worker[<< id, jobs[id] >>].pc # "done"

Kept(id) ==
  /\ snapshot[id] # None /\ jobs[id] # 0
  /\ Matches(worker[<< id, jobs[id] >>].def, snapshot[id])
  /\ worker[<< id, jobs[id] >>].pc # "done"

\* Mutant: a replaced job is forgotten without being stopped.
ReconcileJobsForgets ==
  /\ commit.phase = "jobs"
  /\ commit' = Phase("idle")
  /\ IF down THEN UNCHANGED << jobs, worker >>
     ELSE /\ jobs' = [id \in ScheduleId |->
               IF snapshot[id] = None THEN 0 ELSE IF Kept(id) THEN jobs[id] ELSE version]
          /\ worker' = [w \in JobTask |->
               IF IsJob(w) /\ w[2] = version /\ snapshot[w[1]] # None /\ ~Kept(w[1])
                 THEN [Unused EXCEPT !.pc = "spawned", !.def = snapshot[w[1]]]
                 ELSE worker[w]]
  /\ UNCHANGED << stateVars, watchVars, down, routeVars >>

\* Mutant: a job whose schedule is still accepted is kept although its
\* definition has changed.
ReconcileJobsById ==
  /\ commit.phase = "jobs"
  /\ commit' = Phase("idle")
  /\ IF down THEN UNCHANGED << jobs, worker >>
     ELSE LET keep(id) == snapshot[id] # None /\ Running(id) IN
          /\ jobs' = [id \in ScheduleId |->
               IF snapshot[id] = None THEN 0 ELSE IF keep(id) THEN jobs[id] ELSE version]
          /\ worker' = [w \in JobTask |->
               IF IsJob(w) /\ w[2] = version /\ snapshot[w[1]] # None /\ ~keep(w[1])
                 THEN [Unused EXCEPT !.pc = "spawned", !.def = snapshot[w[1]]]
               ELSE IF IsJob(w) /\ w[2] = jobs[w[1]] /\ ~keep(w[1])
                 THEN [worker[w] EXCEPT !.stop = TRUE]
               ELSE worker[w]]
  /\ UNCHANGED << stateVars, watchVars, down, routeVars >>

\* Every job whose definition is gone or changed, and every finished job, is
\* stopped and removed; every definition without a job gets one.
ReconcileJobs ==
  /\ commit.phase = "jobs"
  /\ commit' = Phase("idle")
  /\ IF down THEN UNCHANGED << jobs, worker >>
     ELSE /\ jobs' = [id \in ScheduleId |->
               IF snapshot[id] = None THEN 0 ELSE IF Kept(id) THEN jobs[id] ELSE version]
          /\ worker' = [w \in JobTask |->
               IF IsJob(w) /\ w[2] = version /\ snapshot[w[1]] # None /\ ~Kept(w[1])
                 THEN [Unused EXCEPT !.pc = "spawned", !.def = snapshot[w[1]]]
               ELSE IF IsJob(w) /\ w[2] = jobs[w[1]] /\ ~Kept(w[1])
                 THEN [worker[w] EXCEPT !.stop = TRUE]
               ELSE worker[w]]
  /\ UNCHANGED << stateVars, watchVars, down, routeVars >>

Shutdown ==
  /\ ~down /\ down' = TRUE
  /\ jobs' = [id \in ScheduleId |-> 0]
  /\ worker' = [w \in JobTask |->
       IF IsJob(w) /\ w[2] = jobs[w[1]] THEN [worker[w] EXCEPT !.stop = TRUE] ELSE worker[w]]
  /\ UNCHANGED << stateVars, commit, watchVars, routeVars >>

PublishRoutes(next) ==
  /\ routeVersion < MaxRoutes
  /\ routeVersion' = routeVersion + 1
  /\ routed' = next
  /\ UNCHANGED << stateVars, commit, watchVars, jobVars, worker >>

-----------------------------------------------------------------------------
(***************************************************************************)
(* Tasks.  A worker waits in "spawned", "idle", "sending" and "revalidate";*)
(* between "matched" and the record of the result it runs in one poll.     *)
(***************************************************************************)

taskOnly == << version, snapshot, attempt, available, commit, seenVersion, watched,
               jobs, down, routed, routeVersion >>

\* A job whose delivery does not count any more returns; a trigger selects the
\* definition that is accepted now, or fails.
Obsolete(w) ==
  IF IsJob(w) \/ snapshot[w[1]] = None
    THEN Ended(worker[w])
    ELSE [worker[w] EXCEPT !.pc = "idle", !.ok = FALSE, !.def = snapshot[w[1]]]

\* trigger: a disabled or absent schedule is an error.
Trigger(id) ==
  /\ worker[<< id, 0 >>].pc = "unused" /\ snapshot[id] # None
  /\ Set(<< id, 0 >>, [Unused EXCEPT !.pc = "spawned", !.def = snapshot[id]])
  /\ UNCHANGED taskOnly

\* The task subscribes when it first runs: what it missed it will not see.
Subscribe(w) ==
  /\ worker[w].pc = "spawned" /\ ~Stopped(w)
  /\ Set(w, [worker[w] EXCEPT !.pc = "idle", !.seen = seenVersion,
                              !.routesSeen = routeVersion])
  /\ UNCHANGED taskOnly

\* Mutant: a task that waits for a place in a queue is not interrupted.
StopTaskNotSending(w) ==
  /\ worker[w].pc \in {"spawned", "idle", "revalidate"} /\ Stopped(w)
  /\ Set(w, Ended(worker[w]))
  /\ UNCHANGED taskOnly

StopTask(w) ==
  /\ worker[w].pc \in {"spawned", "idle", "sending", "revalidate"} /\ Stopped(w)
  /\ Set(w, Ended(worker[w]))
  /\ UNCHANGED taskOnly

\* A pending send is dropped when a new snapshot arrives.
SeeSnapshot(w) ==
  /\ worker[w].pc \in {"idle", "sending"} /\ ~Stopped(w) /\ SnapshotPending(w)
  /\ IF ~IsJob(w)
       THEN Set(w, [Obsolete(w) EXCEPT !.seen = IF snapshot[w[1]] = None THEN 0 ELSE seenVersion])
     ELSE IF Matches(worker[w].def, watched[w[1]])
       THEN Set(w, [worker[w] EXCEPT !.pc = "idle", !.seen = seenVersion,
                                     !.def = watched[w[1]]])
       ELSE Set(w, Ended(worker[w]))
  /\ UNCHANGED taskOnly

\* The same for routes; a job then checks its target again.
SeeRoutes(w) ==
  /\ worker[w].pc \in {"idle", "sending"}
  /\ ~Stopped(w) /\ ~SnapshotPending(w) /\ RoutesPending(w)
  /\ Set(w, [worker[w] EXCEPT !.routesSeen = routeVersion,
                              !.pc = IF IsJob(w) THEN "revalidate" ELSE "idle"])
  /\ UNCHANGED taskOnly

Revalidate(w) ==
  /\ worker[w].pc = "revalidate" /\ ~Stopped(w)
  /\ Set(w, [worker[w] EXCEPT !.pc = "mark", !.ok = w[1] \in routed])
  /\ UNCHANGED taskOnly

\* mark_route_available, record_runtime_diagnostic.
Mark(w) ==
  /\ worker[w].pc = "mark"
  /\ Set(w, [worker[w] EXCEPT !.pc = "idle", !.ok = FALSE])
  /\ available' = IF snapshot[w[1]] # worker[w].def THEN available
                  ELSE IF worker[w].ok THEN available \cup {w[1]}
                  ELSE available \ {w[1]}
  /\ UNCHANGED << version, snapshot, attempt, commit, watchVars, jobVars, routeVars >>

\* A timer or a trigger starts a delivery: the definition is compared once.
Fire(w) ==
  /\ worker[w].pc = "idle"
  /\ ~Stopped(w) /\ ~SnapshotPending(w) /\ ~RoutesPending(w)
  /\ IF Matches(worker[w].def, snapshot[w[1]])
       THEN Set(w, [worker[w] EXCEPT !.pc = "matched"])
       ELSE Set(w, Obsolete(w))
  /\ UNCHANGED taskOnly

\* The queue of the channel is full: the task waits.
QueueFull(w) ==
  /\ worker[w].pc = "matched" /\ w[1] \in routed
  /\ Set(w, [worker[w] EXCEPT !.pc = "sending"])
  /\ UNCHANGED taskOnly

QueueAdmits(w) ==
  /\ worker[w].pc = "sending"
  /\ ~Stopped(w) /\ ~SnapshotPending(w) /\ ~RoutesPending(w)
  /\ Set(w, [worker[w] EXCEPT !.pc = "admitted"])
  /\ UNCHANGED taskOnly

\* The delivery is enqueued, or fails because the target is not routed.  late
\* counts, for the properties, what a stopped job still enqueues.
EnqueueOccurrence(w) ==
  /\ worker[w].pc \in {"matched", "admitted"}
  /\ LET sent == IF w[1] \in routed THEN 1 ELSE 0 IN
     Set(w, [worker[w] EXCEPT
               !.pc = "sent", !.ok = w[1] \in routed,
               !.late = IF worker[w].stop THEN @ + sent ELSE @])
  /\ UNCHANGED taskOnly

\* Mutant: a failed delivery leaves the availability as it was.
RecordKeepsAvailable(w) ==
  /\ worker[w].pc = "sent"
  /\ IF snapshot[w[1]] = worker[w].def
       THEN /\ attempt' = [attempt EXCEPT ![w[1]] =
                             [def |-> worker[w].def, delivered |-> worker[w].ok]]
            /\ available' = IF worker[w].ok THEN available \cup {w[1]} ELSE available
            /\ Set(w, IF IsJob(w) THEN [worker[w] EXCEPT !.pc = "idle", !.ok = FALSE]
                      ELSE Ended(worker[w]))
       ELSE Set(w, Obsolete(w)) /\ UNCHANGED << attempt, available >>
  /\ UNCHANGED << version, snapshot, commit, watchVars, jobVars, routeVars >>

\* record_delivery: only for the definition that is accepted, file included.
Record(w) ==
  /\ worker[w].pc = "sent"
  /\ IF snapshot[w[1]] = worker[w].def
       THEN /\ attempt' = [attempt EXCEPT ![w[1]] =
                             [def |-> worker[w].def, delivered |-> worker[w].ok]]
            /\ available' = IF worker[w].ok THEN available \cup {w[1]}
                            ELSE available \ {w[1]}
            /\ Set(w, IF IsJob(w) THEN [worker[w] EXCEPT !.pc = "idle", !.ok = FALSE]
                      ELSE Ended(worker[w]))
       ELSE Set(w, Obsolete(w)) /\ UNCHANGED << attempt, available >>
  /\ UNCHANGED << version, snapshot, commit, watchVars, jobVars, routeVars >>

-----------------------------------------------------------------------------
JobsInit ==
  /\ version = 0 /\ snapshot = [id \in ScheduleId |-> None]
  /\ attempt = [id \in ScheduleId |-> None] /\ available = {}
  /\ commit = Phase("idle")
  /\ seenVersion = 0 /\ watched = snapshot
  /\ jobs = [id \in ScheduleId |-> 0] /\ down = FALSE
  /\ worker = [w \in JobTask |-> Unused]
  /\ routed = ScheduleId /\ routeVersion = 0

Committing ==
  \/ \E next \in [ScheduleId -> Definition \cup {None}] : Prepare(next)
  \/ \E id \in ScheduleId : Withdraw(id)
  \/ Commit \/ PublishWatch \/ ReconcileJobs

Task(w) ==
  \/ Subscribe(w) \/ StopTask(w) \/ SeeSnapshot(w) \/ SeeRoutes(w)
  \/ Revalidate(w) \/ Mark(w) \/ Fire(w)
  \/ QueueAdmits(w) \/ EnqueueOccurrence(w) \/ Record(w)

JobsNext ==
  \/ Committing
  \/ Shutdown
  \/ \E next \in SUBSET ScheduleId : PublishRoutes(next)
  \/ \E id \in Triggered : Trigger(id)
  \/ \E w \in JobTask : Task(w) \/ QueueFull(w)

JobsSpec == JobsInit /\ [][JobsNext]_vars

\* Tasks are polled, timers fire, a full queue drains; the holder of the
\* refresh lock finishes its commit.
JobsFairness ==
  /\ WF_vars(Commit \/ PublishWatch \/ ReconcileJobs)
  /\ \A w \in JobTask : WF_vars(Task(w))

-----------------------------------------------------------------------------
(***************************************************************************)
(* Properties.                                                             *)
(***************************************************************************)

Accepted == [ScheduleId -> Definition \cup {None}]
Attempts == [ScheduleId -> Attempt \cup {None}]
WorkerState ==
  [pc : {"unused", "spawned", "idle", "revalidate", "mark", "matched",
         "sending", "admitted", "sent", "done"},
   def : Definition \cup {None}, seen : Nat, routesSeen : Nat,
   ok : BOOLEAN, stop : BOOLEAN, late : Nat]

JobsTypeOK ==
  /\ version \in 0..MaxVersion /\ seenVersion \in 0..version
  /\ snapshot \in Accepted /\ watched \in Accepted
  /\ attempt \in Attempts
  /\ available \in SUBSET ScheduleId
  /\ commit \in [phase : {"idle", "prepared", "publish", "jobs"},
                 next : Accepted, attempt : Attempts]
  /\ jobs \in [ScheduleId -> 0..MaxVersion]
  /\ down \in BOOLEAN
  /\ worker \in [JobTask -> WorkerState]
  /\ routed \in SUBSET ScheduleId /\ routeVersion \in Nat

Live(w) == worker[w].pc \notin {"unused", "done"}

\* Of each schedule at most one job runs unstopped, and it is the one that the
\* service controls: no job escapes a refresh, a withdrawal or the shutdown.
OneOwnedJob ==
  \A w \in JobTask : IsJob(w) /\ Live(w) /\ ~worker[w].stop => jobs[w[1]] = w[2]

\* Outside of a commit the jobs are those of the accepted definitions.
JobsFollowSnapshot ==
  commit.phase \in {"idle", "prepared"} /\ ~down =>
    \A id \in ScheduleId :
      IF snapshot[id] = None THEN jobs[id] = 0
      ELSE jobs[id] # 0 /\ Matches(worker[<< id, jobs[id] >>].def, snapshot[id])

\* The recorded attempt is one of the definition that is accepted now, under
\* the file that declares it now.
LastAttemptIsCurrent ==
  \A id \in ScheduleId : attempt[id] # None => attempt[id].def = snapshot[id]

\* A job that was told to stop enqueues at most the message of the poll that
\* it was in.
StoppedSendsOnce == \A w \in JobTask : worker[w].late <= 1

\* The strengthening for the proofs: a prepared candidate carries attempts of
\* its own definitions, and a late message was the last of its worker.
CandidateAttempts ==
  /\ commit.phase = "prepared" =>
       /\ version < MaxVersion
       /\ \A id \in ScheduleId :
            commit.attempt[id] # None => commit.attempt[id].def = commit.next[id]
  /\ commit.phase \in {"publish", "jobs"} => version # 0

WorkerDefined == \A w \in JobTask : Live(w) => worker[w].def # None

LateIsLast ==
  \A w \in JobTask : worker[w].late # 0 =>
    worker[w].late = 1 /\ worker[w].stop /\ worker[w].pc \in {"sent", "idle", "done"}

JobsInv ==
  /\ JobsTypeOK /\ OneOwnedJob /\ JobsFollowSnapshot /\ LastAttemptIsCurrent
  /\ CandidateAttempts /\ WorkerDefined /\ LateIsLast

\* An accepted schedule has a running job.
AcceptedKeepsRunning ==
  commit.phase \in {"idle", "prepared"} /\ ~down =>
    \A id \in ScheduleId : snapshot[id] # None => Running(id)

\* Every stopped job ends, after a shutdown every job does, and every manual
\* trigger returns: whatever queue is full, snapshot replaced or route gone.  Again
\* and again only jobs are alive that nobody stopped.
TasksEnd ==
  []<>(\A w \in JobTask : Live(w) => IsJob(w) /\ ~ worker[w].stop /\ ~ down)

\* When snapshots and routes stay as they are, the reported availability of a
\* schedule becomes that of its route.
AvailabilityConverges ==
  <>[](commit.phase = "idle" /\ ~down =>
         \A id \in ScheduleId :
           snapshot[id] # None => (id \in available <=> id \in routed))

\* Tasks end, and what is reported of the schedules becomes true.
JobsSettle == TasksEnd /\ AvailabilityConverges
=============================================================================
