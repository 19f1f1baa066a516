------------------------- MODULE ScheduleJobsProofs -------------------------
(***************************************************************************)
(* Proofs about ScheduleJobs, for any schedules, digests, files and number *)
(* of snapshots.  JobsInv is inductive.  A step of a task writes the entry *)
(* of one worker and, at most, the runtime state of its schedule: one lemma*)
(* says what such a step must satisfy to preserve JobsInv, and every task  *)
(* action is an instance of it.  The steps of a commit and the shutdown    *)
(* have lemmas of their own.                                               *)
(***************************************************************************)
EXTENDS ScheduleJobs, TLAPS

\* What a step that writes one worker and the runtime state must satisfy.
LEMMA WorkerStep ==
  ASSUME JobsInv, NEW w \in JobTask, NEW r \in WorkerState,
         worker' = [worker EXCEPT ![w] = r],
         UNCHANGED << version, snapshot, commit, seenVersion, watched, jobs, down,
                      routed, routeVersion >>,
         attempt' \in Attempts, available' \in SUBSET ScheduleId,
         \A id \in ScheduleId : attempt'[id] # None => attempt'[id].def = snapshot[id],
         IsJob(w) /\ r.pc \notin {"unused", "done"} /\ ~r.stop => Live(w) /\ ~worker[w].stop,
         IsJob(w) => \/ r.def = worker[w].def
                     \/ r.def.digest = worker[w].def.digest,
         r.pc \notin {"unused", "done"} => r.def # None,
         r.late # 0 => r.late = 1 /\ r.stop /\ r.pc \in {"sent", "idle", "done"}
  PROVE  JobsInv'
<1> USE DEF JobsInv
<1>1. worker' \in [JobTask -> WorkerState]
  BY DEF JobsTypeOK
<1>2. \A x \in JobTask : worker'[x] = IF x = w THEN r ELSE worker[x]
  BY DEF JobsTypeOK
<1>3. JobsTypeOK'
  BY <1>1 DEF JobsTypeOK
<1>4. OneOwnedJob'
  BY <1>2 DEF OneOwnedJob, Live, IsJob
<1>5. JobsFollowSnapshot'
  <2> SUFFICES ASSUME commit.phase \in {"idle", "prepared"}, ~down, NEW id \in ScheduleId,
                      snapshot[id] # None
               PROVE  Matches(worker'[<< id, jobs[id] >>].def, snapshot[id])
    BY DEF JobsFollowSnapshot, Matches
  <2>1. jobs[id] \in 0..MaxVersion /\ jobs[id] # 0
    BY DEF JobsTypeOK, JobsFollowSnapshot
  <2>2. << id, jobs[id] >> \in JobTask /\ IsJob(<< id, jobs[id] >>)
    BY <2>1 DEF JobTask, IsJob
  <2>3. Matches(worker[<< id, jobs[id] >>].def, snapshot[id])
    BY DEF JobsFollowSnapshot
  <2> QED
    BY <1>2, <2>2, <2>3 DEF Matches
<1>6. LastAttemptIsCurrent'
  BY DEF LastAttemptIsCurrent
<1>7. CandidateAttempts'
  BY DEF CandidateAttempts
<1>8. WorkerDefined'
  BY <1>2 DEF WorkerDefined, Live
<1>9. LateIsLast'
  BY <1>2 DEF LateIsLast
<1> QED
  BY <1>3, <1>4, <1>5, <1>6, <1>7, <1>8, <1>9

\* A worker that ended keeps its definition and its stop flag.
LEMMA EndedState ==
  ASSUME NEW q \in WorkerState
  PROVE  /\ Ended(q) \in WorkerState
         /\ Ended(q).pc = "done" /\ Ended(q).def = q.def /\ Ended(q).late = q.late
         /\ Ended(q).stop = q.stop
  BY DEF Ended, WorkerState

\* A worker of the invariant, at one place.
LEMMA WorkerFacts ==
  ASSUME JobsInv, NEW w \in JobTask
  PROVE  /\ worker[w] \in WorkerState
         /\ w[1] \in ScheduleId
         /\ snapshot[w[1]] \in Definition \cup {None}
         /\ watched[w[1]] \in Definition \cup {None}
         /\ Live(w) => worker[w].def \in Definition
         /\ worker[w].late # 0 =>
              worker[w].late = 1 /\ worker[w].stop /\ worker[w].pc \in {"sent", "idle", "done"}
  BY DEF JobsInv, JobsTypeOK, JobTask, Accepted, WorkerState, WorkerDefined, LateIsLast

\* The runtime state is untouched by most steps of a task.
LEMMA QuietWorkerStep ==
  ASSUME JobsInv, NEW w \in JobTask, NEW r \in WorkerState,
         worker' = [worker EXCEPT ![w] = r], UNCHANGED taskOnly,
         IsJob(w) /\ r.pc \notin {"unused", "done"} /\ ~r.stop => Live(w) /\ ~worker[w].stop,
         IsJob(w) => \/ r.def = worker[w].def
                     \/ r.def.digest = worker[w].def.digest,
         r.pc \notin {"unused", "done"} => r.def # None,
         r.late # 0 => r.late = 1 /\ r.stop /\ r.pc \in {"sent", "idle", "done"}
  PROVE  JobsInv'
<1>1. attempt' \in Attempts /\ available' \in SUBSET ScheduleId
        /\ \A id \in ScheduleId : attempt'[id] # None => attempt'[id].def = snapshot[id]
  BY DEF JobsInv, JobsTypeOK, LastAttemptIsCurrent, taskOnly
<1> QED
  BY <1>1, WorkerStep DEF taskOnly

\* A worker whose delivery does not count any more.
LEMMA ObsoleteState ==
  ASSUME JobsInv, NEW w \in JobTask, Live(w)
  PROVE  /\ Obsolete(w) \in WorkerState
         /\ Obsolete(w).late = worker[w].late /\ Obsolete(w).stop = worker[w].stop
         /\ IsJob(w) => Obsolete(w).def = worker[w].def
         /\ Obsolete(w).pc \in {"idle", "done"}
         /\ Obsolete(w).def # None
<1>1. worker[w] \in WorkerState /\ snapshot[w[1]] \in Definition \cup {None}
        /\ worker[w].def # None
  BY WorkerFacts DEF JobsInv, WorkerDefined
<1>2. CASE IsJob(w) \/ snapshot[w[1]] = None
  BY <1>1, <1>2, EndedState DEF Obsolete
<1>3. CASE ~IsJob(w) /\ snapshot[w[1]] # None
  BY <1>1, <1>3 DEF Obsolete, WorkerState
<1> QED
  BY <1>2, <1>3

\* A task that subscribes goes on with the definition it was spawned with.
LEMMA SubscribeStep ==
  ASSUME JobsInv, NEW w \in JobTask, Subscribe(w)
  PROVE  JobsInv'
<1> DEFINE r == [worker[w] EXCEPT !.pc = "idle", !.seen = seenVersion, !.routesSeen = routeVersion]
<1>1. worker[w] \in WorkerState /\ worker[w].def # None
        /\ (worker[w].late # 0 =>
               worker[w].late = 1 /\ worker[w].stop /\ worker[w].pc \in {"sent", "idle", "done"})
  BY WorkerFacts DEF Subscribe, JobsInv, WorkerDefined, Live
<1>2. Live(w) /\ worker' = [worker EXCEPT ![w] = r] /\ UNCHANGED taskOnly
  BY DEF Subscribe, Set, Live
<1>3. r \in WorkerState
  <2>1. seenVersion \in Nat /\ routeVersion \in Nat
    BY JobsAssumption DEF JobsInv, JobsTypeOK
  <2> QED
    BY <1>1, <2>1 DEF WorkerState
<1>4. r.def = worker[w].def /\ r.stop = worker[w].stop
        /\ (r.late # 0 => r.late = 1 /\ r.stop /\ r.pc \in {"sent", "idle", "done"})
  BY <1>1 DEF Subscribe, WorkerState, Stopped
<1>5. IsJob(w) /\ r.pc \notin {"unused", "done"} /\ ~r.stop => Live(w) /\ ~worker[w].stop
  BY <1>2, <1>4
<1> QED
  <2> HIDE DEF r
  <2> QED
    BY <1>1, <1>2, <1>3, <1>4, <1>5, QuietWorkerStep

\* A route change drops a pending send.
LEMMA SeeRoutesStep ==
  ASSUME JobsInv, NEW w \in JobTask, SeeRoutes(w)
  PROVE  JobsInv'
<1> DEFINE r == [worker[w] EXCEPT !.routesSeen = routeVersion,
                              !.pc = IF IsJob(w) THEN "revalidate" ELSE "idle"]
<1>1. worker[w] \in WorkerState /\ worker[w].def # None
        /\ (worker[w].late # 0 =>
               worker[w].late = 1 /\ worker[w].stop /\ worker[w].pc \in {"sent", "idle", "done"})
  BY WorkerFacts DEF SeeRoutes, JobsInv, WorkerDefined, Live
<1>2. Live(w) /\ worker' = [worker EXCEPT ![w] = r] /\ UNCHANGED taskOnly
  BY DEF SeeRoutes, Set, Live
<1>3. r \in WorkerState
  BY <1>1 DEF SeeRoutes, WorkerState, JobsInv, JobsTypeOK
<1>4. r.def = worker[w].def /\ r.stop = worker[w].stop
        /\ (r.late # 0 => r.late = 1 /\ r.stop /\ r.pc \in {"sent", "idle", "done"})
  BY <1>1 DEF SeeRoutes, WorkerState, Stopped
<1>5. IsJob(w) /\ r.pc \notin {"unused", "done"} /\ ~r.stop => Live(w) /\ ~worker[w].stop
  BY <1>2, <1>4
<1> QED
  <2> HIDE DEF r
  <2> QED
    BY <1>1, <1>2, <1>3, <1>4, <1>5, QuietWorkerStep

\* Checking the target of a job again changes nothing yet.
LEMMA RevalidateStep ==
  ASSUME JobsInv, NEW w \in JobTask, Revalidate(w)
  PROVE  JobsInv'
<1> DEFINE r == [worker[w] EXCEPT !.pc = "mark", !.ok = w[1] \in routed]
<1>1. worker[w] \in WorkerState /\ worker[w].def # None
        /\ (worker[w].late # 0 =>
               worker[w].late = 1 /\ worker[w].stop /\ worker[w].pc \in {"sent", "idle", "done"})
  BY WorkerFacts DEF Revalidate, JobsInv, WorkerDefined, Live
<1>2. Live(w) /\ worker' = [worker EXCEPT ![w] = r] /\ UNCHANGED taskOnly
  BY DEF Revalidate, Set, Live
<1>3. r \in WorkerState
  <2>1. CASE w[1] \in routed
    <3>1. r = [worker[w] EXCEPT !.pc = "mark", !.ok = TRUE]
      BY <2>1
    <3> QED
      BY <1>1, <3>1 DEF WorkerState
  <2>2. CASE w[1] \notin routed
    <3>1. (w[1] \in routed) = FALSE
      BY <2>2, SMT
    <3>2. r = [worker[w] EXCEPT !.pc = "mark", !.ok = FALSE]
      BY <3>1, Zenon
    <3> QED
      BY <1>1, <3>2 DEF WorkerState
  <2> QED
    BY <2>1, <2>2
<1>4. r.def = worker[w].def /\ r.stop = worker[w].stop
        /\ (r.late # 0 => r.late = 1 /\ r.stop /\ r.pc \in {"sent", "idle", "done"})
  BY <1>1 DEF Revalidate, WorkerState, Stopped
<1>5. IsJob(w) /\ r.pc \notin {"unused", "done"} /\ ~r.stop => Live(w) /\ ~worker[w].stop
  BY <1>2, <1>4
<1> QED
  <2> HIDE DEF r
  <2> QED
    BY <1>1, <1>2, <1>3, <1>4, <1>5, QuietWorkerStep

\* Waiting for a place in the queue changes nothing.
LEMMA QueueFullStep ==
  ASSUME JobsInv, NEW w \in JobTask, QueueFull(w)
  PROVE  JobsInv'
<1> DEFINE r == [worker[w] EXCEPT !.pc = "sending"]
<1>1. worker[w] \in WorkerState /\ worker[w].def # None
        /\ (worker[w].late # 0 =>
               worker[w].late = 1 /\ worker[w].stop /\ worker[w].pc \in {"sent", "idle", "done"})
  BY WorkerFacts DEF QueueFull, JobsInv, WorkerDefined, Live
<1>2. Live(w) /\ worker' = [worker EXCEPT ![w] = r] /\ UNCHANGED taskOnly
  BY DEF QueueFull, Set, Live
<1>3. r \in WorkerState
  BY <1>1 DEF QueueFull, WorkerState, JobsInv, JobsTypeOK
<1>4. r.def = worker[w].def /\ r.stop = worker[w].stop
        /\ (r.late # 0 => r.late = 1 /\ r.stop /\ r.pc \in {"sent", "idle", "done"})
  BY <1>1 DEF QueueFull, WorkerState, Stopped
<1>5. IsJob(w) /\ r.pc \notin {"unused", "done"} /\ ~r.stop => Live(w) /\ ~worker[w].stop
  BY <1>2, <1>4
<1> QED
  <2> HIDE DEF r
  <2> QED
    BY <1>1, <1>2, <1>3, <1>4, <1>5, QuietWorkerStep

\* Only a task that is not stopped is admitted to the queue.
LEMMA QueueAdmitsStep ==
  ASSUME JobsInv, NEW w \in JobTask, QueueAdmits(w)
  PROVE  JobsInv'
<1> DEFINE r == [worker[w] EXCEPT !.pc = "admitted"]
<1>1. worker[w] \in WorkerState /\ worker[w].def # None
        /\ (worker[w].late # 0 =>
               worker[w].late = 1 /\ worker[w].stop /\ worker[w].pc \in {"sent", "idle", "done"})
  BY WorkerFacts DEF QueueAdmits, JobsInv, WorkerDefined, Live
<1>2. Live(w) /\ worker' = [worker EXCEPT ![w] = r] /\ UNCHANGED taskOnly
  BY DEF QueueAdmits, Set, Live
<1>3. r \in WorkerState
  BY <1>1 DEF QueueAdmits, WorkerState, JobsInv, JobsTypeOK
<1>4. r.def = worker[w].def /\ r.stop = worker[w].stop
        /\ (r.late # 0 => r.late = 1 /\ r.stop /\ r.pc \in {"sent", "idle", "done"})
  BY <1>1 DEF QueueAdmits, WorkerState, Stopped
<1>5. IsJob(w) /\ r.pc \notin {"unused", "done"} /\ ~r.stop => Live(w) /\ ~worker[w].stop
  BY <1>2, <1>4
<1> QED
  <2> HIDE DEF r
  <2> QED
    BY <1>1, <1>2, <1>3, <1>4, <1>5, QuietWorkerStep

\* A stopped task ends where it waits.
LEMMA StopTaskStep ==
  ASSUME JobsInv, NEW w \in JobTask, StopTask(w)
  PROVE  JobsInv'
<1>1. worker[w] \in WorkerState /\ Live(w)
  BY WorkerFacts DEF StopTask, Live
<1>2. worker' = [worker EXCEPT ![w] = Ended(worker[w])] /\ UNCHANGED taskOnly
  BY DEF StopTask, Set
<1>3. worker[w].late # 0 =>
        worker[w].late = 1 /\ worker[w].stop /\ worker[w].pc \in {"sent", "idle", "done"}
  BY WorkerFacts
<1> QED
  BY <1>1, <1>2, <1>3, EndedState, QuietWorkerStep

\* A new snapshot drops the delivery, keeps the job under the new file of an
\* unchanged definition, and makes a trigger select again.
LEMMA SeeSnapshotStep ==
  ASSUME JobsInv, NEW w \in JobTask, SeeSnapshot(w)
  PROVE  JobsInv'
<1>1. worker[w] \in WorkerState /\ Live(w) /\ worker[w].def # None /\ UNCHANGED taskOnly
        /\ watched[w[1]] \in Definition \cup {None} /\ ~worker[w].stop
        /\ worker[w].late = 0 /\ seenVersion \in Nat
  BY WorkerFacts, JobsAssumption DEF SeeSnapshot, Live, JobsInv, WorkerDefined, Stopped, JobsTypeOK
<1>2. CASE ~IsJob(w)
  <2> DEFINE seen == IF snapshot[w[1]] = None THEN 0 ELSE seenVersion
             r == [Obsolete(w) EXCEPT !.seen = seen]
  <2>1. worker' = [worker EXCEPT ![w] = r]
    BY <1>2 DEF SeeSnapshot, Set
  <2>2. seen \in Nat
    BY <1>1
  <2>3. Obsolete(w) \in WorkerState /\ Obsolete(w).late = 0 /\ Obsolete(w).def # None
    BY <1>1, ObsoleteState
  <2>4. r \in WorkerState /\ r.late = 0 /\ r.def # None
    <3> HIDE DEF seen
    <3> QED
      BY <2>2, <2>3 DEF WorkerState
  <2> HIDE DEF r
  <2> QED
    BY <1>1, <1>2, <2>1, <2>4, QuietWorkerStep
<1>3. CASE IsJob(w) /\ Matches(worker[w].def, watched[w[1]])
  <2> DEFINE r == [worker[w] EXCEPT !.pc = "idle", !.seen = seenVersion, !.def = watched[w[1]]]
  <2>1. worker' = [worker EXCEPT ![w] = r]
    BY <1>3 DEF SeeSnapshot, Set
  <2>2. r \in WorkerState /\ r.late = 0 /\ r.def = watched[w[1]] /\ r.stop = worker[w].stop
    BY <1>1 DEF WorkerState
  <2>3. r.def # None /\ r.def.digest = worker[w].def.digest
    BY <1>3, <2>2 DEF Matches
  <2> HIDE DEF r
  <2> QED
    BY <1>1, <2>1, <2>2, <2>3, QuietWorkerStep
<1>4. CASE IsJob(w) /\ ~Matches(worker[w].def, watched[w[1]])
  <2>1. worker' = [worker EXCEPT ![w] = Ended(worker[w])]
    BY <1>4 DEF SeeSnapshot, Set
  <2> QED
    BY <1>1, <2>1, EndedState, QuietWorkerStep
<1> QED
  BY <1>2, <1>3, <1>4

\* A delivery starts only for an unstopped task.
LEMMA FireStep ==
  ASSUME JobsInv, NEW w \in JobTask, Fire(w)
  PROVE  JobsInv'
<1>1. worker[w] \in WorkerState /\ Live(w) /\ worker[w].def # None /\ UNCHANGED taskOnly
        /\ ~worker[w].stop /\ worker[w].late = 0
  BY WorkerFacts DEF Fire, Live, JobsInv, WorkerDefined, Stopped
<1>2. CASE Matches(worker[w].def, snapshot[w[1]])
  <2> DEFINE r == [worker[w] EXCEPT !.pc = "matched"]
  <2>1. worker' = [worker EXCEPT ![w] = r]
    BY <1>2 DEF Fire, Set
  <2>2. r \in WorkerState /\ r.late = 0 /\ r.def = worker[w].def /\ r.stop = worker[w].stop
    BY <1>1 DEF WorkerState
  <2> HIDE DEF r
  <2> QED
    BY <1>1, <2>1, <2>2, QuietWorkerStep
<1>3. CASE ~Matches(worker[w].def, snapshot[w[1]])
  <2>1. worker' = [worker EXCEPT ![w] = Obsolete(w)]
    BY <1>3 DEF Fire, Set
  <2> QED
    BY <1>1, <2>1, ObsoleteState, QuietWorkerStep
<1> QED
  BY <1>2, <1>3

\* Of a stopped task this is the only message: it was matched before the stop.
LEMMA EnqueueStep ==
  ASSUME JobsInv, NEW w \in JobTask, EnqueueOccurrence(w)
  PROVE  JobsInv'
<1>1. worker[w] \in WorkerState /\ Live(w) /\ worker[w].def # None /\ UNCHANGED taskOnly
        /\ worker[w].late = 0
  BY WorkerFacts DEF EnqueueOccurrence, Live, JobsInv, WorkerDefined
<1> DEFINE sent == IF w[1] \in routed THEN 1 ELSE 0
           ok == w[1] \in routed
           late == IF worker[w].stop THEN worker[w].late + sent ELSE worker[w].late
           r == [worker[w] EXCEPT !.pc = "sent", !.ok = ok, !.late = late]
<1>2. worker' = [worker EXCEPT ![w] = r]
  BY DEF EnqueueOccurrence, Set
<1>3. late \in {0, 1} /\ (late # 0 => worker[w].stop)
  BY <1>1 DEF WorkerState
<1>4. r \in WorkerState /\ r.pc = "sent" /\ r.late = late /\ r.def = worker[w].def
        /\ r.stop = worker[w].stop
  <2> DEFINE Result(b) == [worker[w] EXCEPT !.pc = "sent", !.ok = b, !.late = late]
  <2>1. \E b \in BOOLEAN : r = Result(b)
    <3>1. CASE w[1] \in routed
      <4>1. ok = TRUE
        BY <3>1, Zenon
      <4> QED
        BY <4>1, Zenon
    <3>2. CASE w[1] \notin routed
      <4>1. ok = FALSE
        BY <3>2, SMT
      <4> QED
        BY <4>1, Zenon
    <3> QED
      BY <3>1, <3>2
  <2>2. PICK b \in BOOLEAN : r = Result(b)
    BY <2>1
  <2>3. r = [worker[w] EXCEPT !.pc = "sent", !.ok = b, !.late = late]
    BY <2>2, Zenon
  <2>4. worker[w] \in WorkerState /\ late \in Nat
    BY <1>1, <1>3
  <2> HIDE DEF Result, ok, late, r
  <2>5. r \in WorkerState
    BY <2>3, <2>4 DEF WorkerState
  <2>6. r.pc = "sent" /\ r.late = late /\ r.def = worker[w].def /\ r.stop = worker[w].stop
    BY <2>3, <2>4 DEF WorkerState
  <2> QED
    BY <2>5, <2>6
<1> HIDE DEF r, late
<1> QED
  BY <1>1, <1>2, <1>3, <1>4, QuietWorkerStep

\* Marking the availability of a target leaves the attempts alone.
LEMMA MarkStep ==
  ASSUME JobsInv, NEW w \in JobTask, Mark(w)
  PROVE  JobsInv'
<1> DEFINE r == [worker[w] EXCEPT !.pc = "idle", !.ok = FALSE]
<1>1. worker[w] \in WorkerState /\ Live(w) /\ worker[w].def # None /\ worker[w].late = 0
        /\ w[1] \in ScheduleId
  BY WorkerFacts DEF Mark, Live, JobsInv, WorkerDefined
<1>2. worker' = [worker EXCEPT ![w] = r]
  BY DEF Mark, Set
<1>3. r \in WorkerState /\ r.late = 0 /\ r.def = worker[w].def /\ r.stop = worker[w].stop
  BY <1>1 DEF WorkerState
<1>4. attempt' \in Attempts /\ available' \in SUBSET ScheduleId
        /\ \A id \in ScheduleId : attempt'[id] # None => attempt'[id].def = snapshot[id]
  BY <1>1 DEF Mark, JobsInv, JobsTypeOK, LastAttemptIsCurrent
<1>5. UNCHANGED << version, snapshot, commit, seenVersion, watched, jobs, down,
                   routed, routeVersion >>
  BY DEF Mark, watchVars, jobVars, routeVars
<1> HIDE DEF r
<1> QED
  BY <1>1, <1>2, <1>3, <1>4, <1>5, WorkerStep

\* A result is recorded only under the definition that is accepted.
LEMMA RecordStep ==
  ASSUME JobsInv, NEW w \in JobTask, Record(w)
  PROVE  JobsInv'
<1>1. worker[w] \in WorkerState /\ Live(w) /\ worker[w].def \in Definition
        /\ worker[w].def # None /\ w[1] \in ScheduleId
        /\ (worker[w].late # 0 => worker[w].late = 1 /\ worker[w].stop)
  BY WorkerFacts DEF Record, Live, JobsInv, WorkerDefined
<1>2. UNCHANGED << version, snapshot, commit, seenVersion, watched, jobs, down,
                   routed, routeVersion >>
  BY DEF Record, watchVars, jobVars, routeVars
<1>3. CASE snapshot[w[1]] = worker[w].def
  <2> DEFINE a == [def |-> worker[w].def, delivered |-> worker[w].ok]
             r == IF IsJob(w) THEN [worker[w] EXCEPT !.pc = "idle", !.ok = FALSE]
                  ELSE Ended(worker[w])
  <2>1. worker' = [worker EXCEPT ![w] = r] /\ attempt' = [attempt EXCEPT ![w[1]] = a]
          /\ available' \in SUBSET ScheduleId
    BY <1>1, <1>3 DEF Record, Set, JobsInv, JobsTypeOK
  <2>2. a \in Attempt /\ a.def = snapshot[w[1]]
    BY <1>1, <1>3 DEF Attempt, WorkerState
  <2>3. attempt' \in Attempts
          /\ \A id \in ScheduleId : attempt'[id] # None => attempt'[id].def = snapshot[id]
    <3> HIDE DEF a
    <3> QED
      BY <1>1, <2>1, <2>2 DEF JobsInv, JobsTypeOK, Attempts, LastAttemptIsCurrent
  <2>4. r \in WorkerState /\ r.late = worker[w].late /\ r.def = worker[w].def
          /\ r.stop = worker[w].stop /\ r.pc \in {"idle", "done"}
    BY <1>1, EndedState DEF WorkerState
  <2> HIDE DEF r, a
  <2> QED
    BY <1>1, <1>2, <2>1, <2>3, <2>4, WorkerStep
<1>4. CASE snapshot[w[1]] # worker[w].def
  <2>1. worker' = [worker EXCEPT ![w] = Obsolete(w)] /\ UNCHANGED << attempt, available >>
    BY <1>4 DEF Record, Set
  <2>2. attempt' \in Attempts /\ available' \in SUBSET ScheduleId
          /\ \A id \in ScheduleId : attempt'[id] # None => attempt'[id].def = snapshot[id]
    BY <2>1 DEF JobsInv, JobsTypeOK, LastAttemptIsCurrent
  <2>3. Obsolete(w) \in WorkerState /\ Obsolete(w).late = worker[w].late
          /\ Obsolete(w).stop = worker[w].stop /\ Obsolete(w).pc \in {"idle", "done"}
          /\ (IsJob(w) => Obsolete(w).def = worker[w].def) /\ Obsolete(w).def # None
    BY <1>1, ObsoleteState
  <2> QED
    BY <1>1, <1>2, <2>1, <2>2, <2>3, WorkerStep
<1> QED
  BY <1>3, <1>4

\* A trigger starts with an accepted definition.
LEMMA TriggerStep ==
  ASSUME JobsInv, NEW id \in ScheduleId, Trigger(id)
  PROVE  JobsInv'
<1> DEFINE r == [Unused EXCEPT !.pc = "spawned", !.def = snapshot[id]]
<1>1. << id, 0 >> \in JobTask /\ ~IsJob(<< id, 0 >>)
  BY JobsAssumption DEF JobTask, IsJob
<1>2. snapshot[id] \in Definition /\ snapshot[id] # None
  BY DEF Trigger, JobsInv, JobsTypeOK, Accepted
<1>3. worker' = [worker EXCEPT ![<< id, 0 >>] = r] /\ UNCHANGED taskOnly
  BY DEF Trigger, Set
<1>4. r \in WorkerState /\ r.late = 0 /\ r.def = snapshot[id]
  BY <1>2 DEF Unused, WorkerState
<1> HIDE DEF r
<1> QED
  BY <1>1, <1>2, <1>3, <1>4, QuietWorkerStep

\* A candidate carries the attempts of its own definitions.
LEMMA PrepareStep ==
  ASSUME JobsInv, NEW next \in Accepted, Prepare(next)
  PROVE  JobsInv'
<1> DEFINE kept == [id \in ScheduleId |-> Retained(id, next[id])]
<1>1. /\ commit.phase = "idle" /\ version < MaxVersion
      /\ commit' = [phase |-> "prepared", next |-> next, attempt |-> kept]
      /\ UNCHANGED << version, snapshot, attempt, available, seenVersion, watched,
                      jobs, down, worker, routed, routeVersion >>
  BY DEF Prepare, stateVars, watchVars, jobVars, routeVars
<1>2. ASSUME NEW id \in ScheduleId
      PROVE  /\ Retained(id, next[id]) \in Attempt \cup {None}
             /\ Retained(id, next[id]) # None => Retained(id, next[id]).def = next[id]
  <2>1. attempt[id] \in Attempt \cup {None} /\ next[id] \in Definition \cup {None}
    BY DEF JobsInv, JobsTypeOK, Attempts, Accepted
  <2>2. CASE Retained(id, next[id]) = None
    BY <2>2
  <2>3. CASE Retained(id, next[id]) # None
    <3>1. Retained(id, next[id]) = [attempt[id] EXCEPT !.def = next[id]]
            /\ attempt[id] \in Attempt /\ next[id] \in Definition
      BY <2>1, <2>3 DEF Retained
    <3> QED
      BY <3>1 DEF Attempt
  <2> QED
    BY <2>2, <2>3
<1>3. kept \in Attempts /\ \A id \in ScheduleId : kept[id] # None => kept[id].def = next[id]
  BY <1>2 DEF Attempts
<1> HIDE DEF kept
<1>4. JobsTypeOK'
  BY <1>1, <1>3 DEF JobsInv, JobsTypeOK
<1>5. OneOwnedJob'
  BY <1>1 DEF JobsInv, OneOwnedJob, Live, IsJob
<1>6. JobsFollowSnapshot'
  BY <1>1 DEF JobsInv, JobsFollowSnapshot, Matches
<1>7. LastAttemptIsCurrent'
  BY <1>1 DEF JobsInv, LastAttemptIsCurrent
<1>8. CandidateAttempts'
  BY <1>1, <1>3 DEF CandidateAttempts
<1>9. WorkerDefined' /\ LateIsLast'
  BY <1>1 DEF JobsInv, WorkerDefined, LateIsLast, Live
<1> QED
  BY <1>4, <1>5, <1>6, <1>7, <1>8, <1>9 DEF JobsInv

\* A phase without a candidate has the type of the commit variable.
LEMMA PhaseType ==
  ASSUME NEW phase \in {"idle", "prepared", "publish", "jobs"}
  PROVE  /\ Phase(phase) \in [phase : {"idle", "prepared", "publish", "jobs"},
                               next : Accepted, attempt : Attempts]
         /\ Phase(phase).phase = phase
  BY DEF Phase, Accepted, Attempts

\* What the accepted state is replaced by, in a commit or a withdrawal.
LEMMA AcceptStep ==
  ASSUME JobsInv, version < MaxVersion, version' = version + 1,
         commit' = Phase("publish"),
         snapshot' \in Accepted, attempt' \in Attempts, available' \in SUBSET ScheduleId,
         \A id \in ScheduleId : attempt'[id] # None => attempt'[id].def = snapshot'[id],
         UNCHANGED << seenVersion, watched, jobs, down, worker, routed, routeVersion >>
  PROVE  JobsInv'
<1>1. commit'.phase = "publish"
  BY PhaseType
<1>2. version \in Nat /\ version' \in 0..MaxVersion /\ seenVersion \in 0..version'
  BY JobsAssumption DEF JobsInv, JobsTypeOK
<1>3. JobsTypeOK'
  BY <1>2, PhaseType DEF JobsInv, JobsTypeOK
<1>4. OneOwnedJob'
  BY DEF JobsInv, OneOwnedJob, Live, IsJob
<1>5. JobsFollowSnapshot' /\ LastAttemptIsCurrent'
  BY <1>1 DEF JobsFollowSnapshot, LastAttemptIsCurrent
<1>6. CandidateAttempts'
  BY <1>1, <1>2 DEF CandidateAttempts
<1>7. WorkerDefined' /\ LateIsLast'
  BY DEF JobsInv, WorkerDefined, LateIsLast, Live
<1> QED
  BY <1>3, <1>4, <1>5, <1>6, <1>7 DEF JobsInv

\* The prepared candidate is accepted with its own attempts.
LEMMA CommitStep ==
  ASSUME JobsInv, Commit
  PROVE  JobsInv'
<1>1. /\ version < MaxVersion /\ snapshot' = commit.next /\ attempt' = commit.attempt
      /\ snapshot' \in Accepted /\ attempt' \in Attempts
      /\ version' = version + 1 /\ commit' = Phase("publish")
      /\ UNCHANGED << seenVersion, watched, jobs, down, worker, routed, routeVersion >>
  BY DEF Commit, JobsInv, JobsTypeOK, CandidateAttempts, watchVars, jobVars, routeVars
<1>2. available' \in SUBSET ScheduleId
  BY DEF Commit
<1>3. \A id \in ScheduleId : attempt'[id] # None => attempt'[id].def = snapshot'[id]
  BY <1>1 DEF Commit, JobsInv, CandidateAttempts
<1> QED
  BY <1>1, <1>2, <1>3, AcceptStep

\* A withdrawal takes the schedule's attempt along.
LEMMA WithdrawStep ==
  ASSUME JobsInv, NEW id \in ScheduleId, Withdraw(id)
  PROVE  JobsInv'
<1>1. /\ version < MaxVersion /\ version' = version + 1 /\ commit' = Phase("publish")
      /\ snapshot' = [snapshot EXCEPT ![id] = None]
      /\ attempt' = [attempt EXCEPT ![id] = None]
      /\ UNCHANGED << seenVersion, watched, jobs, down, worker, routed, routeVersion >>
  BY DEF Withdraw, watchVars, jobVars, routeVars
<1>2. snapshot' \in Accepted /\ attempt' \in Attempts /\ available' \in SUBSET ScheduleId
  BY <1>1 DEF Withdraw, JobsInv, JobsTypeOK, Accepted, Attempts
<1>3. \A x \in ScheduleId : attempt'[x] # None => attempt'[x].def = snapshot'[x]
  BY <1>1 DEF JobsInv, JobsTypeOK, Accepted, Attempts, LastAttemptIsCurrent
<1> QED
  BY <1>1, <1>2, <1>3, AcceptStep

\* Publishing the watch changes no schedule and no job.
LEMMA PublishWatchStep ==
  ASSUME JobsInv, PublishWatch
  PROVE  JobsInv'
<1>1. /\ commit.phase = "publish" /\ commit' = Phase("jobs")
      /\ seenVersion' = version /\ watched' = snapshot
      /\ UNCHANGED << version, snapshot, attempt, available, jobs, down, worker,
                      routed, routeVersion >>
  BY DEF PublishWatch, stateVars, jobVars, routeVars
<1>2. commit'.phase = "jobs" /\ version \in 0..version
  BY <1>1, PhaseType, JobsAssumption DEF JobsInv, JobsTypeOK
<1>3. JobsTypeOK'
  BY <1>1, <1>2, PhaseType DEF JobsInv, JobsTypeOK
<1>4. OneOwnedJob' /\ LastAttemptIsCurrent'
  BY <1>1 DEF JobsInv, OneOwnedJob, Live, IsJob, LastAttemptIsCurrent
<1>5. JobsFollowSnapshot' /\ CandidateAttempts'
  BY <1>1, <1>2 DEF JobsInv, JobsFollowSnapshot, CandidateAttempts
<1>6. WorkerDefined' /\ LateIsLast'
  BY <1>1 DEF JobsInv, WorkerDefined, LateIsLast, Live
<1> QED
  BY <1>3, <1>4, <1>5, <1>6 DEF JobsInv

\* A new route table concerns no job until the job looks.
LEMMA PublishRoutesStep ==
  ASSUME JobsInv, NEW next \in SUBSET ScheduleId, PublishRoutes(next)
  PROVE  JobsInv'
<1>1. /\ routed' = next /\ routeVersion' = routeVersion + 1
      /\ UNCHANGED << version, snapshot, attempt, available, commit, seenVersion, watched,
                      jobs, down, worker >>
  BY DEF PublishRoutes, stateVars, watchVars, jobVars
<1>2. JobsTypeOK'
  BY <1>1 DEF JobsInv, JobsTypeOK
<1>3. OneOwnedJob' /\ LastAttemptIsCurrent' /\ JobsFollowSnapshot' /\ CandidateAttempts'
  BY <1>1 DEF JobsInv, OneOwnedJob, Live, IsJob, LastAttemptIsCurrent,
              JobsFollowSnapshot, Matches, CandidateAttempts
<1>4. WorkerDefined' /\ LateIsLast'
  BY <1>1 DEF JobsInv, WorkerDefined, LateIsLast, Live
<1> QED
  BY <1>2, <1>3, <1>4 DEF JobsInv

\* A spawned job starts with the accepted definition.
LEMMA SpawnedState ==
  ASSUME NEW def \in Definition
  PROVE  LET r == [Unused EXCEPT !.pc = "spawned", !.def = def] IN
           r \in WorkerState /\ r.def = def /\ r.late = 0 /\ r.pc = "spawned"
  BY DEF Unused, WorkerState

\* Stopping raises the flag of a worker and nothing else.
LEMMA StoppedState ==
  ASSUME NEW q \in WorkerState
  PROVE  LET r == [q EXCEPT !.stop = TRUE] IN
           r \in WorkerState /\ r.def = q.def /\ r.late = q.late /\ r.pc = q.pc /\ r.stop = TRUE
  BY DEF WorkerState

\* A removed job is stopped, a spawned one is controlled.
LEMMA ReconcileJobsStep ==
  ASSUME JobsInv, ReconcileJobs
  PROVE  JobsInv'
<1>1. /\ commit.phase = "jobs" /\ commit' = Phase("idle")
      /\ UNCHANGED << version, snapshot, attempt, available, seenVersion, watched, down,
                      routed, routeVersion >>
  BY DEF ReconcileJobs, stateVars, watchVars, routeVars
<1>2. commit'.phase = "idle" /\ version \in 0..MaxVersion /\ version # 0
  BY <1>1, PhaseType, JobsAssumption DEF JobsInv, JobsTypeOK, CandidateAttempts
<1>3. LastAttemptIsCurrent' /\ CandidateAttempts'
  BY <1>1, <1>2 DEF JobsInv, LastAttemptIsCurrent, CandidateAttempts
<1>4. CASE down
  <2>1. UNCHANGED << jobs, worker >>
    BY <1>4 DEF ReconcileJobs
  <2>2. JobsTypeOK'
    BY <1>1, <2>1, PhaseType DEF JobsInv, JobsTypeOK
  <2>3. OneOwnedJob' /\ JobsFollowSnapshot' /\ WorkerDefined' /\ LateIsLast'
    BY <1>1, <1>4, <2>1
      DEF JobsInv, OneOwnedJob, Live, IsJob, JobsFollowSnapshot, WorkerDefined, LateIsLast
  <2> QED
    BY <1>3, <2>2, <2>3 DEF JobsInv
<1>5. CASE ~down
  <2> DEFINE fresh(w) == IsJob(w) /\ w[2] = version /\ snapshot[w[1]] # None /\ ~Kept(w[1])
             gone(w) == ~fresh(w) /\ IsJob(w) /\ w[2] = jobs[w[1]] /\ ~Kept(w[1])
             spawned(w) == [Unused EXCEPT !.pc = "spawned", !.def = snapshot[w[1]]]
  <2>1. jobs' = [id \in ScheduleId |->
                   IF snapshot[id] = None THEN 0 ELSE IF Kept(id) THEN jobs[id] ELSE version]
    BY <1>5 DEF ReconcileJobs
  <2>2. worker' = [w \in JobTask |->
                     IF fresh(w) THEN spawned(w)
                     ELSE IF gone(w) THEN [worker[w] EXCEPT !.stop = TRUE]
                     ELSE worker[w]]
    BY <1>5 DEF ReconcileJobs
  <2>3. ASSUME NEW w \in JobTask
        PROVE  /\ worker'[w] \in WorkerState
               /\ fresh(w) => /\ worker'[w].def = snapshot[w[1]] /\ worker'[w].late = 0
                              /\ worker'[w].def # None
               /\ gone(w) => /\ worker'[w].stop /\ worker'[w].def = worker[w].def
                             /\ worker'[w].late = worker[w].late
                             /\ worker'[w].pc = worker[w].pc
               /\ ~fresh(w) /\ ~gone(w) => worker'[w] = worker[w]
    <3>1. worker[w] \in WorkerState /\ snapshot[w[1]] \in Definition \cup {None}
      BY WorkerFacts
    <3>2. CASE fresh(w)
      <4>1. worker'[w] = spawned(w) /\ snapshot[w[1]] \in Definition /\ snapshot[w[1]] # None
        BY <2>2, <3>1, <3>2
      <4>2. spawned(w) \in WorkerState /\ spawned(w).def = snapshot[w[1]] /\ spawned(w).late = 0
        BY <4>1, SpawnedState
      <4> HIDE DEF spawned
      <4> QED
        BY <3>2, <4>1, <4>2
    <3>3. CASE gone(w)
      <4> DEFINE r == [worker[w] EXCEPT !.stop = TRUE]
      <4>1. worker'[w] = r
        BY <2>2, <3>3
      <4>2. r \in WorkerState /\ r.def = worker[w].def /\ r.late = worker[w].late
              /\ r.pc = worker[w].pc /\ r.stop = TRUE
        BY <3>1, StoppedState
      <4> HIDE DEF r
      <4> QED
        BY <3>3, <4>1, <4>2
    <3>4. CASE ~fresh(w) /\ ~gone(w)
      <4>1. worker'[w] = worker[w]
        BY <2>2, <3>4
      <4> QED
        BY <3>1, <3>4, <4>1
    <3> QED
      BY <3>2, <3>3, <3>4
  <2> HIDE DEF spawned
  <2>4. JobsTypeOK'
    <3>1. worker' \in [JobTask -> WorkerState]
      BY <2>2, <2>3
    <3>2. \A id \in ScheduleId : jobs[id] \in 0..MaxVersion /\ 0 \in 0..MaxVersion
      BY JobsAssumption DEF JobsInv, JobsTypeOK
    <3>3. jobs' \in [ScheduleId -> 0..MaxVersion]
      BY <1>2, <2>1, <3>2
    <3> QED
      BY <1>1, <3>1, <3>3, PhaseType DEF JobsInv, JobsTypeOK
  <2>5. OneOwnedJob'
    <3> SUFFICES ASSUME NEW w \in JobTask, IsJob(w), Live(w)', ~worker'[w].stop
                 PROVE  jobs'[w[1]] = w[2]
      BY DEF OneOwnedJob, IsJob
    <3>1. w[1] \in ScheduleId
      BY DEF JobTask
    <3>2. CASE fresh(w)
      BY <2>1, <3>1, <3>2
    <3>3. CASE ~fresh(w)
      <4>1. worker'[w] = worker[w] /\ ~gone(w)
        BY <2>3, <3>3
      <4>2. jobs[w[1]] = w[2]
        BY <4>1 DEF JobsInv, OneOwnedJob, Live
      <4>3. Kept(w[1])
        BY <3>3, <4>1, <4>2
      <4>4. snapshot[w[1]] # None
        BY <4>3 DEF Kept
      <4> QED
        BY <2>1, <3>1, <4>2, <4>3, <4>4
    <3> QED
      BY <3>2, <3>3
  <2>6. JobsFollowSnapshot'
    <3> SUFFICES ASSUME NEW id \in ScheduleId
                 PROVE  IF snapshot[id] = None THEN jobs'[id] = 0
                        ELSE /\ jobs'[id] # 0
                             /\ Matches(worker'[<< id, jobs'[id] >>].def, snapshot[id])
      BY <1>1 DEF JobsFollowSnapshot, Matches
    <3>1. CASE snapshot[id] = None
      BY <2>1, <3>1
    <3>2. CASE snapshot[id] # None /\ Kept(id)
      <4> DEFINE w == << id, jobs[id] >>
      <4>1. jobs'[id] = jobs[id] /\ jobs[id] # 0 /\ jobs[id] \in 0..MaxVersion
        BY <2>1, <3>2 DEF Kept, JobsInv, JobsTypeOK
      <4>2. w \in JobTask /\ w[1] = id
        BY <4>1 DEF JobTask
      <4>3. worker'[w] = worker[w]
        BY <2>3, <3>2, <4>2
      <4>4. Matches(worker[w].def, snapshot[id])
        BY <3>2 DEF Kept
      <4> HIDE DEF w
      <4>5. Matches(worker'[w].def, snapshot[id])
        BY <4>3, <4>4
      <4> USE DEF w
      <4> QED
        BY <3>2, <4>1, <4>5
    <3>3. CASE snapshot[id] # None /\ ~Kept(id)
      <4> DEFINE w == << id, version >>
      <4>1. jobs'[id] = version
        BY <2>1, <3>3
      <4>2. w \in JobTask /\ w[1] = id /\ w[2] = version
        BY <1>2 DEF JobTask
      <4>3. fresh(w)
        BY <1>2, <3>3, <4>2 DEF IsJob
      <4>4. worker'[w].def = snapshot[id]
        BY <2>3, <4>2, <4>3
      <4> QED
        BY <1>2, <3>3, <4>1, <4>4 DEF Matches
    <3> QED
      BY <3>1, <3>2, <3>3
  <2>7. WorkerDefined'
    <3> SUFFICES ASSUME NEW w \in JobTask, Live(w)'
                 PROVE  worker'[w].def # None
      BY DEF WorkerDefined
    <3>1. CASE fresh(w)
      BY <2>3, <3>1
    <3>2. CASE ~fresh(w)
      <4>1. worker'[w].def = worker[w].def /\ worker'[w].pc = worker[w].pc
        BY <2>3, <3>2
      <4> QED
        BY <4>1 DEF JobsInv, WorkerDefined, Live
    <3> QED
      BY <3>1, <3>2
  <2>8. LateIsLast'
    <3> SUFFICES ASSUME NEW w \in JobTask, worker'[w].late # 0
                 PROVE  /\ worker'[w].late = 1 /\ worker'[w].stop
                        /\ worker'[w].pc \in {"sent", "idle", "done"}
      BY DEF LateIsLast
    <3>1. ~fresh(w)
      BY <2>3
    <3>2. worker'[w].late = worker[w].late /\ worker'[w].pc = worker[w].pc
            /\ (worker[w].stop => worker'[w].stop)
      BY <2>3, <3>1
    <3> QED
      BY <3>2 DEF JobsInv, LateIsLast
  <2> QED
    BY <1>3, <2>4, <2>5, <2>6, <2>7, <2>8 DEF JobsInv
<1> QED
  BY <1>4, <1>5

\* The shutdown stops every controlled job.
LEMMA ShutdownStep ==
  ASSUME JobsInv, Shutdown
  PROVE  JobsInv'
<1> DEFINE owned(w) == IsJob(w) /\ w[2] = jobs[w[1]]
<1>1. /\ down' = TRUE /\ jobs' = [id \in ScheduleId |-> 0]
      /\ worker' = [w \in JobTask |->
                      IF owned(w) THEN [worker[w] EXCEPT !.stop = TRUE] ELSE worker[w]]
      /\ UNCHANGED << version, snapshot, attempt, available, commit, seenVersion, watched,
                      routed, routeVersion >>
  BY DEF Shutdown, stateVars, watchVars, routeVars
<1>2. ASSUME NEW w \in JobTask
      PROVE  /\ worker'[w] \in WorkerState /\ worker'[w].def = worker[w].def
             /\ worker'[w].late = worker[w].late /\ worker'[w].pc = worker[w].pc
             /\ worker[w].stop => worker'[w].stop
             /\ owned(w) => worker'[w].stop
             /\ ~owned(w) => worker'[w] = worker[w]
  <2>1. worker[w] \in WorkerState
    BY WorkerFacts
  <2>2. CASE owned(w)
    <3> DEFINE r == [worker[w] EXCEPT !.stop = TRUE]
    <3>1. worker'[w] = r
      BY <1>1, <2>2
    <3>2. r \in WorkerState /\ r.def = worker[w].def /\ r.late = worker[w].late
            /\ r.pc = worker[w].pc /\ r.stop = TRUE
      BY <2>1, StoppedState
    <3> HIDE DEF r
    <3> QED
      BY <2>2, <3>1, <3>2
  <2>3. CASE ~owned(w)
    <3>1. worker'[w] = worker[w]
      BY <1>1, <2>3
    <3> QED
      BY <2>1, <2>3, <3>1
  <2> QED
    BY <2>2, <2>3
<1>3. JobsTypeOK'
  <2>1. worker' \in [JobTask -> WorkerState]
    BY <1>1, <1>2
  <2>2. jobs' \in [ScheduleId -> 0..MaxVersion]
    BY <1>1, JobsAssumption
  <2> QED
    BY <1>1, <2>1, <2>2 DEF JobsInv, JobsTypeOK
<1>4. OneOwnedJob'
  <2> SUFFICES ASSUME NEW w \in JobTask, IsJob(w), Live(w)', ~worker'[w].stop
               PROVE  FALSE
    BY DEF OneOwnedJob, IsJob
  <2>1. ~owned(w) /\ worker'[w] = worker[w]
    BY <1>2
  <2> QED
    BY <2>1 DEF JobsInv, OneOwnedJob, Live
<1>5. JobsFollowSnapshot' /\ LastAttemptIsCurrent' /\ CandidateAttempts'
  BY <1>1 DEF JobsInv, JobsFollowSnapshot, LastAttemptIsCurrent, CandidateAttempts
<1>6. WorkerDefined'
  BY <1>2 DEF JobsInv, WorkerDefined, Live
<1>7. LateIsLast'
  BY <1>2 DEF JobsInv, LateIsLast
<1> QED
  BY <1>3, <1>4, <1>5, <1>6, <1>7 DEF JobsInv

\* A task step preserves the invariant, whatever the task is.
LEMMA TaskStep ==
  ASSUME JobsInv, NEW w \in JobTask, Task(w) \/ QueueFull(w)
  PROVE  JobsInv'
  BY SubscribeStep, StopTaskStep, SeeSnapshotStep, SeeRoutesStep, RevalidateStep, MarkStep,
     FireStep, QueueAdmitsStep, EnqueueStep, RecordStep, QueueFullStep DEF Task

\* The service starts without schedules and without jobs.
LEMMA InitJobsInv == JobsInit => JobsInv
<1> SUFFICES ASSUME JobsInit PROVE JobsInv
  OBVIOUS
<1>1. Unused \in WorkerState /\ Unused.pc = "unused" /\ Unused.late = 0
  BY DEF Unused, WorkerState
<1>2. JobsTypeOK
  <2>1. worker \in [JobTask -> WorkerState]
    BY <1>1 DEF JobsInit
  <2>2. commit \in [phase : {"idle", "prepared", "publish", "jobs"},
                    next : Accepted, attempt : Attempts]
    BY PhaseType DEF JobsInit
  <2>3. snapshot \in Accepted /\ watched \in Accepted /\ attempt \in Attempts
          /\ jobs \in [ScheduleId -> 0..MaxVersion]
    BY JobsAssumption DEF JobsInit, Accepted, Attempts
  <2>4. version \in 0..MaxVersion /\ seenVersion \in 0..version /\ routeVersion \in Nat
    BY JobsAssumption DEF JobsInit
  <2>5. available \in SUBSET ScheduleId /\ routed \in SUBSET ScheduleId /\ down \in BOOLEAN
    BY DEF JobsInit
  <2> QED
    BY <2>1, <2>2, <2>3, <2>4, <2>5 DEF JobsTypeOK
<1>3. commit.phase = "idle"
  BY PhaseType DEF JobsInit
<1>4. \A w \in JobTask : worker[w].pc = "unused" /\ worker[w].late = 0
  BY <1>1 DEF JobsInit
<1>5. OneOwnedJob /\ WorkerDefined /\ LateIsLast
  BY <1>4 DEF OneOwnedJob, WorkerDefined, LateIsLast, Live
<1>6. JobsFollowSnapshot /\ LastAttemptIsCurrent /\ CandidateAttempts
  BY <1>3 DEF JobsInit, JobsFollowSnapshot, LastAttemptIsCurrent, CandidateAttempts
<1> QED
  BY <1>2, <1>5, <1>6 DEF JobsInv

\* A stutter preserves the invariant.
LEMMA JobsStutter ==
  ASSUME JobsInv, UNCHANGED vars
  PROVE  JobsInv'
<1> USE DEF vars, JobsInv
<1>1. JobsTypeOK'
  BY DEF JobsTypeOK
<1>2. OneOwnedJob' /\ WorkerDefined' /\ LateIsLast'
  BY DEF OneOwnedJob, IsJob, Live, WorkerDefined, LateIsLast
<1>3. JobsFollowSnapshot'
  BY DEF JobsFollowSnapshot, Matches
<1>4. LastAttemptIsCurrent' /\ CandidateAttempts'
  BY DEF LastAttemptIsCurrent, CandidateAttempts
<1> QED
  BY <1>1, <1>2, <1>3, <1>4

\* JobsInv is inductive.
LEMMA NextJobsInv == JobsInv /\ [JobsNext]_vars => JobsInv'
<1> SUFFICES ASSUME JobsInv, [JobsNext]_vars PROVE JobsInv'
  OBVIOUS
<1>1. CASE Committing
  <2>1. ASSUME NEW next \in [ScheduleId -> Definition \cup {None}], Prepare(next)
        PROVE  JobsInv'
    BY <2>1, PrepareStep DEF Accepted
  <2> QED
    BY <1>1, <2>1, WithdrawStep, CommitStep, PublishWatchStep, ReconcileJobsStep DEF Committing
<1>2. CASE \E w \in JobTask : Task(w) \/ QueueFull(w)
  BY <1>2, TaskStep
<1>3. CASE \E id \in Triggered : Trigger(id)
  BY <1>3, TriggerStep, JobsAssumption
<1>4. CASE Shutdown
  BY <1>4, ShutdownStep
<1>5. CASE \E next \in SUBSET ScheduleId : PublishRoutes(next)
  BY <1>5, PublishRoutesStep
<1>6. CASE UNCHANGED vars
  BY <1>6, JobsStutter
<1> QED
  BY <1>1, <1>2, <1>3, <1>4, <1>5, <1>6 DEF JobsNext

\* The strengthened invariant of the jobs holds in every reachable state.
THEOREM JobsInvariant == JobsSpec => []JobsInv
<1>1. JobsInit => JobsInv
  BY InitJobsInv
<1>2. JobsInv /\ [JobsNext]_vars => JobsInv'
  BY NextJobsInv
<1> QED
  BY <1>1, <1>2, PTL DEF JobsSpec

\* Every variable of the jobs keeps its type.
THEOREM JobsTypeCorrect == JobsSpec => []JobsTypeOK
<1>1. JobsInv => JobsTypeOK
  BY DEF JobsInv
<1> QED
  BY <1>1, JobsInvariant, PTL

\* No job escapes the control of the service: an unstopped job is the one that
\* the service would stop on a refresh, a withdrawal or the shutdown.
THEOREM NoJobEscapes == JobsSpec => []OneOwnedJob
<1>1. JobsInv => OneOwnedJob
  BY DEF JobsInv
<1> QED
  BY <1>1, JobsInvariant, PTL

\* Outside of a commit every accepted definition has a job of its digest, and
\* nothing else has one.
THEOREM JobsMatchDefinitions == JobsSpec => []JobsFollowSnapshot
<1>1. JobsInv => JobsFollowSnapshot
  BY DEF JobsInv
<1> QED
  BY <1>1, JobsInvariant, PTL

\* A recorded attempt never belongs to a definition that was replaced.
THEOREM AttemptsAreCurrent == JobsSpec => []LastAttemptIsCurrent
<1>1. JobsInv => LastAttemptIsCurrent
  BY DEF JobsInv
<1> QED
  BY <1>1, JobsInvariant, PTL

\* A stopped job enqueues at most one message, that of the poll it was in.
THEOREM AtMostOneLateMessage == JobsSpec => []StoppedSendsOnce
<1>1. JobsInv => StoppedSendsOnce
  <2> SUFFICES ASSUME JobsInv, NEW w \in JobTask PROVE worker[w].late <= 1
    BY DEF StoppedSendsOnce
  <2>1. worker[w].late = 0 \/ worker[w].late = 1
    BY DEF JobsInv, LateIsLast
  <2> QED
    BY <2>1
<1> QED
  BY <1>1, JobsInvariant, PTL

=============================================================================
