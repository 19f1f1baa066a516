-------------------------- MODULE AssistantSessions --------------------------
(***************************************************************************)
(* Sessions of assistants that come back after a normal relaunch.          *)
(*                                                                         *)
(* The host (assistant_launch/mod.rs) keeps a record of every session, in  *)
(* memory and in a manifest that each change writes.  A shutdown that the  *)
(* user confirmed arms the records and freezes them; the next run resumes  *)
(* what is armed, and disarms a record before its process is started.  A   *)
(* record can be armed once the identity of its session is known: it is    *)
(* assigned by the launch, or captured from transcripts by the assistants  *)
(* module (modules/assistants/frontend/src/runtime.ts), in loops that run  *)
(* beside each other and beside the shutdown.                              *)
(*                                                                         *)
(* Any step may be the last one of a run.  A write of the manifest may     *)
(* fail, also after the new manifest is in its place.                      *)
(***************************************************************************)
EXTENDS Naturals

CONSTANTS
  Session,           \* sessions, by the identity of their record
  CaptureLoop,       \* loops that capture identities
  MaxRestarts,       \* model bound on runs of the host after the first
  MaxReactivations,  \* model bound on reactivations of the module
  MaxFailedWrites    \* model bound on writes of the manifest that fail

ASSUME SessionBounds == {MaxRestarts, MaxReactivations, MaxFailedWrites} \subseteq Nat

\* What a record has: how far its capture is, the identity of the session (another one
\* when the capture took that of a different session), and whether it is armed.
SessionRecord ==
  [capture : {"none", "pending", "assigned", "ready", "failed"},
   identity : {"none", "own", "other"}, armed : BOOLEAN]

Absent == [capture |-> "none", identity |-> "none", armed |-> FALSE]

VARIABLES
  saved,       \* the manifest: the records of some sessions
  held,        \* the records in memory
  frozen,      \* the records are preserved for a shutdown
  process,     \* of a session: "none", "starting", "resuming" or "running"
  used,        \* sessions that were begun; a record identity is never used again
  awaited,     \* launches and resumptions that the activation waits for
  attached,    \* sessions whose record the activation knows
  resumed,     \* sessions whose metadata says that they are being restored
  exits,       \* exits that the activation was told of and has not handled
  snapshots,   \* sessions with a snapshot of the transcripts that were there before
  loops,       \* of a loop: its session, what it does, the capture that it started from
  attempted,   \* this activation has listed what to restore
  restores,    \* what is left of that list, one at a time
  offered,     \* sessions with a notice that offers to retry
  quit,        \* the confirmed shutdown: "idle", "capturing" or "preserved"
  scan,        \* sessions whose identity it tries to capture yet
  looking,     \* the session whose transcripts it looks at
  restarts, reactivations, failedWrites,
  told,        \* history: what the last change of the manifest said, "done" or "failed"
  confirmed,   \* history: sessions that a shutdown preserved
  unsure,      \* history: sessions that a shutdown armed and could not save
  unsaved,     \* history: that happened in this run
  spent,       \* history: sessions whose record a failing write or a start used up
  doubled      \* history: a session has a second process

registryVars == << saved, held, frozen, told, failedWrites >>
knownVars == << awaited, attached, resumed, exits >>
captureVars == << snapshots, loops >>
restoreVars == << attempted, restores, offered >>
quitVars == << quit, scan, looking >>
moduleVars == << knownVars, captureVars, restoreVars, quitVars >>
countVars == << restarts, reactivations >>
historyVars == << confirmed, unsure, unsaved, spent, doubled >>
sessionVars == << registryVars, process, used, moduleVars, countVars, historyVars >>

Restorable(r) == r.capture \in {"assigned", "ready"} /\ r.identity # "none"

NoSession == "no session"

NoLoop == [session |-> NoSession, stage |-> "off", from |-> "none"]

Has(records, s) == records[s] # Absent

-----------------------------------------------------------------------------
(***************************************************************************)
(* The registry of the host.                                               *)
(***************************************************************************)

\* The manifest is written: the new file takes the place of the old one, or the write
\* fails before or after that.
Write(records, result) ==
  \/ result = "done" /\ saved' = records /\ UNCHANGED failedWrites
  \/ /\ result = "failed" /\ failedWrites < MaxFailedWrites
     /\ failedWrites' = failedWrites + 1
     /\ saved' \in {saved, records}

Refused == UNCHANGED registryVars

\* Mutant: a change is made although the records are frozen.
MutateAlways(records, allowed, result) ==
  \/ result = "refused" /\ ~allowed /\ Refused
  \/ allowed /\ Write(records, result) /\ held' = records /\ told' = result /\ UNCHANGED frozen

\* A change of the records: refused while they are frozen or when it is not allowed; a
\* change that cannot be saved is kept in memory.
Mutate(records, allowed, result) ==
  \/ result = "refused" /\ (frozen \/ ~allowed) /\ Refused
  \/ /\ ~frozen /\ allowed
     /\ Write(records, result) /\ held' = records /\ told' = result /\ UNCHANGED frozen

Discard(s, result) == Mutate([held EXCEPT ![s] = Absent], TRUE, result)

\* Mutant: an assigned identity is replaced.
ConfirmAny(s, identity, result) ==
  Mutate([held EXCEPT ![s] = [@ EXCEPT !.capture = "ready", !.identity = identity]],
         held[s].capture \in {"pending", "assigned"}, result)

\* The identity of a session is confirmed while it is pending, or the assigned one is.
ConfirmCapture(s, identity, result) ==
  Mutate([held EXCEPT ![s] = [@ EXCEPT !.capture = "ready", !.identity = identity]],
         \/ held[s].capture = "pending"
         \/ held[s].capture = "assigned" /\ held[s].identity = identity,
         result)

\* Mutant: a captured session is marked as failed.
FailAnyCapture(s, result) ==
  Mutate([held EXCEPT ![s].capture = "failed"], Has(held, s), result)

\* A capture failed; a session that is ready stays so.
MarkCaptureFailed(s, result) ==
  Mutate([held EXCEPT ![s].capture = "failed"], Has(held, s) /\ held[s].capture # "ready", result)

Rearm(s, result) ==
  Mutate([held EXCEPT ![s].armed = TRUE], Restorable(held[s]), result)

Claimable(s) == Restorable(held[s]) /\ held[s].armed /\ ~frozen

\* Mutant: a record is disarmed in memory only.
ClaimInMemory(s, result) ==
  \/ result = "refused" /\ ~Claimable(s) /\ Refused
  \/ /\ result = "done" /\ Claimable(s)
     /\ held' = [held EXCEPT ![s].armed = FALSE]
     /\ UNCHANGED << saved, frozen, told, failedWrites >>

\* Mutant: a record that could not be disarmed is not armed again.
ClaimStaysDisarmed(s, result) ==
  LET disarmed == [held EXCEPT ![s].armed = FALSE] IN
  \/ result = "refused" /\ ~Claimable(s) /\ Refused
  \/ /\ Claimable(s)
     /\ Write(disarmed, result) /\ told' = result
     /\ held' = disarmed /\ UNCHANGED frozen

\* A record is disarmed before its process is started; when that cannot be saved it is
\* armed again.
ClaimForRestore(s, result) ==
  LET disarmed == [held EXCEPT ![s].armed = FALSE] IN
  \/ result = "refused" /\ ~Claimable(s) /\ Refused
  \/ /\ Claimable(s)
     /\ Write(disarmed, result) /\ told' = result
     /\ held' = IF result = "done" THEN disarmed ELSE held
     /\ UNCHANGED frozen

\* What a shutdown preserves: the records that can be restored, armed.
Preserved ==
  [s \in Session |-> IF Restorable(held[s]) THEN [held[s] EXCEPT !.armed = TRUE] ELSE Absent]

PreservedSessions == {s \in Session : Restorable(held[s])}

\* The records are armed and frozen; when that cannot be saved they are not frozen, and
\* stay armed in memory.
Preserve(result) ==
  /\ Write(Preserved, result) /\ held' = Preserved /\ told' = result
  /\ frozen' = (result = "done")
  /\ IF result = "done"
       THEN confirmed' = confirmed \cup PreservedSessions /\ UNCHANGED << unsure, unsaved >>
       ELSE unsure' = unsure \cup PreservedSessions /\ unsaved' = TRUE /\ UNCHANGED confirmed

-----------------------------------------------------------------------------
(***************************************************************************)
(* Launches and resumptions.                                               *)
(***************************************************************************)

Begun(identity) ==
  [capture |-> IF identity = "own" THEN "assigned" ELSE "pending", identity |-> identity,
   armed |-> FALSE]

\* The user launches an assistant: its record is written first.  The launch fails with
\* that write, the record stays in memory.
Launch(s, identity) ==
  /\ s \notin used
  /\ used' = used \cup {s}
  /\ \E result \in {"done", "failed"} :
       /\ Mutate([held EXCEPT ![s] = Begun(identity)], TRUE, result)
       /\ IF result = "done"
            THEN process' = [process EXCEPT ![s] = "starting"] /\ awaited' = awaited \cup {s}
            ELSE UNCHANGED << process, awaited >>
  /\ UNCHANGED << attached, resumed, exits, captureVars, restoreVars, quitVars, countVars,
                  historyVars >>

Spawn(s) ==
  /\ process[s] \in {"starting", "resuming"}
  /\ process' = [process EXCEPT ![s] = "running"]
  /\ UNCHANGED << registryVars, used, moduleVars, countVars, historyVars >>

\* The process of a launch cannot be started: its record is discarded.
LaunchFails(s) ==
  /\ process[s] = "starting"
  /\ process' = [process EXCEPT ![s] = "none"]
  /\ \E result \in {"done", "failed", "refused"} : Discard(s, result)
  /\ awaited' = awaited \ {s}
  /\ UNCHANGED << used, attached, resumed, exits, captureVars, restoreVars, quitVars,
                  countVars, historyVars >>

\* The process of a resumption cannot be started: its record is armed again, and the
\* activation that waits offers to retry.
ResumeFails(s) ==
  /\ process[s] = "resuming"
  /\ process' = [process EXCEPT ![s] = "none"]
  /\ \E result \in {"done", "failed", "refused"} :
       /\ Rearm(s, result)
       /\ spent' = IF result = "done" THEN spent \ {s} ELSE spent
  /\ awaited' = awaited \ {s} /\ resumed' = resumed \ {s}
  /\ offered' = IF s \in awaited THEN offered \cup {s} ELSE offered
  /\ restores' = IF s \in awaited THEN restores \ {s} ELSE restores
  /\ UNCHANGED << used, attached, exits, captureVars, attempted, quitVars, countVars,
                  confirmed, unsure, unsaved, doubled >>

\* The activation hears that the process was started and attaches the record to its
\* terminal; when the terminal was removed meanwhile that fails, and a resumption is
\* offered to be retried.
Attach(s) ==
  /\ s \in awaited /\ process[s] \in {"none", "running"}
  /\ awaited' = awaited \ {s}
  /\ snapshots' = IF s \notin resumed \/ held[s].capture = "assigned" THEN snapshots \cup {s}
                  ELSE snapshots
  /\ restores' = restores \ {s}
  /\ \/ attached' = attached \cup {s} /\ UNCHANGED << offered, resumed >>
     \/ /\ process[s] = "none"
        /\ offered' = IF s \in resumed THEN offered \cup {s} ELSE offered
        /\ resumed' = resumed \ {s}
        /\ UNCHANGED attached
  /\ UNCHANGED << registryVars, process, used, exits, loops, attempted, quitVars, countVars,
                  historyVars >>

\* The record of a session is claimed for its resumption.
Claim(s) ==
  \E result \in {"done", "failed", "refused"} :
    /\ ClaimForRestore(s, result)
    /\ IF result = "done"
         THEN /\ process' = [process EXCEPT ![s] = "resuming"]
              /\ doubled' = (process[s] # "none")
              /\ awaited' = awaited \cup {s} /\ attached' = attached \ {s}
              /\ resumed' = resumed \cup {s} /\ spent' = spent \cup {s}
              /\ offered' = offered \ {s} /\ UNCHANGED restores
         ELSE /\ offered' = offered \cup {s} /\ restores' = restores \ {s}
              /\ UNCHANGED << process, doubled, awaited, attached, resumed, spent >>

\* It is not resumed when its project or its provider is not there.
Skip(s) ==
  /\ offered' = offered \cup {s} /\ restores' = restores \ {s}
  /\ UNCHANGED << registryVars, process, doubled, awaited, attached, resumed, spent >>

\* The first catalog of projects: what is armed is listed ...
ListRestorable ==
  /\ ~attempted
  /\ attempted' = TRUE
  /\ restores' = {s \in Session : Restorable(held[s]) /\ held[s].armed}
  /\ UNCHANGED << registryVars, process, used, knownVars, captureVars, offered, quitVars,
                  countVars, historyVars >>

\* ... and restored, one session after the other; the user may retry what was offered.
Restore(s) ==
  /\ \/ s \in restores /\ restores \cap awaited = {}
     \/ s \in offered
  /\ Claim(s) \/ Skip(s)
  /\ UNCHANGED << used, exits, captureVars, attempted, quitVars, countVars, confirmed,
                  unsure, unsaved >>

\* The user discards a session that was offered.
DiscardSaved(s) ==
  /\ s \in offered
  /\ \E result \in {"done", "failed", "refused"} :
       /\ Discard(s, result)
       /\ offered' = IF result = "done" THEN offered \ {s} ELSE offered
       /\ spent' = IF result = "failed" THEN spent \cup {s} ELSE spent
  /\ UNCHANGED << process, used, knownVars, captureVars, attempted, restores, quitVars,
                  countVars, confirmed, unsure, unsaved, doubled >>

\* A resumed session that lived for a while is taken for restored.
Probation(s) ==
  /\ s \in resumed \cap attached
  /\ resumed' = resumed \ {s}
  /\ UNCHANGED << registryVars, process, used, awaited, attached, exits, captureVars,
                  restoreVars, quitVars, countVars, historyVars >>

-----------------------------------------------------------------------------
(***************************************************************************)
(* The end of a session.                                                   *)
(***************************************************************************)

\* The timer of one loop of a session is cleared.
StopTimer(s) ==
  \/ UNCHANGED loops
  \/ \E l \in CaptureLoop :
       loops[l].session = s /\ loops[l].stage = "due" /\ loops' = [loops EXCEPT ![l] = NoLoop]

\* A process ends; the activation is told when it knows the session.
Exit(s) ==
  /\ process[s] = "running"
  /\ process' = [process EXCEPT ![s] = "none"]
  /\ exits' = IF s \in attached THEN exits \cup {s} ELSE exits
  /\ UNCHANGED << registryVars, used, awaited, attached, resumed, captureVars, restoreVars,
                  quitVars, countVars, historyVars >>

\* Mutant: every session that ends is armed again.
HandleExitRearms(s) ==
  /\ s \in exits
  /\ exits' = exits \ {s}
  /\ snapshots' = snapshots \ {s} /\ resumed' = resumed \ {s}
  /\ StopTimer(s)
  /\ \E result \in {"done", "failed", "refused"} :
       /\ Rearm(s, result)
       /\ spent' = IF result = "done" THEN spent \ {s} ELSE spent
  /\ UNCHANGED << process, used, awaited, attached, restoreVars, quitVars, countVars,
                  confirmed, unsure, unsaved, doubled >>

\* The activation handles an exit: a session that was being restored is armed again, any
\* other one is discarded.
HandleExit(s) ==
  /\ s \in exits
  /\ exits' = exits \ {s}
  /\ snapshots' = snapshots \ {s} /\ resumed' = resumed \ {s}
  /\ StopTimer(s)
  /\ \E result \in {"done", "failed", "refused"} :
       \/ /\ s \in resumed /\ Rearm(s, result)
          /\ spent' = IF result = "done" THEN spent \ {s} ELSE spent
       \/ s \notin resumed /\ Discard(s, result) /\ UNCHANGED spent
  /\ UNCHANGED << process, used, awaited, attached, restoreVars, quitVars, countVars,
                  confirmed, unsure, unsaved, doubled >>

\* The user closes a session, also one whose process ended: its record is discarded
\* first, and it is not closed when that is refused or fails.
Stop(s) ==
  /\ s \in attached /\ process[s] \in {"none", "running"}
  /\ snapshots' = snapshots \ {s}
  /\ StopTimer(s)
  /\ \E result \in {"done", "failed", "refused"} :
       /\ Discard(s, result)
       /\ spent' = IF result = "refused" THEN spent ELSE spent \cup {s}
       /\ IF result = "done"
            THEN /\ process' = [process EXCEPT ![s] = "none"]
                 /\ attached' = attached \ {s} /\ resumed' = resumed \ {s}
            ELSE UNCHANGED << process, attached, resumed >>
  /\ UNCHANGED << used, awaited, exits, restoreVars, quitVars, countVars, confirmed, unsure,
                  unsaved, doubled >>

\* Another client closes the terminal of a session: the activation forgets it.
Removed(s) ==
  /\ s \in attached \ exits /\ process[s] \in {"none", "running"}
  /\ process' = [process EXCEPT ![s] = "none"]
  /\ attached' = attached \ {s} /\ snapshots' = snapshots \ {s} /\ resumed' = resumed \ {s}
  /\ StopTimer(s)
  /\ UNCHANGED << registryVars, used, awaited, exits, restoreVars, quitVars, countVars,
                  historyVars >>

-----------------------------------------------------------------------------
(***************************************************************************)
(* Capture.                                                                *)
(***************************************************************************)

\* A session is adopted, again when the terminals of the webview are bound again: a loop
\* begins, beside one that may run, from the record that the activation knows, which may be
\* older than a capture that ended.
Adopt(s, l, from) ==
  /\ s \in attached /\ loops[l] = NoLoop
  /\ held[s].capture \in {"pending", "assigned"} => held[s].capture = from
  /\ loops' = [loops EXCEPT ![l] = [session |-> s, stage |-> "due", from |-> from]]
  /\ UNCHANGED << registryVars, process, used, knownVars, snapshots, restoreVars, quitVars,
                  countVars, historyVars >>

\* A loop gives up: an assigned session stays as it is, a pending one is marked.
GiveUp(l) ==
  loops' = [loops EXCEPT ![l] =
              IF loops[l].from = "assigned" THEN NoLoop ELSE [loops[l] EXCEPT !.stage = "failing"]]

\* An attempt looks at the transcripts, or has no snapshot to compare them with.
Attempt(l) ==
  /\ loops[l].stage = "due"
  /\ IF loops[l].session \in snapshots
       THEN loops' = [loops EXCEPT ![l].stage = "finding"]
       ELSE GiveUp(l)
  /\ UNCHANGED << registryVars, process, used, knownVars, snapshots, restoreVars, quitVars,
                  countVars, historyVars >>

\* There is no new transcript yet: another attempt is due, unless this was the last.
NotFound(l) ==
  /\ loops[l].stage = "finding"
  /\ \/ loops' = [loops EXCEPT ![l].stage = "due"]
     \/ GiveUp(l)
  /\ UNCHANGED << registryVars, process, used, knownVars, snapshots, restoreVars, quitVars,
                  countVars, historyVars >>

\* A transcript is found, maybe that of another session: its identity is confirmed.
Found(l, identity) ==
  LET s == loops[l].session IN
  /\ loops[l].stage = "finding"
  /\ \E result \in {"done", "failed", "refused"} :
       /\ ConfirmCapture(s, identity, result)
       /\ IF result = "done"
            THEN /\ snapshots' = snapshots \ {s}
                 /\ loops' = [loops EXCEPT ![l] = NoLoop]
            ELSE /\ snapshots' = IF loops[l].from = "assigned" THEN snapshots ELSE snapshots \ {s}
                 /\ GiveUp(l)
  /\ UNCHANGED << process, used, knownVars, restoreVars, quitVars, countVars, historyVars >>

FailCapture(l) ==
  /\ loops[l].stage = "failing"
  /\ loops' = [loops EXCEPT ![l] = NoLoop]
  /\ snapshots' = snapshots \ {loops[l].session}
  /\ \E result \in {"done", "failed", "refused"} : MarkCaptureFailed(loops[l].session, result)
  /\ UNCHANGED << process, used, knownVars, restoreVars, quitVars, countVars, historyVars >>

-----------------------------------------------------------------------------
(***************************************************************************)
(* The end of an activation and of a run.                                  *)
(***************************************************************************)

\* The user confirms to quit.
BeginQuit ==
  /\ quit = "idle"
  /\ quit' = "capturing" /\ scan' = snapshots
  /\ UNCHANGED << registryVars, process, used, knownVars, captureVars, restoreVars, looking,
                  countVars, historyVars >>

\* One last attempt for every session that still has a snapshot, one after the other ...
LastAttempt(s) ==
  /\ quit = "capturing" /\ s \in scan /\ looking = {}
  /\ scan' = scan \ {s} /\ looking' = {s} \cap snapshots
  /\ UNCHANGED << registryVars, process, used, knownVars, captureVars, restoreVars, quit,
                  countVars, historyVars >>

\* ... confirms what it found, if anything.
LastCapture(s) ==
  /\ s \in looking
  /\ looking' = {}
  /\ \/ UNCHANGED << registryVars, snapshots >>
     \/ \E identity \in {"own", "other"}, result \in {"done", "failed"} :
          /\ ConfirmCapture(s, identity, result)
          /\ snapshots' = IF result = "done" THEN snapshots \ {s} ELSE snapshots
  /\ UNCHANGED << process, used, knownVars, loops, restoreVars, quit, scan, countVars,
                  historyVars >>

\* The records are preserved; when that fails the application runs on.
PreserveSessions ==
  /\ quit = "capturing" /\ scan \cup looking = {}
  /\ \E result \in {"done", "failed"} :
       Preserve(result) /\ quit' = IF result = "done" THEN "preserved" ELSE "idle"
  /\ UNCHANGED << process, used, knownVars, captureVars, restoreVars, scan, looking, countVars,
                  spent, doubled >>

\* Another module fails to prepare: the application runs on, the records stay frozen.
QuitFails ==
  /\ quit = "preserved"
  /\ quit' = "idle"
  /\ UNCHANGED << registryVars, process, used, knownVars, captureVars, restoreVars, scan,
                  looking, countVars, historyVars >>

\* The module is activated again: what its predecessor waited for, its timers and its
\* snapshots are gone, sessions that were attached are adopted.
Reactivate ==
  /\ reactivations < MaxReactivations
  /\ reactivations' = reactivations + 1
  /\ awaited' = {} /\ exits' = {} /\ snapshots' = {} /\ UNCHANGED attached
  /\ loops' = [l \in CaptureLoop |-> NoLoop]
  /\ attempted' = FALSE /\ restores' = {} /\ offered' = {}
  /\ quit' = "idle" /\ scan' = {} /\ looking' = {}
  /\ UNCHANGED << registryVars, process, used, attached, resumed, restarts, historyVars >>

\* The run ends, by a shutdown or by a crash, and with it all processes; the next run
\* reads the manifest.
Relaunch ==
  /\ restarts < MaxRestarts
  /\ restarts' = restarts + 1
  /\ held' = saved /\ frozen' = FALSE
  /\ process' = [s \in Session |-> "none"]
  /\ awaited' = {} /\ exits' = {} /\ snapshots' = {} /\ attached' = {} /\ resumed' = {}
  /\ loops' = [l \in CaptureLoop |-> NoLoop]
  /\ attempted' = FALSE /\ restores' = {} /\ offered' = {}
  /\ quit' = "idle" /\ scan' = {} /\ looking' = {}
  /\ told' = "done" /\ unsaved' = FALSE /\ spent' = {} /\ doubled' = FALSE
  /\ UNCHANGED << saved, failedWrites, used, reactivations, confirmed, unsure >>

-----------------------------------------------------------------------------
SessionInit ==
  /\ saved = [s \in Session |-> Absent] /\ held = saved /\ frozen = FALSE
  /\ process = [s \in Session |-> "none"] /\ used = {}
  /\ awaited = {} /\ attached = {} /\ resumed = {} /\ exits = {} /\ snapshots = {}
  /\ loops = [l \in CaptureLoop |-> NoLoop]
  /\ attempted = FALSE /\ restores = {} /\ offered = {}
  /\ quit = "idle" /\ scan = {} /\ looking = {}
  /\ restarts = 0 /\ reactivations = 0 /\ failedWrites = 0
  /\ told = "done" /\ confirmed = {} /\ unsure = {} /\ unsaved = FALSE /\ spent = {}
  /\ doubled = FALSE

\* A run is followed up to the second process of a session.
SessionNext ==
  /\ ~doubled
  /\ \/ \E s \in Session :
          \/ \E identity \in {"none", "own"} : Launch(s, identity)
          \/ Spawn(s) \/ LaunchFails(s) \/ ResumeFails(s)
          \/ Attach(s) \/ Restore(s) \/ DiscardSaved(s) \/ Probation(s)
          \/ Exit(s) \/ HandleExit(s) \/ Stop(s) \/ Removed(s)
          \/ \E l \in CaptureLoop, from \in {"pending", "assigned"} : Adopt(s, l, from)
          \/ LastAttempt(s) \/ LastCapture(s)
     \/ \E l \in CaptureLoop :
          \/ Attempt(l) \/ NotFound(l) \/ FailCapture(l)
          \/ \E identity \in {"own", "other"} : Found(l, identity)
     \/ ListRestorable \/ BeginQuit \/ PreserveSessions \/ QuitFails \/ Reactivate \/ Relaunch

SessionSpec == SessionInit /\ [][SessionNext]_sessionVars

-----------------------------------------------------------------------------
\* Every variable has its type (assistant_launch/mod.rs:88-132, runtime.ts:31-38).
SessionTypeOK ==
  /\ saved \in [Session -> SessionRecord] /\ held \in [Session -> SessionRecord]
  /\ frozen \in BOOLEAN
  /\ process \in [Session -> {"none", "starting", "resuming", "running"}]
  /\ \A x \in {used, awaited, attached, resumed, exits, snapshots, restores, offered, scan,
               looking, confirmed, unsure, spent} : x \subseteq Session
  /\ loops \in [CaptureLoop -> [session : Session \cup {NoSession},
                                stage : {"off", "due", "finding", "failing"},
                                from : {"none", "pending", "assigned"}]]
  /\ attempted \in BOOLEAN
  /\ quit \in {"idle", "capturing", "preserved"}
  /\ restarts \in 0..MaxRestarts /\ reactivations \in 0..MaxReactivations
  /\ failedWrites \in 0..MaxFailedWrites
  /\ told \in {"done", "failed"} /\ unsaved \in BOOLEAN /\ doubled \in BOOLEAN

\* What the host keeps is as its calls said: what is saved is what is held after a change
\* that succeeded; a preserved record can be restored and is armed, whatever the module and
\* the exits of its processes ask for after the shutdown was confirmed
\* (assistant_launch/mod.rs:135-138, 380-403).
RegistryAsTold ==
  /\ told = "done" => saved = held
  /\ frozen => /\ saved = held
              /\ \A s \in Session : Has(saved, s) => Restorable(saved[s]) /\ saved[s].armed

\* A session is not resumed beside a process of its own, and while it runs no record of it is
\* armed that the next run would resume, unless a shutdown preserved it, or could not
\* (assistant_launch/mod.rs:332-361).
ResumedOnce ==
  /\ doubled => unsaved
  /\ ~frozen /\ ~unsaved => \A s \in Session : process[s] # "none" => ~saved[s].armed

\* Only what a confirmed shutdown armed is armed, whatever came after it
\* (assistant_launch/mod.rs:101-103).
ArmedByShutdown == \A s \in Session : saved[s].armed => s \in confirmed \cup unsure

\* A session that is offered to be restored again is kept for that, unless a failing write,
\* its start or its user used it up (runtime.ts:426-447).
OfferedIsKept ==
  ~unsaved => \A s \in offered \ spent : Restorable(held[s]) /\ held[s].armed

SessionsSafe == RegistryAsTold /\ ResumedOnce /\ ArmedByShutdown /\ OfferedIsKept

\* Within a run an identity is final and a captured session stays so, in whatever order the
\* loops and the shutdown capture it and give up (assistant_launch/mod.rs:215-251), and what
\* is preserved does not change.
CapturesStand ==
  [][restarts' = restarts =>
       /\ \A s \in Session : Has(held, s) /\ Has(held', s) =>
            /\ held[s].identity # "none" => held'[s].identity = held[s].identity
            /\ held[s].capture = "ready" => held'[s].capture = "ready"
       /\ frozen /\ frozen' => saved' = saved]_sessionVars

\* Sessions come back after a confirmed shutdown, each once and as itself
\* (assistant_launch/mod.rs:134-138).
SessionsComeBackOnce == [](SessionTypeOK /\ SessionsSafe) /\ CapturesStand
=============================================================================
