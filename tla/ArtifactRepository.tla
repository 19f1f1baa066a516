-------------------------- MODULE ArtifactRepository --------------------------
(***************************************************************************)
(* The artifact repository (module_control/repository.rs) on the tables of *)
(* ModuleRegistry: an installation writes its intent to the registry, its  *)
(* payload to a stage, renames the stage to its content digest and only    *)
(* then registers the artifact.  The lease serializes installations, not   *)
(* the edits of desired rows.                                              *)
(*                                                                         *)
(* Two processes install: a command line and the host, which at its start  *)
(* installs the archives of its build and selects them                     *)
(* (seed_bundled_artifacts).  Each can end between any two steps; files and *)
(* tables stay.                                                            *)
(***************************************************************************)
EXTENDS ModuleRegistry

CONSTANTS
  Build,      \* builds of the host: static modules and embedded archives
  MaxStarts,  \* model bound on starts of the host
  MaxCrashes, \* model bound on processes that end
  MaxFaults   \* model bound on failing writes

ASSUME RepositoryAssumption ==
  /\ Build \subseteq [static : SUBSET Module, archives : SUBSET Archive]
  /\ MaxStarts \in Nat /\ MaxCrashes \in Nat /\ MaxFaults \in Nat

VARIABLES
  published, \* artifacts whose directory exists under its digest
  stage,     \* of a request: its staging directory
  add,       \* the installation that holds the lease
  drawn,     \* the request ids that users drew
  host,      \* what the host does
  left,      \* the archives that its start still has to install
  chosen,    \* the one that it selects
  cause,     \* why its last start failed
  starts, crashes, faults

payloadVars == << published, stage >>
hostVars == << host, left, chosen, cause, starts >>
repositoryVars == << payloadVars, add, drawn, hostVars, crashes, faults >>
vars == << registryVars, repositoryVars >>

Idle == [by |-> "nobody", pc |-> "idle", request |-> None, archive |-> None,
         source |-> "user", intent |-> None, todo |-> {}]

\* The intent that is resumed.
Resumed == intents[add.intent]
Own == add.intent = add.request

-----------------------------------------------------------------------------
(***************************************************************************)
(* Processes.                                                              *)
(***************************************************************************)

StartHost ==
  /\ host = "down" /\ starts < MaxStarts
  /\ starts' = starts + 1 /\ cause' = "none"
  /\ \E b \in Build :
       /\ SeedInventory(b.static)
       /\ left' = b.archives
       /\ host' = IF b.archives = {} THEN "up" ELSE "seeding"
  /\ UNCHANGED << payloadVars, chosen, add, drawn, crashes, faults >>

Enter(by, r, a, s) ==
  /\ add = Idle
  /\ add' = [Idle EXCEPT !.by = by, !.pc = "recover", !.request = r, !.archive = a,
                         !.source = s, !.todo = Pending]
  /\ UNCHANGED << registryVars, payloadVars, hostVars, crashes, faults >>

EnterHost ==
  host = "seeding" /\ drawn' = drawn /\ \E a \in left : Enter("host", a, a, "bundled")

\* add_archive draws a request id of its own.
EnterUser(a) ==
  \E r \in UserRequest \ drawn :
    /\ Enter("user", r, a, "user")
    /\ drawn' = drawn \cup {r}

\* The installation fails: the lease is released, the start of a host aborted.
Fail(why) ==
  /\ add' = Idle
  /\ host' = IF add.by = "host" THEN "down" ELSE host
  /\ left' = IF add.by = "host" THEN {} ELSE left
  /\ cause' = IF add.by = "host" THEN why ELSE cause
  /\ UNCHANGED << chosen, starts >>

-----------------------------------------------------------------------------
(***************************************************************************)
(* Installation under the lease.                                           *)
(***************************************************************************)

\* Every pending intent is resumed before the candidate is looked at.
Recover ==
  /\ add.pc = "recover"
  /\ \/ \E r \in add.todo : add' = [add EXCEPT !.pc = "resume", !.intent = r]
     \/ add.todo = {} /\ add' = [add EXCEPT !.pc = "lookup"]
  /\ UNCHANGED << registryVars, payloadVars, hostVars, drawn, crashes, faults >>

\* Recovery left no intent: the request is installed, or its intent is begun.
Lookup ==
  /\ add.pc = "lookup"
  /\ IF Installed(add.request)
     THEN add' = [add EXCEPT !.pc = "report"] /\ UNCHANGED registryVars
     ELSE /\ add' = [add EXCEPT !.pc = "resume", !.intent = add.request]
          /\ BeginIntent(add.request, add.archive, add.source)
  /\ UNCHANGED << payloadVars, hostVars, drawn, crashes, faults >>

\* Mutant: a resolved intent stays on the list of those to resume.
ResolvedUnmarked(a) == [a EXCEPT !.pc = "recover", !.intent = None]

Resolved(a) == [a EXCEPT !.pc = "recover", !.intent = None, !.todo = @ \ {a.intent}]

\* A payload that is published needs no stage.
ResumePublished ==
  /\ add.pc = "resume" /\ Resumed.archive \in published
  /\ stage' = [stage EXCEPT ![add.intent] = "none"]
  /\ add' = [add EXCEPT !.pc = "finalize"]
  /\ UNCHANGED << registryVars, published, hostVars, drawn, crashes, faults >>

Staged(state) == Resumed.archive \notin published /\ stage[add.intent] = state

\* Mutant: a complete stage is registered where it is.
ResumeStageUnpublished ==
  /\ add.pc = "resume" /\ Staged("complete")
  /\ add' = [add EXCEPT !.pc = "finalize"]
  /\ UNCHANGED << registryVars, payloadVars, hostVars, drawn, crashes, faults >>

\* A complete stage is published; one that was only partly written does not
\* pass its preflight.
ResumeStage ==
  /\ add.pc = "resume" /\ Staged("complete")
  /\ add' = [add EXCEPT !.pc = "publish"]
  /\ UNCHANGED << registryVars, payloadVars, hostVars, drawn, crashes, faults >>

RefuseStage ==
  /\ add.pc = "resume" /\ Staged("partial")
  /\ Fail("stage")
  /\ UNCHANGED << registryVars, payloadVars, drawn, crashes, faults >>

\* Without a payload the candidate is staged, an old intent cleared.
ResumeCandidate ==
  /\ add.pc = "resume" /\ Staged("none") /\ Own
  /\ stage' = [stage EXCEPT ![add.intent] = "partial"]
  /\ add' = [add EXCEPT !.pc = "write"]
  /\ UNCHANGED << registryVars, published, hostVars, drawn, crashes, faults >>

ResumeNothing ==
  /\ add.pc = "resume" /\ Staged("none") /\ ~ Own
  /\ ClearIntent(add.intent)
  /\ add' = Resolved(add)
  /\ UNCHANGED << payloadVars, hostVars, drawn, crashes, faults >>

\* stage_candidate writes, syncs and rereads every file.
Write ==
  /\ add.pc = "write"
  /\ stage' = [stage EXCEPT ![add.intent] = "complete"]
  /\ add' = [add EXCEPT !.pc = "publish"]
  /\ UNCHANGED << registryVars, published, hostVars, drawn, crashes, faults >>

\* On a failure it removes the stage, and ignores that this may fail too.
WriteFails ==
  /\ add.pc = "write" /\ faults < MaxFaults /\ faults' = faults + 1
  /\ \E left_over \in {"none", "partial"} : stage' = [stage EXCEPT ![add.intent] = left_over]
  /\ Fail("io")
  /\ UNCHANGED << registryVars, published, drawn, crashes >>

\* publish_stage renames the directory.
Publish ==
  /\ add.pc = "publish"
  /\ published' = published \cup {Resumed.archive}
  /\ stage' = [stage EXCEPT ![add.intent] = "none"]
  /\ add' = [add EXCEPT !.pc = "finalize"]
  /\ UNCHANGED << registryVars, hostVars, drawn, crashes, faults >>

PublishFails ==
  /\ add.pc = "publish" /\ faults < MaxFaults /\ faults' = faults + 1
  /\ Fail("io")
  /\ UNCHANGED << registryVars, payloadVars, drawn, crashes >>

Finalize ==
  /\ add.pc = "finalize"
  /\ FinalizeIntent(add.intent)
  /\ add' = IF Own THEN [add EXCEPT !.pc = "report", !.intent = None] ELSE Resolved(add)
  /\ UNCHANGED << payloadVars, hostVars, drawn, crashes, faults >>

\* Mutant: a refused installation takes its intent back.
FinalizeConflictsClearing ==
  /\ add.pc = "finalize"
  /\ Conflicts(Resumed.archive, Resumed.source)
  /\ ClearIntent(add.intent)
  /\ Fail(IF Own THEN "conflict" ELSE "pending")
  /\ UNCHANGED << payloadVars, drawn, crashes, faults >>

\* The transaction is refused; the intent and the payload stay.
FinalizeConflicts ==
  /\ add.pc = "finalize"
  /\ Conflicts(Resumed.archive, Resumed.source)
  /\ Fail(IF Own THEN "conflict" ELSE "pending")
  /\ UNCHANGED << registryVars, payloadVars, drawn, crashes, faults >>

\* The published payload is read once more, which cannot miss it, and the lease
\* released; the host goes on to the selection of the artifact.
Report ==
  /\ add.pc = "report"
  /\ add' = Idle
  /\ IF add.by = "host" THEN host' = "selecting" /\ chosen' = add.archive
     ELSE UNCHANGED << host, chosen >>
  /\ UNCHANGED << registryVars, payloadVars, left, cause, starts, drawn, crashes, faults >>

-----------------------------------------------------------------------------
(***************************************************************************)
(* Selection at the start of the host, edits, and ends of processes.       *)
(***************************************************************************)

\* The host goes on to its next archive, or finishes its start.
Advance ==
  /\ left' = left \ {chosen} /\ chosen' = None
  /\ host' = IF left = {chosen} THEN "up" ELSE "seeding"
  /\ UNCHANGED << cause, starts >>

\* select_bundled_artifact reads a snapshot and decides.
Select ==
  /\ host = "selecting"
  /\ \/ ReadSeed(chosen) /\ host' = "committing" /\ UNCHANGED << left, chosen, cause, starts >>
     \/ Keeps(chosen) /\ Advance /\ UNCHANGED registryVars
  /\ UNCHANGED << payloadVars, add, drawn, crashes, faults >>

CommitSelection ==
  /\ host = "committing"
  /\ \/ Commit("seed") /\ Advance
     \/ /\ Reject("seed")
        /\ host' = "down" /\ left' = {} /\ chosen' = None /\ cause' = "raced"
        /\ UNCHANGED starts
  /\ UNCHANGED << payloadVars, add, drawn, crashes, faults >>

EditLive(m) ==
  /\ host = "up"
  /\ ReadLive(m)
  /\ UNCHANGED repositoryVars

EditHeadless(m) == ReadHeadless(m) /\ UNCHANGED repositoryVars

CommitEdit(w) == (Commit(w) \/ Reject(w)) /\ UNCHANGED repositoryVars

\* The process of the host ends, at whatever it does.
CrashHost ==
  /\ host # "down" /\ crashes < MaxCrashes /\ crashes' = crashes + 1
  /\ host' = "down" /\ left' = {} /\ chosen' = None
  /\ add' = IF add.by = "host" THEN Idle ELSE add
  /\ DropEdits({"live", "seed"})
  /\ UNCHANGED << payloadVars, cause, starts, drawn, faults >>

\* A command ends.
CrashCommand ==
  /\ crashes < MaxCrashes /\ crashes' = crashes + 1
  /\ \/ add.by = "user" /\ add' = Idle /\ UNCHANGED registryVars
     \/ edit["headless"] # NoEdit /\ DropEdits({"headless"}) /\ add' = add
  /\ UNCHANGED << payloadVars, hostVars, drawn, faults >>

-----------------------------------------------------------------------------
Init ==
  /\ RegistryInit
  /\ published = {} /\ stage = [r \in Request |-> "none"]
  /\ add = Idle /\ drawn = {}
  /\ host = "down" /\ left = {} /\ chosen = None /\ cause = "none"
  /\ starts = 0 /\ crashes = 0 /\ faults = 0

Installation ==
  \/ Recover \/ Lookup
  \/ ResumePublished \/ ResumeStage \/ RefuseStage \/ ResumeCandidate \/ ResumeNothing
  \/ Write \/ WriteFails \/ Publish \/ PublishFails
  \/ Finalize \/ FinalizeConflicts \/ Report

Seeding == EnterHost \/ Select \/ CommitSelection

Next ==
  \/ Installation \/ Seeding
  \/ StartHost \/ CrashHost \/ CrashCommand
  \/ \E a \in Archive : EnterUser(a)
  \/ \E m \in Module : EditLive(m) \/ EditHeadless(m)
  \/ \E w \in {"live", "headless"} : CommitEdit(w)

Spec == Init /\ [][Next]_vars

\* Who holds the lease runs on, and so does a host that starts; nobody has to
\* start, to edit, to install or to end.
FairSpec == Spec /\ WF_vars(Installation) /\ WF_vars(Seeding)

-----------------------------------------------------------------------------
(***************************************************************************)
(* Properties.                                                             *)
(***************************************************************************)

StageState == {"none", "partial", "complete"}

TypeOK ==
  /\ RegistryTypeOK
  /\ published \subseteq Archive
  /\ stage \in [Request -> StageState]
  /\ add \in [by : {"host", "user"},
              pc : {"recover", "lookup", "resume", "write", "publish", "finalize", "report"},
              request : Request, archive : Archive, source : Source,
              intent : Request \cup {None}, todo : SUBSET Request] \cup {Idle}
  /\ drawn \subseteq UserRequest
  /\ host \in {"down", "seeding", "selecting", "committing", "up"}
  /\ left \subseteq Archive
  /\ chosen \in Archive \cup {None}
  /\ cause \in {"none", "io", "stage", "conflict", "pending", "raced"}
  /\ starts \in 0..MaxStarts /\ crashes \in 0..MaxCrashes /\ faults \in 0..MaxFaults

\* Whatever a module selects and whatever a receipt or the catalog names has its
\* payload, complete, under its digest.
RegisteredIsPublished ==
  /\ \A a \in Archive : Registered(a) => a \in published
  /\ \A r \in Request : Installed(r) => Registered(receipts[r].archive)
  /\ \A m \in Module :
       desired[m].selected \in Archive =>
         Registered(desired[m].selected) /\ ModuleOf[desired[m].selected] = m

\* No file is left that nothing will look at again: a stage belongs to a pending
\* intent, a published payload to one or to the catalog.
NothingOrphaned ==
  /\ \A r \in Request : stage[r] # "none" => intents[r] # NoIntent
  /\ \A a \in published : Registered(a) \/ \E r \in Pending : intents[r].archive = a

\* Registry and file system tell the same story, in both directions.
FilesAndCatalogAgree == RegisteredIsPublished /\ NothingOrphaned

\* What the user committed last for a module holds over every later start of
\* every build: the switch always, the selection unless it was one of the host.
UserChoiceKept ==
  \A m \in Module : choice[m] # NoChoice =>
    /\ desired[m].enabled = choice[m].enabled
    /\ \/ desired[m].selected = choice[m].selected
       \/ choice[m].selected = Builtin
       \/ choice[m].selected \in Archive /\ "bundled" \in catalog[choice[m].selected]

\* A row is only replaced by one that was computed from it.
NoLostUpdate ==
  [][\A w \in Writer :
       edit[w] # NoEdit /\ edit'[w] = NoEdit /\ desired' # desired =>
         desired[edit[w].module] = edit[w].base]_vars

\* Nobody loses a choice: not to an edit that was computed before it, and not
\* to the next start of the host.
EditsSurvive == []UserChoiceKept /\ NoLostUpdate

\* A start of the host ends: it is up, or failed and may be tried again.
StartsEnd ==
  host \in {"seeding", "selecting", "committing"} ~> host \in {"up", "down"}

\* A start fails only for a failing write, for a conflict of an archive of its
\* own, or for an edit that came between: not for what an installation that was
\* interrupted left behind.
StartRecovers == cause \in {"none", "io", "conflict", "raced"}
=============================================================================
