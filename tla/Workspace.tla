------------------------------- MODULE Workspace -------------------------------
(***************************************************************************)
(* One workspace between the webview and the plugin data of the host.      *)
(*                                                                         *)
(* The authority (workspace/authority.ts) holds a revision of the document *)
(* and evaluates a command against it at once; the record that results is  *)
(* compared and saved by the plugin data of the host (plugin_data/mod.rs,  *)
(* through pluginDataPersistence.ts), which may answer that another record *)
(* was saved meanwhile.  Three clients use the authority side by side: the *)
(* canvas (canvasBridge.ts, one action at a time), requests of the public  *)
(* service (service.ts, any number) and the queue of accepted catalogs     *)
(* (acceptedCatalogController.ts).                                         *)
(*                                                                         *)
(* The host serves the calls of webviews one by one, in the order that     *)
(* they were made; answers may arrive in any order.  A document is the set *)
(* of edits that made it, WorkspaceDocument has what they do.              *)
(***************************************************************************)
EXTENDS Naturals, Sequences, FiniteSets

CONSTANTS
  Action,       \* actions of the canvas
  Request,      \* commands of the service
  MaxCatalog,   \* model bound on catalog revisions
  MaxSubmits,   \* model bound on catalogs submitted in one activation
  MaxReloads,   \* model bound on reloads of the webview and ends of the host
  MaxFaults     \* model bound on failing reads and writes of the storage

ASSUME WorkspaceBounds ==
  /\ Action \cap Request = {} /\ {"load", "catalog"} \cap (Action \cup Request) = {}
  /\ {MaxCatalog, MaxSubmits, MaxReloads, MaxFaults} \subseteq Nat

Edit == Action \cup Request
Call == Edit \cup {"load", "catalog"}

\* What is stored of a revision: the edits of its document, the catalog that the record
\* names, the one that its instances were reconciled with, and whether its schema is
\* current.
Document == [edits : SUBSET Edit, catalog : 0..MaxCatalog, under : 0..MaxCatalog]
Record == [document : Document, current : BOOLEAN]

VARIABLES
  published,   \* the storage: the records of all revisions, the last one is there
  inbox,       \* calls on their way to the host
  activation,  \* the webview that runs
  authority,   \* "closed", "loading", "available" or "unavailable"
  state,       \* the revision and document that the authority holds
  installed,   \* the revision of its catalog; 0 for the empty one of the host
  cataloged,   \* an accepted catalog was installed
  canvas,      \* the actions in the queue of the canvas; the first may be running
  submitted,   \* the catalogs in the queue of the controller; likewise
  highest,     \* the highest revision submitted
  step,        \* of a call: "idle", "sent", "answered" or "done", and "asking" or
               \* "told" for the read that follows a conflict
  answer,      \* of a call: what the host answered
  read,        \* of a request: the revision its caller inspected
  outcome,     \* of an edit: what its caller was told
  ended,       \* catalogs of this activation whose reconciliation ended
  reported,    \* ... and failed, which was reported
  submits, reloads, faults

storeVars == << published, inbox >>
authorityVars == << authority, state, installed, cataloged >>
queueVars == << canvas, submitted, highest, ended, reported, submits >>
callVars == << step, answer, read, outcome >>
workspaceVars ==
  << storeVars, activation, authorityVars, queueVars, callVars, reloads, faults >>

Stored == Len(published)
NoDocument == [edits |-> {}, catalog |-> 0, under |-> 0]
Held(r) == [revision |-> r, document |-> IF r = 0 THEN NoDocument ELSE published[r].document]

NoAnswer == [kind |-> "none", revision |-> 0]

-----------------------------------------------------------------------------
(***************************************************************************)
(* The host.                                                               *)
(***************************************************************************)

Message(call, kind, expected, document) ==
  [by |-> activation, call |-> call, kind |-> kind, expected |-> expected, document |-> document]

Read(call) == Message(call, "read", 0, NoDocument)

Answers(m, a) ==
  /\ inbox' = Tail(inbox)
  /\ IF m.by = activation
       THEN /\ answer' = [answer EXCEPT ![m.call] = a]
            /\ step' = [step EXCEPT ![m.call] = IF @ = "asking" THEN "told" ELSE "answered"]
       ELSE UNCHANGED << answer, step >>
  /\ UNCHANGED << activation, authorityVars, queueVars, read, outcome, reloads >>

\* The record that is there is returned, or that there is none.
ServeRead ==
  /\ inbox # << >> /\ Head(inbox).kind = "read"
  /\ Answers(Head(inbox), [kind |-> "record", revision |-> Stored])
  /\ UNCHANGED << published, faults >>

\* Mutant: the expected revision is not compared.
WriteAnything ==
  /\ inbox # << >> /\ Head(inbox).kind = "write"
  /\ published' = Append(published, [document |-> Head(inbox).document, current |-> TRUE])
  /\ Answers(Head(inbox), [kind |-> "record", revision |-> Stored + 1])
  /\ UNCHANGED faults

\* A record is compared and published under the lock of the store.
ServeWrite ==
  /\ inbox # << >> /\ Head(inbox).kind = "write"
  /\ IF Head(inbox).expected = Stored
       THEN /\ published' = Append(published, [document |-> Head(inbox).document, current |-> TRUE])
            /\ Answers(Head(inbox), [kind |-> "record", revision |-> Stored + 1])
       ELSE /\ Answers(Head(inbox), [kind |-> "conflict", revision |-> 0])
            /\ UNCHANGED published
  /\ UNCHANGED faults

\* A record of an old schema is replaced.  Nothing else writes one that is old, and a
\* webview reads it after the migration that its predecessor asked for, so neither a
\* conflict nor a repetition is met here.
ServeMigrate ==
  /\ inbox # << >> /\ Head(inbox).kind = "migrate"
  /\ published' = Append(published, [document |-> Head(inbox).document, current |-> TRUE])
  /\ Answers(Head(inbox), [kind |-> "record", revision |-> Stored + 1])
  /\ UNCHANGED faults

\* The storage cannot be read, or the new file not be put in its place.
ServeFails ==
  /\ inbox # << >> /\ faults < MaxFaults
  /\ faults' = faults + 1
  /\ Answers(Head(inbox), [kind |-> "failed", revision |-> 0])
  /\ UNCHANGED published

-----------------------------------------------------------------------------
(***************************************************************************)
(* The activation of the workspace plugin.                                 *)
(***************************************************************************)

\* An answer is used once.
Heard(call) == answer' = [answer EXCEPT ![call] = NoAnswer]

\* The plugin opens its authority: it loads the record.
Activate ==
  /\ authority = "closed"
  /\ authority' = "loading"
  /\ inbox' = Append(inbox, Read("load"))
  /\ step' = [step EXCEPT !["load"] = "sent"]
  /\ UNCHANGED << published, activation, state, installed, cataloged, queueVars, answer, read,
                  outcome, reloads, faults >>

\* Without a record the document is the empty profile; one of an old schema is migrated
\* first; when that or the load fails the workspace runs without persistence.
Loaded ==
  /\ step["load"] = "answered"
  /\ LET a == answer["load"]
         old == a.kind = "record" /\ a.revision > 0 /\ ~published[a.revision].current
     IN
     IF old
       THEN /\ inbox' = Append(inbox, Message("load", "migrate", a.revision,
                                              published[a.revision].document))
            /\ step' = [step EXCEPT !["load"] = "sent"]
            /\ UNCHANGED << authority, state >>
       ELSE /\ authority' = IF a.kind = "failed" THEN "unavailable" ELSE "available"
            /\ state' = Held(a.revision)
            /\ step' = [step EXCEPT !["load"] = "done"]
            /\ UNCHANGED inbox
  /\ Heard("load")
  /\ UNCHANGED << published, activation, installed, cataloged, queueVars, read, outcome, reloads,
                  faults >>

\* The webview reloads: what it knew and what it waited for is gone; the calls that it
\* made are served unless the host ends too.
Reload ==
  /\ authority # "closed" /\ reloads < MaxReloads
  /\ reloads' = reloads + 1
  /\ activation' = activation + 1
  /\ inbox' \in {inbox, << >>}
  /\ authority' = "closed" /\ state' = Held(0) /\ installed' = 0 /\ cataloged' = FALSE
  /\ canvas' = << >> /\ submitted' = << >> /\ highest' = 0 /\ submits' = 0
  /\ ended' = {} /\ reported' = {}
  /\ step' = [c \in Call |-> IF c \in Edit /\ step[c] # "idle" THEN "done" ELSE "idle"]
  /\ outcome' = [e \in Edit |-> IF outcome[e] = "none" /\ step[e] # "idle" THEN "lost"
                                ELSE outcome[e]]
  /\ answer' = [c \in Call |-> NoAnswer]
  /\ UNCHANGED << published, read, faults >>

Open == authority \in {"available", "unavailable"}

-----------------------------------------------------------------------------
(***************************************************************************)
(* Edits.                                                                  *)
(***************************************************************************)

\* What an edit makes of the document that is held; the record names the catalog that
\* is installed.
Edited(e) ==
  [edits |-> state.document.edits \cup {e}, catalog |-> installed, under |-> state.document.under]

\* The commit of a document: it is sent with the revision that it was computed from,
\* unless there is no storage.
Send(call, document) ==
  /\ authority = "available"
  /\ inbox' = Append(inbox, Message(call, "write", state.revision, document))
  /\ step' = [step EXCEPT ![call] = "sent"]

Tell(e, what) ==
  /\ step' = [step EXCEPT ![e] = "done"]
  /\ outcome' = [outcome EXCEPT ![e] = what]

\* A command of the revision that is held is committed; or it is of no effect or not
\* admitted; or there is no storage.
Evaluate(e) ==
  \/ Send(e, Edited(e)) /\ UNCHANGED << outcome >>
  \/ Tell(e, "refused") /\ UNCHANGED inbox
  \/ authority = "unavailable" /\ Tell(e, "failed") /\ UNCHANGED inbox

\* The user does something on the canvas.
Enqueue(e) ==
  /\ Open /\ e \in Action /\ step[e] = "idle"
  /\ \A k \in DOMAIN canvas : canvas[k] # e
  /\ canvas' = Append(canvas, e)
  /\ UNCHANGED << storeVars, activation, authorityVars, submitted, highest, ended, reported,
                  submits, callVars, reloads, faults >>

\* The canvas runs its next action, on the revision that is held then.
Execute ==
  /\ canvas # << >> /\ step[Head(canvas)] = "idle"
  /\ Evaluate(Head(canvas))
  /\ UNCHANGED << published, activation, authorityVars, queueVars, answer, read, reloads, faults >>

\* Mutant: an action that was not saved stops the queue.
FollowApplied ==
  /\ canvas # << >> /\ step[Head(canvas)] = "done" /\ outcome[Head(canvas)] = "applied"
  /\ canvas' = Tail(canvas)
  /\ UNCHANGED << storeVars, activation, authorityVars, submitted, highest, ended, reported,
                  submits, callVars, reloads, faults >>

\* The next action follows when this one ended.
Follow ==
  /\ canvas # << >> /\ step[Head(canvas)] = "done"
  /\ canvas' = Tail(canvas)
  /\ UNCHANGED << storeVars, activation, authorityVars, submitted, highest, ended, reported,
                  submits, callVars, reloads, faults >>

\* A caller of the service inspects the workspace ...
Inspect(e) ==
  /\ Open /\ e \in Request /\ step[e] = "idle" /\ read[e] # state.revision
  /\ read' = [read EXCEPT ![e] = state.revision]
  /\ UNCHANGED << storeVars, activation, authorityVars, queueVars, step, answer, outcome,
                  reloads, faults >>

\* ... and asks later for a command on the revision that it saw, which is refused at
\* once when the authority holds another.
Apply(e) ==
  /\ Open /\ e \in Request /\ step[e] = "idle"
  /\ IF read[e] = state.revision THEN Evaluate(e) ELSE Tell(e, "conflict") /\ UNCHANGED inbox
  /\ UNCHANGED << published, activation, authorityVars, queueVars, answer, read, reloads, faults >>

-----------------------------------------------------------------------------
(***************************************************************************)
(* Catalogs.                                                               *)
(***************************************************************************)

\* A family was accepted, its catalog is submitted unless a higher one was.
Submit(c) ==
  /\ Open /\ submits < MaxSubmits /\ c >= highest
  /\ submits' = submits + 1
  /\ highest' = c
  /\ submitted' = Append(submitted, c)
  /\ UNCHANGED << storeVars, activation, authorityVars, canvas, ended, reported, callVars,
                  reloads, faults >>

Reconciled(c) == [edits |-> state.document.edits, catalog |-> c, under |-> c]

\* The reconciliation of the first catalog of the queue ends; a failure is reported.
End(c, failed) ==
  /\ submitted' = Tail(submitted)
  /\ step' = [step EXCEPT !["catalog"] = "idle"]
  /\ ended' = ended \cup {c}
  /\ reported' = IF failed THEN reported \cup {c} ELSE reported
  /\ UNCHANGED << canvas, highest, submits >>

\* Mutant: a catalog that changes nothing is taken for one that is installed.
ReconcileUnchanged ==
  LET c == Head(submitted)
      unchanged == state.document.catalog = c /\ Reconciled(c) = state.document
  IN
  /\ submitted # << >> /\ step["catalog"] = "idle"
  /\ \/ unchanged /\ End(c, FALSE) /\ UNCHANGED << installed, cataloged, inbox >>
     \/ ~unchanged /\ Send("catalog", Reconciled(c)) /\ UNCHANGED << installed, cataloged, queueVars >>
     \/ /\ ~unchanged /\ authority = "unavailable"
        /\ End(c, TRUE) /\ UNCHANGED << installed, cataloged, inbox >>
  /\ UNCHANGED << published, activation, authority, state, answer, read, outcome, reloads, faults >>

\* A catalog that changes neither the record nor the document is installed without a
\* commit, if it is the first; any other is committed.
Reconcile ==
  LET c == Head(submitted)
      unchanged == state.document.catalog = c /\ Reconciled(c) = state.document
  IN
  /\ submitted # << >> /\ step["catalog"] = "idle"
  /\ \/ /\ unchanged
        /\ IF cataloged THEN UNCHANGED << installed, cataloged >>
           ELSE installed' = c /\ cataloged' = TRUE
        /\ End(c, FALSE) /\ UNCHANGED inbox
     \/ /\ ~unchanged /\ Send("catalog", Reconciled(c))
        /\ UNCHANGED << installed, cataloged, queueVars >>
     \/ /\ ~unchanged /\ authority = "unavailable"
        /\ End(c, TRUE) /\ UNCHANGED << installed, cataloged, inbox >>
  /\ UNCHANGED << published, activation, authority, state, answer, read, outcome, reloads, faults >>

-----------------------------------------------------------------------------
(***************************************************************************)
(* Answers to commits.                                                     *)
(***************************************************************************)

Commits == Edit \cup {"catalog"}

\* The end of a commit, for its caller.
Finish(call, what) ==
  IF call = "catalog"
    THEN End(Head(submitted), what # "applied") /\ UNCHANGED outcome
    ELSE Tell(call, what) /\ UNCHANGED queueVars

\* The record was saved: it is held now, and its catalog installed.
Saved(call) ==
  /\ call \in Commits /\ step[call] = "answered" /\ answer[call].kind = "record"
  /\ state' = Held(answer[call].revision)
  /\ IF call = "catalog" THEN installed' = Head(submitted) /\ cataloged' = TRUE
     ELSE UNCHANGED << installed, cataloged >>
  /\ Finish(call, "applied")
  /\ Heard(call)
  /\ UNCHANGED << storeVars, activation, authority, read, reloads, faults >>

\* Another record was saved before: it is read ...
Conflicts(call) ==
  /\ call \in Commits /\ step[call] = "answered" /\ answer[call].kind = "conflict"
  /\ inbox' = Append(inbox, Read(call))
  /\ step' = [step EXCEPT ![call] = "asking"]
  /\ Heard(call)
  /\ UNCHANGED << published, activation, authorityVars, queueVars, read, outcome, reloads, faults >>

\* Mutant: the revision of what was read is adopted without its document.
AdoptRevision(call) ==
  /\ call \in Commits /\ step[call] = "told" /\ answer[call].kind = "record"
  /\ state' = [state EXCEPT !.revision = answer[call].revision]
  /\ Finish(call, "conflict")
  /\ Heard(call)
  /\ UNCHANGED << storeVars, activation, authority, installed, cataloged, read, reloads, faults >>

\* ... and held, whoever saved it; the command is given up.
Adopt(call) ==
  /\ call \in Commits /\ step[call] = "told" /\ answer[call].kind = "record"
  /\ state' = Held(answer[call].revision)
  /\ Finish(call, "conflict")
  /\ Heard(call)
  /\ UNCHANGED << storeVars, activation, authority, installed, cataloged, read, reloads, faults >>

\* The write or the read failed: what is held stays.
Fails(call) ==
  /\ call \in Commits /\ step[call] \in {"answered", "told"} /\ answer[call].kind = "failed"
  /\ Finish(call, "failed")
  /\ Heard(call)
  /\ UNCHANGED << storeVars, activation, authorityVars, read, reloads, faults >>

-----------------------------------------------------------------------------
\* A new installation, or one whose record was written by an earlier version.
WorkspaceInit ==
  /\ published \in {<< >>, << [document |-> NoDocument, current |-> FALSE] >>}
  /\ inbox = << >> /\ activation = 0
  /\ authority = "closed" /\ state = Held(0) /\ installed = 0 /\ cataloged = FALSE
  /\ canvas = << >> /\ submitted = << >> /\ highest = 0 /\ submits = 0
  /\ ended = {} /\ reported = {}
  /\ step = [c \in Call |-> "idle"] /\ answer = [c \in Call |-> NoAnswer]
  /\ read = [e \in Request |-> 0] /\ outcome = [e \in Edit |-> "none"]
  /\ reloads = 0 /\ faults = 0

HostServes == ServeRead \/ ServeWrite \/ ServeMigrate \/ ServeFails
Opens == Activate \/ Loaded
Answered(call) == Saved(call) \/ Conflicts(call) \/ Adopt(call) \/ Fails(call)
Begins == Execute \/ Follow \/ Reconcile

WorkspaceNext ==
  \/ HostServes
  \/ Opens \/ Reload
  \/ \E e \in Edit : Enqueue(e) \/ Inspect(e) \/ Apply(e)
  \/ \E c \in 1..MaxCatalog : Submit(c)
  \/ Begins
  \/ \E call \in Commits : Answered(call)

\* The event loops of host and webview run what can run.
WorkspaceFairness ==
  /\ WF_workspaceVars(HostServes) /\ WF_workspaceVars(Opens)
  /\ WF_workspaceVars(Execute \/ Follow) /\ WF_workspaceVars(Reconcile)
  /\ \A call \in Commits : WF_workspaceVars(Answered(call))

WorkspaceSpec == WorkspaceInit /\ [][WorkspaceNext]_workspaceVars /\ WorkspaceFairness

-----------------------------------------------------------------------------
\* Every variable has its type (authority.ts:75-80, acceptedCatalogController.ts:25-27).
WorkspaceTypeOK ==
  /\ published \in Seq(Record)
  /\ \A k \in DOMAIN inbox : inbox[k].call \in Call /\ inbox[k].by \in 0..activation
  /\ authority \in {"closed", "loading", "available", "unavailable"}
  /\ state \in [revision : 0..Stored, document : Document]
  /\ installed \in 0..MaxCatalog /\ cataloged \in BOOLEAN
  /\ canvas \in Seq(Action) /\ submitted \in Seq(1..MaxCatalog) /\ highest \in 0..MaxCatalog
  /\ ended \subseteq 1..MaxCatalog /\ reported \subseteq ended
  /\ step \in [Call -> {"idle", "sent", "answered", "asking", "told", "done"}]
  /\ outcome \in [Edit -> {"none", "applied", "refused", "conflict", "failed", "lost"}]
  /\ activation = reloads /\ reloads \in 0..MaxReloads /\ faults \in 0..MaxFaults

\* Callers are told the truth: an applied edit is in the document from then on, one that
\* was refused, failed or met a conflict is in none, so it may be repeated ...
EditsAsTold ==
  \A e \in Edit :
    /\ outcome[e] = "applied" => Stored > 0 /\ e \in published[Stored].document.edits
    /\ outcome[e] \in {"refused", "conflict", "failed"} =>
         \A r \in DOMAIN published : e \notin published[r].document.edits

\* ... and an accepted catalog whose reconciliation ended is installed, or a later one, or
\* its failure was reported (acceptedCatalogController.ts:54-73).
CatalogsAsTold == \A c \in ended : c \in reported \/ (cataloged /\ installed >= c)

\* What the authority holds is what was published at that revision, whatever answers came
\* in which order (authority.ts:1426-1448).
HeldIsPublished == state = Held(state.revision)

\* What callers, the controller and the authority itself are told is true of the storage
\* (authority.ts:1353-1470).
ToldTheTruth == EditsAsTold /\ CatalogsAsTold /\ HeldIsPublished

\* An action of the canvas and a submitted catalog come to an end, unless the webview is
\* reloaded, and so does every request: the webview comes to rest again and again
\* (canvasBridge.ts:159-229).
CallsEnd ==
  []<>(/\ canvas = << >> /\ submitted = << >>
       /\ \A e \in Request : step[e] \in {"idle", "done"})
=============================================================================
