------------------------------ MODULE TerminalHost ------------------------------
(***************************************************************************)
(* The lifecycle of terminals: the registry of the host                    *)
(* (terminal_host/service.rs), the record of each terminal (record.rs) and *)
(* the actor that serves it (runtime.rs), under callers that close, a       *)
(* shutdown and a start that fails.                                        *)
(*                                                                         *)
(* What the host publishes is the matter of TerminalProjection: publishing *)
(* changes no state of the host.                                           *)
(***************************************************************************)
EXTENDS Naturals, Sequences

CONSTANTS
  Terminal,    \* terminal ids, each spawned at most once
  Caller,      \* clients that close: webviews and command lines
  Host,        \* closes every terminal at shutdown
  MaxUpdates   \* model bound on updates of metadata

ASSUME TerminalHostAssumption == Host \notin Caller /\ MaxUpdates \in Nat

VARIABLES
  down,      \* the host shuts down
  records,   \* the registered terminals
  record,    \* of a terminal: lifecycle, revision and exit
  spawn,     \* what its spawn does
  actor,     \* what its actor does
  child,     \* its process
  closing,   \* of a caller and a terminal: its call of close
  removed,   \* history: the removals that were published
  updates

vars == << down, records, record, spawn, actor, child, closing, removed, updates >>

Closer == Caller \cup {Host}
Lifecycle == {"none", "starting", "running", "closing", "exited"}
StageOf == [life \in Lifecycle |->
  CASE life = "closing" -> 3 [] life = "exited" -> 4 [] life = "running" -> 2 [] OTHER -> 1]

NewRecord == [life |-> "none", rev |-> 0, exit |-> "none"]

Revised(r, life) == [r EXCEPT !.life = life, !.rev = @ + 1]
Finished(r, why) == IF r.life = "exited" THEN r ELSE [Revised(r, "exited") EXCEPT !.exit = why]

\* Mutant: a record is marked whatever its lifecycle is.
MarkedAlways(r) == Revised(r, "closing")
Marked(r) == IF r.life \in {"starting", "running"} THEN Revised(r, "closing") ELSE r

-----------------------------------------------------------------------------
(***************************************************************************)
(* Spawn and the actor.                                                    *)
(***************************************************************************)

\* The flag of the shutdown is read under the lock of the registry.
Spawn(t) ==
  /\ spawn[t] = "idle" /\ ~ down
  /\ records' = records \cup {t}
  /\ record' = [record EXCEPT ![t].life = "starting"]
  /\ spawn' = [spawn EXCEPT ![t] = "starting"]
  /\ UNCHANGED << down, actor, child, closing, removed, updates >>

\* The actor installs its handle; a record that is already closing stays so.
Start(t) ==
  /\ spawn[t] = "starting"
  /\ spawn' = [spawn EXCEPT ![t] = "started"]
  /\ actor' = [actor EXCEPT ![t] = "serving"]
  /\ child' = [child EXCEPT ![t] = "running"]
  /\ record' = [record EXCEPT ![t] = IF @.life = "starting" THEN Revised(@, "running") ELSE @]
  /\ UNCHANGED << down, records, closing, removed, updates >>

\* Without a process the record leaves the registry, and nothing is published.
StartFails(t) ==
  /\ spawn[t] = "starting"
  /\ spawn' = [spawn EXCEPT ![t] = "failed"]
  /\ UNCHANGED << down, records, record, actor, child, closing, removed, updates >>

ForgetFailed(t) ==
  /\ spawn[t] = "failed" /\ (t \in records \/ record[t].exit = "none")
  /\ records' = records \ {t}
  /\ record' = [record EXCEPT ![t] = Finished(@, "startup")]
  /\ UNCHANGED << down, spawn, actor, child, closing, removed, updates >>

\* The child ends by itself or because it was told to.
ChildEnds(t) ==
  /\ child[t] \in {"running", "told"}
  /\ child' = [child EXCEPT ![t] = "gone"]
  /\ UNCHANGED << down, records, record, spawn, actor, closing, removed, updates >>

\* The exit is final in the record before anybody learns of it.
Exit(t) ==
  /\ actor[t] \in {"serving", "closing"} /\ child[t] = "gone"
  /\ record' = [record EXCEPT ![t] = Finished(@, IF actor[t] = "closing" THEN "closed" ELSE "process")]
  /\ actor' = [actor EXCEPT ![t] = "exiting"]
  /\ UNCHANGED << down, records, spawn, child, closing, removed, updates >>

\* Mutant: the callers that wait are forgotten.
ForgetClosers(t) ==
  /\ actor[t] = "exiting"
  /\ actor' = [actor EXCEPT ![t] = "exited"]
  /\ UNCHANGED << down, records, record, spawn, child, closing, removed, updates >>

\* Once the exit is published, every caller that waits is answered.
AnswerClosers(t) ==
  /\ actor[t] = "exiting"
  /\ actor' = [actor EXCEPT ![t] = "exited"]
  /\ closing' = [c \in Closer |-> [closing[c] EXCEPT
       ![t] = IF @.pc = "waiting" THEN [pc |-> "answered", exit |-> record[t].exit] ELSE @]]
  /\ UNCHANGED << down, records, record, spawn, child, removed, updates >>

\* An actor takes an update of metadata in every state but its last.
UpdateMetadata(t) ==
  /\ actor[t] \in {"serving", "closing", "exited"} /\ t \in records
  /\ updates < MaxUpdates /\ updates' = updates + 1
  /\ record' = [record EXCEPT ![t] = Revised(@, @.life)]
  /\ UNCHANGED << down, records, spawn, actor, child, closing, removed >>

-----------------------------------------------------------------------------
(***************************************************************************)
(* Close and shutdown.                                                     *)
(***************************************************************************)

Call(c, t, pc) == closing' = [closing EXCEPT ![c][t].pc = pc]

\* A caller marks the record before it asks for anything; an absent terminal is
\* closed.
Close(c, t) ==
  /\ closing[c][t].pc = "idle" /\ spawn[t] # "idle"
  /\ IF t \in records
     THEN Call(c, t, "marked") /\ record' = [record EXCEPT ![t] = Marked(@)]
     ELSE Call(c, t, "absent") /\ UNCHANGED record
  /\ UNCHANGED << down, records, spawn, actor, child, removed, updates >>

\* The shutdown sets its flag, then takes all records at once.  It marks them in turn;
\* here with the records, since no other terminal depends on when one is marked.
BeginShutdown ==
  /\ ~ down /\ down' = TRUE
  /\ UNCHANGED << records, record, spawn, actor, child, closing, removed, updates >>

Drain ==
  /\ down /\ records # {} /\ \A t \in Terminal : closing[Host][t].pc = "idle"
  /\ records' = {}
  /\ record' = [t \in Terminal |-> IF t \in records THEN Marked(record[t]) ELSE record[t]]
  /\ closing' = [closing EXCEPT ![Host] =
       [t \in Terminal |-> IF t \in records THEN [@[t] EXCEPT !.pc = "marked"] ELSE @[t]]]
  /\ UNCHANGED << down, spawn, actor, child, removed, updates >>

\* It waits for the start to be over; without an actor it finishes the record.
AwaitStart(c, t) ==
  /\ closing[c][t].pc = "marked" /\ spawn[t] # "starting"
  /\ IF spawn[t] = "failed"
     THEN /\ record' = [record EXCEPT ![t] = Finished(@, "closed")]
          /\ closing' = [closing EXCEPT ![c][t] = [pc |-> "answered", exit |-> record'[t].exit]]
     ELSE Call(c, t, "sending") /\ UNCHANGED record
  /\ UNCHANGED << down, records, spawn, actor, child, removed, updates >>

\* The actor takes the request.  The first one tells the child to end, others
\* join it; one that finds the exit is answered and is the last.
TakeClose(c, t) ==
  /\ closing[c][t].pc = "sending"
  /\ \/ /\ actor[t] = "serving"
        /\ actor' = [actor EXCEPT ![t] = "closing"]
        /\ child' = [child EXCEPT ![t] = IF @ = "running" THEN "told" ELSE @]
        /\ Call(c, t, "waiting")
     \/ /\ actor[t] = "closing"
        /\ Call(c, t, "waiting")
        /\ UNCHANGED << actor, child >>
     \/ /\ actor[t] = "exited"
        /\ actor' = [actor EXCEPT ![t] = "stopped"]
        /\ closing' = [closing EXCEPT ![c][t] = [pc |-> "answered", exit |-> record[t].exit]]
        /\ UNCHANGED child
  /\ UNCHANGED << down, records, record, spawn, removed, updates >>

\* Nobody receives from a caller any more.
Refused(c, t) ==
  /\ closing[c][t].pc = "sending" /\ actor[t] = "stopped"
  /\ Call(c, t, "refused")
  /\ UNCHANGED << down, records, record, spawn, actor, child, removed, updates >>

\* Mutant: every caller that was answered publishes a removal.
CommitCloseAlways(c, t) ==
  /\ closing[c][t].pc = "answered" /\ c # Host
  /\ records' = records \ {t}
  /\ Call(c, t, "removing")
  /\ UNCHANGED << down, record, spawn, actor, child, removed, updates >>

\* Who removes the record publishes the removal.
CommitClose(c, t) ==
  /\ closing[c][t].pc = "answered" /\ c # Host
  /\ records' = records \ {t}
  /\ Call(c, t, IF t \in records THEN "removing" ELSE "closed")
  /\ UNCHANGED << down, record, spawn, actor, child, removed, updates >>

PublishRemoval(c, t) ==
  /\ closing[c][t].pc = "removing"
  /\ removed' = Append(removed, t)
  /\ Call(c, t, "closed")
  /\ UNCHANGED << down, records, record, spawn, actor, child, updates >>

-----------------------------------------------------------------------------
Init ==
  /\ down = FALSE /\ records = {}
  /\ record = [t \in Terminal |-> NewRecord]
  /\ spawn = [t \in Terminal |-> "idle"]
  /\ actor = [t \in Terminal |-> "off"]
  /\ child = [t \in Terminal |-> "none"]
  /\ closing = [c \in Closer |-> [t \in Terminal |-> [pc |-> "idle", exit |-> "none"]]]
  /\ removed = << >> /\ updates = 0

Closing(c, t) == AwaitStart(c, t) \/ TakeClose(c, t) \/ Refused(c, t)
                   \/ CommitClose(c, t) \/ PublishRemoval(c, t)
Serving(t) == Start(t) \/ StartFails(t) \/ ForgetFailed(t) \/ Exit(t) \/ AnswerClosers(t)

Next ==
  \/ \E t \in Terminal : Spawn(t) \/ Serving(t) \/ ChildEnds(t) \/ UpdateMetadata(t)
  \/ \E c \in Caller, t \in Terminal : Close(c, t)
  \/ \E c \in Closer, t \in Terminal : Closing(c, t)
  \/ BeginShutdown \/ Drain

Spec == Init /\ [][Next]_vars

\* Threads run on, and a child that was told to end does, by force at the latest.
FairSpec ==
  /\ Spec
  /\ \A t \in Terminal : WF_vars(Serving(t)) /\ WF_vars(child[t] = "told" /\ ChildEnds(t))
  /\ \A c \in Closer, t \in Terminal : WF_vars(Closing(c, t))

-----------------------------------------------------------------------------
(***************************************************************************)
(* Properties.                                                             *)
(***************************************************************************)

\* Every variable keeps its type (service.rs:31-60, record.rs:20-45).
TypeOK ==
  /\ down \in BOOLEAN /\ updates \in 0..MaxUpdates /\ records \subseteq Terminal
  /\ record \in [Terminal -> [life : Lifecycle, rev : Nat, exit : {"none", "process", "closed", "startup"}]]
  /\ spawn \in [Terminal -> {"idle", "starting", "started", "failed"}]
  /\ actor \in [Terminal -> {"off", "serving", "closing", "exiting", "exited", "stopped"}]
  /\ child \in [Terminal -> {"none", "running", "told", "gone"}]
  /\ closing \in [Closer -> [Terminal -> [exit : {"none", "process", "closed", "startup"},
       pc : {"idle", "absent", "marked", "sending", "waiting", "answered", "refused", "removing", "closed"}]]]
  /\ removed \in Seq(Terminal)

\* A terminal leaves the registry for good, once, and only after its process is gone:
\* however many callers close it, one of them publishes the removal, and every one of
\* them that is answered sees the exit of the record (the comments of close,
\* service.rs:425-431 and 458-459).
RemovalsAreFinal ==
  /\ \A i, j \in DOMAIN removed : removed[i] = removed[j] => i = j
  /\ \A t \in Terminal :
       /\ \/ \E i \in DOMAIN removed : removed[i] = t
          \/ \E c \in Caller : closing[c][t].pc = "removing"
          => t \notin records /\ child[t] \in {"none", "gone"} /\ record[t].life = "exited"
       /\ \A c \in Closer : closing[c][t].exit # "none" => closing[c][t].exit = record[t].exit

\* What a projection of the registry may rely on: a terminal is registered and leaves
\* once, its lifecycle only advances, and what changes is a later revision.
Lives == INSTANCE TerminalLives
  WITH Terminal <- Terminal, records <- records,
       born <- {t \in Terminal : spawn[t] # "idle"},
       shown <- [t \in Terminal |-> [stage |-> StageOf[record[t].life], rev |-> record[t].rev,
                                  exit |-> record[t].exit]]
HostKeepsPromise == Lives!LivesSpec

\* Every call of close ends, also the host's at shutdown: the request is taken or
\* refused whatever the spawn, the actor and the child do (service.rs:432-525).  A
\* caller closes a terminal once, so in the end no call is left open.
ClosesEnd ==
  <>[] \A c \in Closer, t \in Terminal :
    closing[c][t].pc \in {"idle", "closed", "absent", "refused"} \cup (IF c = Host THEN {"answered"} ELSE {})

-----------------------------------------------------------------------------
(***************************************************************************)
(* The inductive invariant (TerminalsProofs).                              *)
(***************************************************************************)

\* Nothing of a terminal exists before its spawn, no actor without a start.
SpawnLeads ==
  \A t \in Terminal :
    /\ spawn[t] = "idle" => t \notin records /\ \A c \in Closer : closing[c][t].pc = "idle"
    /\ spawn[t] = "idle" <=> record[t].life = "none"
    /\ spawn[t] = "starting" => record[t].life \in {"starting", "closing"}
    /\ actor[t] = "off" <=> spawn[t] # "started"
    /\ actor[t] = "off" <=> child[t] = "none"

\* An exit is recorded with its lifecycle, before anybody learns of it.
ExitIsLast ==
  \A t \in Terminal :
    /\ record[t].exit # "none" <=> record[t].life = "exited"
    /\ actor[t] \in {"exiting", "exited", "stopped"} => record[t].life = "exited"
    /\ record[t].life = "exited" => child[t] \in {"none", "gone"}

\* What a caller was answered is the exit of the record.
CallersKnowExit ==
  \A c \in Closer, t \in Terminal :
    /\ closing[c][t].exit # "none" => closing[c][t].exit = record[t].exit
    /\ closing[c][t].pc \in {"answered", "removing"} => record[t].life = "exited"

Removed == {removed[i] : i \in DOMAIN removed}

\* A removal is on its way with one caller or published once.
OneRemoval ==
  /\ \A i, j \in DOMAIN removed : removed[i] = removed[j] => i = j
  /\ \A t \in Removed : t \notin records /\ record[t].life = "exited"
  /\ \A c \in Closer, t \in Terminal : closing[c][t].pc = "removing" =>
       /\ c # Host /\ t \notin records /\ t \notin Removed
       /\ \A d \in Closer : closing[d][t].pc = "removing" => d = c

HostInv == TypeOK /\ SpawnLeads /\ ExitIsLast /\ CallersKnowExit /\ OneRemoval
=============================================================================
