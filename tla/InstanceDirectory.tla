--------------------------- MODULE InstanceDirectory ---------------------------
(***************************************************************************)
(* Processes of shipctl that share one runtime root, and the commands that  *)
(* find them (src/core/backend/src/instance/leases.rs and control.rs).      *)
(*                                                                          *)
(* A process locks its name and its state root for life, binds an endpoint  *)
(* and publishes a descriptor under an identity of its own.  A command      *)
(* lists the descriptors, asks every endpoint who it is, removes what a     *)
(* dead process left, selects one instance and sends its request.  Nothing  *)
(* else synchronizes the two: processes start, stop and crash between any   *)
(* two steps of a command.  ControlServer is the inside of an endpoint.     *)
(***************************************************************************)
EXTENDS FiniteSets

CONSTANTS
  Process,     \* incarnations: every launch has a new identity
  Name, Root,  \* instance names and state roots
  NameOf, RootOf,
  Client,      \* commands
  None

VARIABLES
  state,       \* how far each process is
  descriptors, \* the processes whose descriptor is on disk
  foreign,     \* commands of a build with another control protocol
  step,        \* how far each command is
  todo,        \* the listed descriptors that a command has still to probe
  held,        \* the descriptor that it has read, or None
  live,        \* the instances that answered it
  halted,     \* processes whose acceptance of a stop has been received
  hidden,      \* those of them when the command listed the directory
  steady       \* the processes that served at that moment

directoryVars == << state, descriptors, foreign, step, todo, held, live, halted, hidden, steady >>
commandVars == << foreign, step, todo, held, live, halted, hidden, steady >>

\* A process owns its name from the first lock, its state root from the second,
\* until it ends: the locks are those of open files.
Named == { "named", "owning", "bound", "serving", "stopping", "closed" }
Owning == Named \ {"named"}
Answering == { "bound", "serving", "stopping" }
Published == { "serving", "stopping", "closed", "gone" }
State == Named \cup { "new", "gone" }

DirectoryInit ==
  /\ state = [p \in Process |-> "new"] /\ descriptors = {}
  /\ foreign \in SUBSET Client /\ step = [c \in Client |-> "idle"]
  /\ todo = [c \in Client |-> {}] /\ held = [c \in Client |-> None]
  /\ live = [c \in Client |-> {}]
  /\ halted = {} /\ hidden = [c \in Client |-> {}] /\ steady = [c \in Client |-> {}]

-----------------------------------------------------------------------------
\* Processes

Becomes(p, s) == state' = [state EXCEPT ![p] = s]

\* Mutant: a name is free when no descriptor has it.
NameUnpublished(p) == \A q \in Process : NameOf[q] = NameOf[p] => q \notin descriptors

NameFree(p) == \A q \in Process : NameOf[q] = NameOf[p] => state[q] \notin Named
RootFree(p) == \A q \in Process : RootOf[q] = RootOf[p] => state[q] \notin Owning

\* try_lock on the name; a process that does not get it ends.
AcquireName(p) ==
  /\ state[p] = "new"
  /\ Becomes(p, IF NameFree(p) THEN "named" ELSE "gone")
  /\ UNCHANGED << descriptors, commandVars >>

\* try_lock on the state root; the name is released with the process.
AcquireRoot(p) ==
  /\ state[p] = "named"
  /\ Becomes(p, IF RootFree(p) THEN "owning" ELSE "gone")
  /\ UNCHANGED << descriptors, commandVars >>

\* The listener is bound and its thread started before the descriptor is written.
BindListener(p) ==
  /\ state[p] = "owning" /\ Becomes(p, "bound")
  /\ UNCHANGED << descriptors, commandVars >>

\* The descriptor appears whole (a temporary file is renamed) or not at all.
PublishDescriptor(p) ==
  /\ state[p] = "bound"
  /\ \/ Becomes(p, "serving") /\ descriptors' = descriptors \cup {p}
     \/ Becomes(p, "gone") /\ UNCHANGED descriptors
  /\ UNCHANGED commandVars

\* The user quits: the endpoint closes before the descriptor is removed.
Quit(p) ==
  /\ state[p] = "serving" /\ Becomes(p, "closed")
  /\ UNCHANGED << descriptors, commandVars >>

\* An accepted stop closes the listener, whether or not its answer was read.
CloseEndpoint(p) ==
  /\ state[p] = "stopping" /\ Becomes(p, "closed")
  /\ UNCHANGED << descriptors, commandVars >>

\* ControlServer is dropped: it joins the requests in progress and removes what
\* is left of the descriptor.
DropServer(p) ==
  /\ state[p] = "closed"
  /\ \A c \in Client : step[c] = "withdrawn" => held[c] # p
  /\ Becomes(p, "gone") /\ descriptors' = descriptors \ {p}
  /\ UNCHANGED commandVars

\* The process ends at any moment and leaves its files.
Crash(p) ==
  /\ state[p] \in Named /\ Becomes(p, "gone")
  /\ UNCHANGED << descriptors, commandVars >>

-----------------------------------------------------------------------------
\* Commands

StepsTo(c, s) == step' = [step EXCEPT ![c] = s]

\* scan_with_reclamation lists the directory once, before it probes.
List(c) ==
  /\ step[c] = "idle" /\ StepsTo(c, "scanning")
  /\ todo' = [todo EXCEPT ![c] = descriptors]
  /\ hidden' = [hidden EXCEPT ![c] = halted]
  /\ steady' = [steady EXCEPT ![c] = { p \in Process : state[p] = "serving" }]
  /\ UNCHANGED << state, descriptors, foreign, held, live, halted >>

\* A descriptor that has gone since is a problem to report, nothing more.
ReadDescriptor(c) ==
  /\ step[c] = "scanning"
  /\ \E p \in todo[c] :
       /\ todo' = [todo EXCEPT ![c] = @ \ {p}]
       /\ IF p \in descriptors
            THEN StepsTo(c, "probing") /\ held' = [held EXCEPT ![c] = p]
            ELSE UNCHANGED << step, held >>
  /\ UNCHANGED << state, descriptors, foreign, live, halted, hidden, steady >>

Answers(c, p) == c \notin foreign /\ state[p] \in Answering

\* The hello exchange.  An endpoint that answers, with the protocol of the command,
\* is live.
Probe(c) ==
  /\ step[c] = "probing"
  /\ IF Answers(c, held[c])
       THEN /\ StepsTo(c, "scanning") /\ live' = [live EXCEPT ![c] = @ \cup {held[c]}]
            /\ held' = [held EXCEPT ![c] = None]
       ELSE StepsTo(c, "failed") /\ UNCHANGED << live, held >>
  /\ UNCHANGED << state, descriptors, foreign, todo, halted, hidden, steady >>

\* Mutant: whoever does not answer is taken for dead.
ReclaimUnreachable(c) ==
  /\ step[c] = "failed" /\ StepsTo(c, "scanning")
  /\ descriptors' = descriptors \ {held[c]}
  /\ held' = [held EXCEPT ![c] = None]
  /\ UNCHANGED << state, foreign, todo, live, halted, hidden, steady >>

\* A failed probe removes the files of a process whose identity (number and
\* start time) is dead, unless the command only reads (discover_read_only).
Reclaim(c) ==
  /\ step[c] = "failed" /\ StepsTo(c, "scanning")
  /\ \/ state[held[c]] = "gone" /\ descriptors' = descriptors \ {held[c]}
     \/ UNCHANGED descriptors
  /\ held' = [held EXCEPT ![c] = None]
  /\ UNCHANGED << state, foreign, todo, live, halted, hidden, steady >>

Matching(c, n) == { p \in live[c] : NameOf[p] = n }

\* select_instance: exactly one instance has the name, or there is only one.
Select(c) ==
  /\ step[c] = "scanning" /\ todo[c] = {}
  /\ \E found \in { live[c] } \cup { Matching(c, n) : n \in Name } :
       IF Cardinality(found) = 1
         THEN /\ StepsTo(c, "asking")
              /\ \E p \in found : held' = [held EXCEPT ![c] = p]
         ELSE StepsTo(c, "done") /\ UNCHANGED held
  /\ UNCHANGED << state, descriptors, foreign, todo, live, halted, hidden, steady >>

\* Mutant: the descriptor stays until the process ends.
RequestStopPublished(c) ==
  /\ step[c] = "asking" /\ state[held[c]] \in Answering
  /\ Becomes(held[c], "stopping")
  /\ StepsTo(c, "withdrawn")
  /\ UNCHANGED << descriptors, foreign, todo, held, live, halted, hidden, steady >>

\* A stop that is not blocked withdraws the descriptor first.
RequestStop(c) ==
  /\ step[c] = "asking" /\ state[held[c]] \in Answering
  /\ Becomes(held[c], "stopping")
  /\ descriptors' = descriptors \ {held[c]}
  /\ StepsTo(c, "withdrawn")
  /\ UNCHANGED << foreign, todo, held, live, halted, hidden, steady >>

\* Then it is answered.
ReceiveStop(c) ==
  /\ step[c] = "withdrawn" /\ state[held[c]] \in { "stopping", "closed" }
  /\ halted' = halted \cup {held[c]}
  /\ StepsTo(c, "done")
  /\ UNCHANGED << state, descriptors, foreign, todo, held, live, hidden, steady >>

\* Any other request, a refusal (active work, a descriptor that cannot be
\* removed), or a connection that breaks.
Finish(c) ==
  /\ step[c] \in { "asking", "withdrawn" }
  /\ step[c] = "withdrawn" => state[held[c]] = "gone"
  /\ StepsTo(c, "done")
  /\ UNCHANGED << state, descriptors, foreign, todo, held, live, halted, hidden, steady >>

-----------------------------------------------------------------------------
ProcessStep(p) ==
  \/ AcquireName(p) \/ AcquireRoot(p) \/ BindListener(p) \/ PublishDescriptor(p)
  \/ Quit(p) \/ CloseEndpoint(p) \/ DropServer(p) \/ Crash(p)

CommandStep(c) ==
  \/ List(c) \/ ReadDescriptor(c) \/ Probe(c) \/ Reclaim(c) \/ Select(c)
  \/ RequestStop(c) \/ ReceiveStop(c) \/ Finish(c)

DirectoryNext == (\E p \in Process : ProcessStep(p)) \/ (\E c \in Client : CommandStep(c))

DirectorySpec == DirectoryInit /\ [][DirectoryNext]_directoryVars

-----------------------------------------------------------------------------
\* Properties

\* Every variable keeps its type (control.rs:1841-1904, leases.rs:14-76).
DirectoryTypeOK ==
  /\ state \in [Process -> State] /\ descriptors \subseteq Process
  /\ foreign \subseteq Client
  /\ step \in [Client -> { "idle", "scanning", "probing", "failed", "asking", "withdrawn", "done" }]
  /\ todo \in [Client -> SUBSET Process] /\ held \in [Client -> Process \cup {None}]
  /\ live \in [Client -> SUBSET Process] /\ halted \subseteq Process
  /\ hidden \in [Client -> SUBSET Process] /\ steady \in [Client -> SUBSET Process]

\* An exact name or a state root never has two answers in one scan, although
\* processes of that name end and start while it runs (control.rs:1982).
NamesAreUnique ==
  \A c \in Client : \A p, q \in live[c] :
    NameOf[p] = NameOf[q] \/ RootOf[p] = RootOf[q] => p = q

\* Who got the acceptance of a stop, or lists the directory after that, does not
\* find the instance again (control.rs:487-505 withdraws before it answers).
StoppedAreHidden == \A c \in Client : live[c] \cap hidden[c] = {}

\* A scan that is complete found every instance of its protocol that served from
\* its beginning to now (control.rs:1873-1890): a descriptor is published after
\* its endpoint, and the command of another build removes none that is in use.
ServingAreFound ==
  \A c \in Client :
    step[c] = "scanning" /\ todo[c] = {} /\ c \notin foreign =>
      { p \in steady[c] : state[p] = "serving" } \subseteq live[c]

\* A process that serves can be found (control.rs:1873-1890).
ServingArePublished == \A p \in Process : state[p] = "serving" => p \in descriptors

\* What a command sees of the processes is true.
DirectoryIsTrue ==
  NamesAreUnique /\ StoppedAreHidden /\ ServingAreFound /\ ServingArePublished
=============================================================================
