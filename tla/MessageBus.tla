----------------------------- MODULE MessageBus -----------------------------
(***************************************************************************)
(* The in-process message bus of core/backend/src/message_bus.             *)
(*                                                                         *)
(* Registrations (one per activated module) own endpoints: directed        *)
(* channels, capability ports and broadcast topics.  A writer that holds   *)
(* the update lock publishes complete, immutable route tables; callers     *)
(* read the current table without that lock, check the route and await a   *)
(* place in the owner's bounded queue.  Each channel and port has one      *)
(* worker task, which stops when its registration is withdrawn.            *)
(*                                                                         *)
(* A caller, a worker and the writer run on different threads, so every    *)
(* point where one can be overtaken by another is a step of its own.       *)
(***************************************************************************)
EXTENDS Naturals, Sequences, FiniteSets

CONSTANTS
  Registration,   \* prepared registrations: the identity of the shared object
  Activation,     \* activation ids, the keys of the registration map
  Endpoint,       \* channel, port and topic ids
  Message,        \* calls: each is one send or one request
  ActivationOf,   \* [Registration -> Activation]
  Handles,        \* [Registration -> SUBSET Endpoint]: directed channels
  Ports,          \* [Registration -> SUBSET Endpoint]: capability ports
  Publishes,      \* [Registration -> SUBSET Endpoint]: broadcast topics
  Subscribes,     \* [Registration -> SUBSET Endpoint]: topics it subscribes to
  Compatible,     \* pairs <<subscriber, publisher>> with compatible versions
  Target,         \* [Message -> Endpoint]
  Request,        \* the calls that are port requests; the others are sends
  Valid,          \* messages that pass the grant and the contract of the route
  Capacity,       \* places in the bounded queue of a channel or port
  MaxGeneration   \* model bound on the number of published tables

ASSUME BusAssumption ==
  /\ ActivationOf \in [Registration -> Activation]
  /\ Handles \in [Registration -> SUBSET Endpoint]
  /\ Ports \in [Registration -> SUBSET Endpoint]
  /\ Publishes \in [Registration -> SUBSET Endpoint]
  /\ Subscribes \in [Registration -> SUBSET Endpoint]
  /\ \A m \in Message : Target[m] \in Endpoint
  /\ Request \subseteq Message
  /\ Valid \subseteq Message
  /\ Capacity \in Nat \ {0}
  /\ MaxGeneration \in Nat

VARIABLES
  tables,      \* the route tables published so far; generation g is tables[g]
  announced,   \* generation shown by the public snapshot watch
  cancelling,  \* replaced registrations the lock holder has still to cancel
  started,     \* registrations whose workers were spawned
  withdrawn,   \* registrations that are withdrawn and cancelled
  retired,     \* withdrawn registrations kept for inspection
  disposing,   \* taken out of retired, their workers being awaited
  disposed,    \* all workers joined
  stopped,     \* worker tasks that ended: pairs <<registration, endpoint>>
  queue,       \* [Registration \X Endpoint -> Seq(Message)]
  stamp,       \* the generation of the table a call read
  owner,       \* the registration that table routed the call to
  caller,      \* where the calling task stands
  work         \* where the enqueued message stands

busVars == << tables, announced, cancelling, started, withdrawn, retired,
              disposing, disposed, stopped, queue, stamp, owner, caller, work >>

lockVars == << tables, announced, cancelling, started >>
retireVars == << withdrawn, retired, disposing, disposed >>
callVars == << stamp, owner, caller, work >>

NoRegistration == "no registration"

CallerState == {"idle", "routed", "sending", "enqueued", "awaiting",
                "accepted", "answered", "refused", "abandoned"}
WorkState == {"none", "queued", "taken", "running", "done", "dropped"}

Route == Registration \X Endpoint

-----------------------------------------------------------------------------
(***************************************************************************)
(* Route tables.                                                           *)
(***************************************************************************)

Generation == Len(tables)

Active == IF tables = << >> THEN {} ELSE tables[Len(tables)]

Owns(r) == Handles[r] \cup Ports[r] \cup Publishes[r]

\* A complete table is refused when an endpoint has two owners or a
\* subscription has no compatible publisher in the same table.
Buildable(next) ==
  /\ \A r, s \in next : r # s => Owns(r) \cap Owns(s) = {}
  /\ \A r \in next : /\ Handles[r] \cap (Ports[r] \cup Publishes[r]) = {}
                     /\ Ports[r] \cap Publishes[r] = {}
  /\ \A r \in next : \A t \in Subscribes[r] :
       \E s \in next : t \in Publishes[s] /\ << r, s >> \in Compatible

\* The registration map is keyed by activation id.
DistinctActivations(next) ==
  \A r, s \in next : ActivationOf[r] = ActivationOf[s] => r = s

Activations(S) == {ActivationOf[r] : r \in S}

\* Registrations are prepared for one publication and never resubmitted.
Fresh == Registration \ started

\* The update lock is held from the new table until the last replaced
\* registration has been cancelled.
LockFree == announced = Generation /\ cancelling = {}

\* Mutant: a registration that stays is retired with the replaced ones.
PublishRetiresKept(next) ==
  /\ LockFree
  /\ Generation < MaxGeneration
  /\ DistinctActivations(next)
  /\ Buildable(next)
  /\ tables' = Append(tables, next)
  /\ started' = started \cup next
  /\ cancelling' = Active
  /\ UNCHANGED << announced, stopped, queue, callVars, retireVars >>

Publish(next) ==
  /\ LockFree
  /\ Generation < MaxGeneration
  /\ DistinctActivations(next)
  /\ Buildable(next)
  /\ tables' = Append(tables, next)
  /\ started' = started \cup next
  /\ cancelling' = Active \ next
  /\ UNCHANGED << announced, stopped, queue, callVars, retireVars >>

RegisterMany(S) ==
  /\ S # {}
  /\ Activations(S) \cap Activations(Active) = {}
  /\ Publish(Active \cup S)

Replace(a, r) ==
  /\ a \in Activations(Active)
  /\ LET kept == {s \in Active : ActivationOf[s] # a} IN
       /\ ActivationOf[r] \notin Activations(kept)
       /\ Publish(kept \cup {r})

ReconcileMany(expected, ids, S) ==
  /\ expected = Generation
  /\ LET kept == {s \in Active : ActivationOf[s] \notin ids} IN
       /\ Activations(S) \cap Activations(kept) = {}
       /\ Publish(kept \cup S)

PublishComplete(S) == Publish(S)

WithdrawMany(ids) ==
  /\ ids \cap Activations(Active) # {}
  /\ Publish({s \in Active : ActivationOf[s] \notin ids})

\* The public watch is written after the internal one, under the same lock.
Announce ==
  /\ announced # Generation
  /\ announced' = Generation
  /\ UNCHANGED << tables, cancelling, started, stopped, queue, callVars, retireVars >>

WithdrawAndCancel(r) ==
  /\ announced = Generation
  /\ r \in cancelling
  /\ cancelling' = cancelling \ {r}
  /\ withdrawn' = withdrawn \cup {r}
  /\ retired' = retired \cup {r}
  /\ UNCHANGED << tables, announced, started, disposing, disposed, stopped,
                  queue, callVars >>

-----------------------------------------------------------------------------
(***************************************************************************)
(* Callers: send, send_from_scheduler, request and request_from_agent.     *)
(***************************************************************************)

Serves(r, m) == Target[m] \in IF m \in Request THEN Ports[r] ELSE Handles[r]

\* The route of a call is looked up in the table current at that moment; the
\* caller keeps this table whatever is published later.
Lookup(m) ==
  /\ caller[m] = "idle"
  /\ \E r \in Active :
       /\ Serves(r, m)
       /\ owner' = [owner EXCEPT ![m] = r]
       /\ caller' = [caller EXCEPT ![m] = IF m \in Valid THEN "routed" ELSE "refused"]
  /\ stamp' = [stamp EXCEPT ![m] = Generation]
  /\ UNCHANGED << lockVars, retireVars, stopped, queue, work >>

LookupMisses(m) ==
  /\ caller[m] = "idle"
  /\ \A r \in Active : ~Serves(r, m)
  /\ stamp' = [stamp EXCEPT ![m] = Generation]
  /\ caller' = [caller EXCEPT ![m] = "refused"]
  /\ UNCHANGED << lockVars, retireVars, stopped, queue, owner, work >>

CheckWithdrawn(m) ==
  /\ caller[m] = "routed"
  /\ caller' = [caller EXCEPT ![m] = IF owner[m] \in withdrawn THEN "refused"
                                                              ELSE "sending"]
  /\ UNCHANGED << lockVars, retireVars, stopped, queue, stamp, owner, work >>

RouteOf(m) == << owner[m], Target[m] >>

\* Mutant: an unbounded queue.
EnqueueUnbounded(m) ==
  /\ caller[m] = "sending"
  /\ RouteOf(m) \notin stopped
  /\ queue' = [queue EXCEPT ![RouteOf(m)] = Append(@, m)]
  /\ work' = [work EXCEPT ![m] = "queued"]
  /\ caller' = [caller EXCEPT ![m] = IF m \in Request THEN "awaiting" ELSE "enqueued"]
  /\ UNCHANGED << lockVars, retireVars, stopped, stamp, owner >>

\* Mutant: the generation is read again when the place is free.
EnqueueRestamped(m) ==
  /\ caller[m] = "sending"
  /\ RouteOf(m) \notin stopped
  /\ Len(queue[RouteOf(m)]) < Capacity
  /\ queue' = [queue EXCEPT ![RouteOf(m)] = Append(@, m)]
  /\ stamp' = [stamp EXCEPT ![m] = Generation]
  /\ work' = [work EXCEPT ![m] = "queued"]
  /\ caller' = [caller EXCEPT ![m] = IF m \in Request THEN "awaiting" ELSE "enqueued"]
  /\ UNCHANGED << lockVars, retireVars, stopped, owner >>

\* A place in the bounded queue is awaited; the worker's end may have closed.
Enqueue(m) ==
  /\ caller[m] = "sending"
  /\ RouteOf(m) \notin stopped
  /\ Len(queue[RouteOf(m)]) < Capacity
  /\ queue' = [queue EXCEPT ![RouteOf(m)] = Append(@, m)]
  /\ work' = [work EXCEPT ![m] = "queued"]
  /\ caller' = [caller EXCEPT ![m] = IF m \in Request THEN "awaiting" ELSE "enqueued"]
  /\ UNCHANGED << lockVars, retireVars, stopped, stamp, owner >>

EnqueueClosed(m) ==
  /\ caller[m] = "sending"
  /\ RouteOf(m) \in stopped
  /\ caller' = [caller EXCEPT ![m] = "refused"]
  /\ UNCHANGED << lockVars, retireVars, stopped, queue, stamp, owner, work >>

\* The receipt of a directed send, after the message entered the queue.
Receipt(m) ==
  /\ caller[m] = "enqueued"
  /\ caller' = [caller EXCEPT ![m] = "accepted"]
  /\ UNCHANGED << lockVars, retireVars, stopped, queue, stamp, owner, work >>

\* The caller's future is dropped at an await.
Abandon(m) ==
  /\ caller[m] \in {"sending", "awaiting"}
  /\ caller' = [caller EXCEPT ![m] = "abandoned"]
  /\ UNCHANGED << lockVars, retireVars, stopped, queue, stamp, owner, work >>

-----------------------------------------------------------------------------
(***************************************************************************)
(* Workers.                                                                *)
(***************************************************************************)

Busy(w) == \E m \in Message : work[m] \in {"taken", "running"} /\ RouteOf(m) = w

HasWorker(w) == w[1] \in started /\ w[2] \in Handles[w[1]] \cup Ports[w[1]]

Receive(w) ==
  /\ HasWorker(w) /\ w \notin stopped /\ ~Busy(w)
  /\ queue[w] # << >>
  /\ work' = [work EXCEPT ![Head(queue[w])] = "taken"]
  /\ queue' = [queue EXCEPT ![w] = Tail(@)]
  /\ UNCHANGED << lockVars, retireVars, stopped, stamp, owner, caller >>

\* The activation lease, which counts the message as in flight.
AcquireLease(m) ==
  /\ work[m] = "taken"
  /\ work' = [work EXCEPT ![m] = "running"]
  /\ UNCHANGED << lockVars, retireVars, stopped, queue, stamp, owner, caller >>

\* The handler ends, or an abandoned request is noticed; the lease is dropped.
\* A port's reply is the handler's answer or its error.
Finish(m) ==
  /\ work[m] = "running"
  /\ work' = [work EXCEPT ![m] = "done"]
  /\ IF caller[m] = "awaiting"
       THEN \E outcome \in {"answered", "refused"} :
              caller' = [caller EXCEPT ![m] = outcome]
       ELSE UNCHANGED caller
  /\ UNCHANGED << lockVars, retireVars, stopped, queue, stamp, owner >>

\* Mutant: the receiver outlives the worker, so queued requests keep their
\* reply handles.
StopWorkerKeepsReceiver(w) ==
  /\ HasWorker(w) /\ w[1] \in withdrawn /\ w \notin stopped /\ ~Busy(w)
  /\ stopped' = stopped \cup {w}
  /\ UNCHANGED << lockVars, retireVars, queue, callVars >>

\* Cancellation is seen between two messages.  The receiver is dropped with
\* everything still queued, and with it the reply handle of each request.
StopWorker(w) ==
  /\ HasWorker(w) /\ w[1] \in withdrawn /\ w \notin stopped /\ ~Busy(w)
  /\ stopped' = stopped \cup {w}
  /\ queue' = [queue EXCEPT ![w] = << >>]
  /\ LET lost == {m \in Message : work[m] = "queued" /\ RouteOf(m) = w} IN
       /\ work' = [m \in Message |-> IF m \in lost THEN "dropped" ELSE work[m]]
       /\ caller' = [m \in Message |->
                       IF m \in lost /\ caller[m] = "awaiting" THEN "refused"
                                                               ELSE caller[m]]
  /\ UNCHANGED << lockVars, retireVars, stamp, owner >>

-----------------------------------------------------------------------------
(***************************************************************************)
(* Reaping.                                                                *)
(***************************************************************************)

InFlight(r) == \E m \in Message : work[m] = "running" /\ owner[m] = r

ReapRetired ==
  LET ready == {r \in retired : ~InFlight(r)} IN
  /\ LockFree
  /\ ready # {}
  /\ retired' = retired \ ready
  /\ disposing' = disposing \cup ready
  /\ UNCHANGED << lockVars, withdrawn, disposed, stopped, queue, callVars >>

\* Mutant: the workers are cancelled but not awaited.
DisposeWithoutJoin(r) ==
  /\ r \in disposing
  /\ disposing' = disposing \ {r}
  /\ disposed' = disposed \cup {r}
  /\ UNCHANGED << lockVars, withdrawn, retired, stopped, queue, callVars >>

Dispose(r) ==
  /\ r \in disposing
  /\ \A e \in Handles[r] \cup Ports[r] : << r, e >> \in stopped
  /\ disposing' = disposing \ {r}
  /\ disposed' = disposed \cup {r}
  /\ UNCHANGED << lockVars, withdrawn, retired, stopped, queue, callVars >>

-----------------------------------------------------------------------------
Init ==
  /\ tables = << >>
  /\ announced = 0
  /\ cancelling = {} /\ started = {}
  /\ withdrawn = {} /\ retired = {} /\ disposing = {} /\ disposed = {}
  /\ stopped = {}
  /\ queue = [w \in Route |-> << >>]
  /\ stamp = [m \in Message |-> 0]
  /\ owner = [m \in Message |-> NoRegistration]
  /\ caller = [m \in Message |-> "idle"]
  /\ work = [m \in Message |-> "none"]

Writer ==
  \/ \E S \in SUBSET Fresh : RegisterMany(S)
  \/ \E a \in Activation, r \in Fresh : Replace(a, r)
  \/ \E ids \in SUBSET Activation, S \in SUBSET Fresh :
       ReconcileMany(Generation, ids, S)
  \/ \E S \in SUBSET (Active \cup Fresh) : PublishComplete(S)
  \/ \E ids \in SUBSET Activation : WithdrawMany(ids)
  \/ Announce
  \/ \E r \in Registration : WithdrawAndCancel(r)
  \/ ReapRetired
  \/ \E r \in Registration : Dispose(r)

Caller(m) ==
  Lookup(m) \/ LookupMisses(m) \/ CheckWithdrawn(m) \/ Enqueue(m)
    \/ EnqueueClosed(m) \/ Receipt(m) \/ Abandon(m)

Worker == \/ \E w \in Route : Receive(w) \/ StopWorker(w)
          \/ \E m \in Message : AcquireLease(m) \/ Finish(m)

Next == Writer \/ (\E m \in Message : Caller(m)) \/ Worker

Spec == Init /\ [][Next]_busVars

\* The runtime polls every ready task: the lock holder, the calling tasks (an
\* idle one need not call, a waiting one need not be dropped) and the workers.
\* Handlers are assumed to return.
Fairness ==
  /\ WF_busVars(Announce)
  /\ \A r \in Registration : WF_busVars(WithdrawAndCancel(r))
  /\ \A m \in Message :
       /\ WF_busVars(CheckWithdrawn(m) \/ Enqueue(m) \/ EnqueueClosed(m) \/ Receipt(m))
       /\ WF_busVars(AcquireLease(m))
       /\ WF_busVars(Finish(m))
  /\ \A w \in Route : WF_busVars(Receive(w) \/ StopWorker(w))

FairSpec == Spec /\ Fairness

-----------------------------------------------------------------------------
(***************************************************************************)
(* Properties.                                                             *)
(***************************************************************************)

TypeOK ==
  /\ tables \in Seq(SUBSET Registration)
  /\ announced \in Nat /\ announced <= Generation
  /\ cancelling \subseteq Registration
  /\ started \subseteq Registration
  /\ withdrawn \subseteq Registration
  /\ retired \subseteq Registration
  /\ disposing \subseteq Registration
  /\ disposed \subseteq Registration
  /\ stopped \subseteq Route
  /\ queue \in [Route -> Seq(Message)]
  /\ \A w \in Route : Len(queue[w]) <= Capacity
  /\ stamp \in [Message -> Nat]
  /\ owner \in [Message -> Registration \cup {NoRegistration}]
  /\ caller \in [Message -> CallerState]
  /\ work \in [Message -> WorkState]

\* A table that callers can read serves each of its channels and ports with a
\* running worker: replacing some registrations never stops one that stayed.
CurrentRoutesServed ==
  \A w \in stopped : w[1] \notin Active

\* However late a call gets its place in the queue, the message is only ever
\* handled by the registration that owned its endpoint in the table whose
\* generation the receipt and the delivery carry.
DeliveredByStampedOwner ==
  \A m \in Message : work[m] # "none" =>
    /\ m \in Valid
    /\ stamp[m] \in 1..Generation
    /\ owner[m] \in tables[stamp[m]]
    /\ \A r \in tables[stamp[m]] : Serves(r, m) => r = owner[m]

\* Reaping only reports a registration disposed once nothing of it can run or
\* be accepted any more: no message is held by a worker, none is queued, and a
\* caller that still holds an old table finds the queue closed.
DisposedIsQuiet ==
  \A r \in disposed :
    /\ \A m \in Message :
         owner[m] = r => work[m] \notin {"queued", "taken", "running"}
    /\ \A e \in Handles[r] \cup Ports[r] : << r, e >> \in stopped

\* A withdrawn registration is accounted for exactly once, from the moment it
\* is cancelled until its workers are joined, and is never routed to again.
WithdrawnAccounted ==
  /\ withdrawn = retired \cup disposing \cup disposed
  /\ retired \cap disposing = {} /\ disposing \cap disposed = {}
  /\ retired \cap disposed = {}
  /\ withdrawn \cap Active = {}

\* A message that was accepted is lost only with its whole registration.
LostOnlyByWithdrawal ==
  \A m \in Message : work[m] = "dropped" => owner[m] \in withdrawn

\* The strengthening the proofs need: where every message and every
\* registration can be.  BusInv is inductive.
TablesBuildable ==
  \A g \in 1..Generation : DistinctActivations(tables[g]) /\ Buildable(tables[g])

LifeCycle ==
  /\ Active \subseteq started /\ cancelling \subseteq started /\ withdrawn \subseteq started
  /\ Active \cap cancelling = {} /\ Active \cap withdrawn = {}
  /\ cancelling \cap withdrawn = {}

CallsRouted ==
  \A m \in Message :
    /\ caller[m] \in {"idle", "routed", "sending"} => work[m] = "none"
    /\ (caller[m] \in {"routed", "sending"} \/ work[m] # "none") =>
         /\ m \in Valid
         /\ stamp[m] \in 1..Generation
         /\ owner[m] \in tables[stamp[m]]
         /\ Serves(owner[m], m)

QueuesHoldQueued ==
  \A w \in Route : \A i \in 1..Len(queue[w]) :
    /\ work[queue[w][i]] = "queued"
    /\ RouteOf(queue[w][i]) = w
    /\ \A j \in 1..Len(queue[w]) : queue[w][i] = queue[w][j] => i = j

StoppedIsQuiet ==
  \A w \in stopped :
    /\ w[1] \in withdrawn
    /\ \A m \in Message :
         RouteOf(m) = w => work[m] \notin {"queued", "taken", "running"}

DisposedHasStopped ==
  \A r \in disposed : \A e \in Handles[r] \cup Ports[r] : << r, e >> \in stopped

BusInv ==
  /\ TypeOK /\ TablesBuildable /\ LifeCycle /\ CallsRouted /\ QueuesHoldQueued
  /\ StoppedIsQuiet /\ DisposedHasStopped /\ WithdrawnAccounted
  /\ LostOnlyByWithdrawal

\* Every call that found a route ends, whether the queue is full, the owner is
\* replaced while the call waits for a place, or it is withdrawn while the
\* request sits in the queue; and every message that entered a queue is handled or
\* dropped with its queue.  Each is called and queued once, so in the end nobody
\* waits: neither a caller nor a queued message.
BusSettles ==
  <>[] \A m \in Message :
    /\ caller[m] \notin {"routed", "sending", "enqueued", "awaiting"}
    /\ work[m] # "queued"

=============================================================================
