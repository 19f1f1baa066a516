--------------------------- MODULE DeliveryFrames ---------------------------
(***************************************************************************)
(* The reports of scheduled deliveries to their observers: from the record *)
(* of an attempt (core/backend/src/scheduler/runtime.rs) over the numbering*)
(* of frames (leases.rs) to the listener of a module                       *)
(* (core/frontend/platform/scheduler.ts).                                  *)
(*                                                                         *)
(* A delivery runs on the thread of its job or of a manual trigger.  It    *)
(* records its result under the scheduler's lock, numbers its frames under *)
(* the lock of the leases and sends them under none.                       *)
(***************************************************************************)
EXTENDS Naturals, Sequences, FiniteSets

CONSTANTS
  Activation, ScheduleId, Observer, Delivery,
  None,
  MaxChanges   \* model bound on changes of ownership

VARIABLES
  owner,      \* the activation whose lease holds a schedule
  observers,  \* SchedulerLeaseState.observers: activation and sequence, or None
  pc, schedule, \* of a delivery
  by,         \* history: the owner of the schedule when the result was recorded
  outbox,     \* the numbered frames that a delivery has not sent
  channel,    \* frames under way to the webview, in the order of their sends
  active,     \* the subscription of the module: new, open, disposed
  last,       \* lastSequence
  queue,      \* accepted frames whose listener has not run
  seen,       \* frames the listener was given
  rejected,   \* subscriptions whose listener threw: nothing after it runs
  moved,      \* history: deliveries whose schedule changed hands while they ran
  changes

deliveryVars == << pc, schedule, by, outbox >>
clientVars == << active, last, queue, seen, rejected >>
vars == << owner, observers, deliveryVars, channel, clientVars, moved, changes >>

-----------------------------------------------------------------------------
\* A registration, a reconciliation or a cancellation changes the owner.
ChangeOwner(id, a) ==
  /\ changes < MaxChanges /\ changes' = changes + 1
  /\ owner[id] # a
  /\ owner' = [owner EXCEPT ![id] = a]
  /\ moved' = moved \cup {d \in Delivery : pc[d] = "recorded" /\ schedule[d] = id}
  /\ UNCHANGED << observers, deliveryVars, channel, clientVars >>

\* record_delivery: the result is the last attempt of its schedule; listeners
\* are called after the lock is released.
Record(d, id) ==
  /\ pc[d] = "idle"
  /\ pc' = [pc EXCEPT ![d] = "recorded"]
  /\ schedule' = [schedule EXCEPT ![d] = id]
  /\ by' = [by EXCEPT ![d] = owner[id]]
  /\ UNCHANGED << owner, observers, outbox, channel, clientVars, moved, changes >>

\* Mutant: a frame carries the sequence before the increment.
FrameBefore(d, o) == [delivery |-> d, to |-> o, sequence |-> observers[o].sequence]

Frame(d, o) == [delivery |-> d, to |-> o, sequence |-> observers[o].sequence + 1]

\* Mutant: every observer gets the frame.
PublishToAll(d) ==
  /\ pc[d] = "recorded"
  /\ LET addressed == {o \in Observer : observers[o] # None} IN
       /\ outbox' = [outbox EXCEPT ![d] = {Frame(d, o) : o \in addressed}]
       /\ observers' = [o \in Observer |->
                          IF o \in addressed THEN [observers[o] EXCEPT !.sequence = @ + 1]
                          ELSE observers[o]]
  /\ pc' = [pc EXCEPT ![d] = "sending"]
  /\ UNCHANGED << owner, schedule, by, channel, clientVars, moved, changes >>

\* The frames for the observers of the present owner are numbered.
Publish(d) ==
  /\ pc[d] = "recorded"
  /\ LET addressed == {o \in Observer : observers[o] # None /\ owner[schedule[d]] # None
                                          /\ observers[o].activation = owner[schedule[d]]} IN
       /\ outbox' = [outbox EXCEPT ![d] = {Frame(d, o) : o \in addressed}]
       /\ observers' = [o \in Observer |->
                          IF o \in addressed THEN [observers[o] EXCEPT !.sequence = @ + 1]
                          ELSE observers[o]]
  /\ pc' = [pc EXCEPT ![d] = "sending"]
  /\ UNCHANGED << owner, schedule, by, channel, clientVars, moved, changes >>

Send(d) ==
  /\ pc[d] = "sending"
  /\ \/ \E f \in outbox[d] :
          /\ channel' = [channel EXCEPT ![f.to] = Append(@, f)]
          /\ outbox' = [outbox EXCEPT ![d] = @ \ {f}]
          /\ UNCHANGED pc
     \/ outbox[d] = {} /\ pc' = [pc EXCEPT ![d] = "done"] /\ UNCHANGED << channel, outbox >>
  /\ UNCHANGED << owner, observers, schedule, by, clientVars, moved, changes >>

-----------------------------------------------------------------------------
\* The module subscribes; frames may arrive from then on.
Subscribe(o, a) ==
  /\ active[o] = "new"
  /\ active' = [active EXCEPT ![o] = "open"]
  /\ observers' = [observers EXCEPT ![o] = [activation |-> a, sequence |-> 0]]
  /\ UNCHANGED << owner, deliveryVars, channel, last, queue, seen, rejected, moved, changes >>

\* dispose: the subscription is inactive before the host removes the observer.
Dispose(o) ==
  /\ active[o] = "open"
  /\ active' = [active EXCEPT ![o] = "disposed"]
  /\ UNCHANGED << owner, observers, deliveryVars, channel, last, queue, seen, rejected, moved,
                  changes >>

StopObserving(o) ==
  /\ active[o] = "disposed" /\ observers[o] # None
  /\ observers' = [observers EXCEPT ![o] = None]
  /\ UNCHANGED << owner, deliveryVars, channel, clientVars, moved, changes >>

\* Mutant: a frame is accepted unless it repeats the last one.
ReceiveUnlessRepeated(o) ==
  /\ channel[o] # << >>
  /\ LET f == Head(channel[o]) IN
     IF active[o] = "open" /\ f.sequence # last[o]
       THEN /\ last' = [last EXCEPT ![o] = f.sequence]
            /\ queue' = [queue EXCEPT ![o] = Append(@, f)]
       ELSE UNCHANGED << last, queue >>
  /\ channel' = [channel EXCEPT ![o] = Tail(@)]
  /\ UNCHANGED << owner, observers, deliveryVars, active, seen, rejected, moved, changes >>

\* A frame is accepted when its sequence is higher than the last one's; what
\* comes later than its successor is dropped.
Receive(o) ==
  /\ channel[o] # << >>
  /\ LET f == Head(channel[o]) IN
     IF active[o] = "open" /\ f.sequence > last[o]
       THEN /\ last' = [last EXCEPT ![o] = f.sequence]
            /\ queue' = [queue EXCEPT ![o] = Append(@, f)]
       ELSE UNCHANGED << last, queue >>
  /\ channel' = [channel EXCEPT ![o] = Tail(@)]
  /\ UNCHANGED << owner, observers, deliveryVars, active, seen, rejected, moved, changes >>

\* Mutant: what was accepted is also reported.
ListenAlways(o) ==
  /\ queue[o] # << >>
  /\ seen' = [seen EXCEPT ![o] = Append(@, Head(queue[o]))]
  /\ queue' = [queue EXCEPT ![o] = Tail(@)]
  /\ UNCHANGED << owner, observers, deliveryVars, channel, active, last, rejected, moved,
                  changes >>

\* Listeners run one after the other, while the subscription is active.  One
\* that throws rejects the queue, and what is chained to it never runs.
Listen(o) ==
  /\ queue[o] # << >>
  /\ queue' = [queue EXCEPT ![o] = Tail(@)]
  /\ IF active[o] = "open" /\ o \notin rejected
       THEN /\ seen' = [seen EXCEPT ![o] = Append(@, Head(queue[o]))]
            /\ rejected' \in {rejected, rejected \cup {o}}
       ELSE UNCHANGED << seen, rejected >>
  /\ UNCHANGED << owner, observers, deliveryVars, channel, active, last, moved, changes >>

-----------------------------------------------------------------------------
Init ==
  /\ owner = [id \in ScheduleId |-> None]
  /\ observers = [o \in Observer |-> None]
  /\ pc = [d \in Delivery |-> "idle"]
  /\ schedule = [d \in Delivery |-> None] /\ by = [d \in Delivery |-> None]
  /\ outbox = [d \in Delivery |-> {}]
  /\ channel = [o \in Observer |-> << >>]
  /\ active = [o \in Observer |-> "new"] /\ last = [o \in Observer |-> 0]
  /\ queue = [o \in Observer |-> << >>] /\ seen = [o \in Observer |-> << >>]
  /\ rejected = {}
  /\ moved = {} /\ changes = 0

Next ==
  \/ \E id \in ScheduleId, a \in Activation \cup {None} : ChangeOwner(id, a)
  \/ \E d \in Delivery : Publish(d) \/ Send(d) \/ \E id \in ScheduleId : Record(d, id)
  \/ \E o \in Observer : Dispose(o) \/ StopObserving(o) \/ Receive(o) \/ Listen(o)
                           \/ \E a \in Activation : Subscribe(o, a)

Spec == Init /\ [][Next]_vars

-----------------------------------------------------------------------------
(***************************************************************************)
(* Properties.                                                             *)
(***************************************************************************)

FrameSet == [delivery : Delivery, to : Observer, sequence : Nat \ {0}]

TypeOK ==
  /\ owner \in [ScheduleId -> Activation \cup {None}]
  /\ \A o \in Observer : observers[o] # None =>
       observers[o].activation \in Activation /\ observers[o].sequence <= Cardinality({d \in Delivery : pc[d] # "idle"})
  /\ pc \in [Delivery -> {"idle", "recorded", "sending", "done"}]
  /\ schedule \in [Delivery -> ScheduleId \cup {None}]
  /\ by \in [Delivery -> Activation \cup {None}]
  /\ \A d \in Delivery : outbox[d] \subseteq FrameSet
  /\ \A o \in Observer : channel[o] \in Seq(FrameSet) /\ queue[o] \in Seq(FrameSet)
  /\ active \in [Observer -> {"new", "open", "disposed"}]
  /\ rejected \in SUBSET Observer /\ moved \in SUBSET Delivery /\ changes \in 0..MaxChanges

\* A listener is given rising sequences and no result twice, however the
\* delivering threads interleave between numbering and sending.
SequencesRise ==
  \A o \in Observer : \A i, j \in DOMAIN seen[o] : i < j =>
    /\ seen[o][i].sequence < seen[o][j].sequence
    /\ seen[o][i].delivery # seen[o][j].delivery

\* No listener runs after its subscription was disposed, whatever is still
\* under way or already accepted.
QuietAfterDispose == [][\A o \in Observer : active[o] = "disposed" => seen'[o] = seen[o]]_vars

\* A listener is given only results of schedules that belonged to its
\* activation when they were recorded, unless the schedule changed hands
\* between the record and the numbering.
OwnersOnly ==
  \A o \in Observer, d \in Delivery : \A i \in DOMAIN seen[o] :
    seen[o][i].delivery = d /\ d \notin moved =>
      observers[o] = None \/ by[d] = observers[o].activation

=============================================================================
