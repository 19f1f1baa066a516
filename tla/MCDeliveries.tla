---------------------------- MODULE MCDeliveries ----------------------------
(***************************************************************************)
(* The message bus, and the jobs of the scheduler that deliver over it,    *)
(* one at a time: "part" says which one a behaviour is about, the other    *)
(* rests.                                                                  *)
(*                                                                         *)
(* A small bus: a1 and a2 are two preparations of one activation, b is a   *)
(* second activation that serves a port and publishes the topic the first  *)
(* subscribes to.  Two calls are made in a behaviour, two sends to one     *)
(* channel, two requests of one port, or one of each: "calling".  A small  *)
(* scheduler: one schedule with two digests and one file.                  *)
(***************************************************************************)
EXTENDS MessageBus, ScheduleJobs, TLC

CONSTANTS a1, a2, b, actA, actB, channel, port, topic, m1, m2, q1, q2

VARIABLES part, calling

MCActivationOf == (a1 :> actA) @@ (a2 :> actA) @@ (b :> actB)
MCHandles == (a1 :> {channel}) @@ (a2 :> {channel}) @@ (b :> {})
MCPorts == (a1 :> {}) @@ (a2 :> {}) @@ (b :> {port})
MCPublishes == (a1 :> {}) @@ (a2 :> {}) @@ (b :> {topic})
MCSubscribes == (a1 :> {}) @@ (a2 :> {topic}) @@ (b :> {})
MCCompatible == {<< a2, b >>}
MCTarget == (m1 :> channel) @@ (m2 :> channel) @@ (q1 :> port) @@ (q2 :> port)

PartInit ==
  /\ Init /\ JobsInit
  /\ \/ part = "bus" /\ calling \in {{m1, m2}, {q1, q2}, {m1, q1}}
     \/ part = "jobs" /\ calling = {}

Called(m) == m \in calling \/ caller'[m] = "idle"

PartNext ==
  /\ UNCHANGED << part, calling >>
  /\ \/ part = "bus" /\ Next /\ (\A m \in Message : Called(m)) /\ UNCHANGED vars
     \/ part = "jobs" /\ JobsNext /\ UNCHANGED busVars

\* The fairness of both parts: of one that rests nothing can run.
PartSpec ==
  /\ PartInit /\ [][PartNext]_<< part, calling, busVars, vars >>
  /\ Fairness /\ JobsFairness

\* Calls end, and so do stopped tasks (see MessageBus and ScheduleJobs).
DeliveriesSettle == BusSettles /\ JobsSettle
=============================================================================
