------------------------------- MODULE MCModules -------------------------------
(***************************************************************************)
(* What a module lives by, in three models, one at a time: the artifact it *)
(* is installed from and chosen by, its messages over the bridge and its   *)
(* reports of deliveries.  "part" is the one that a behaviour is about; the *)
(* others rest.                                                            *)
(***************************************************************************)
EXTENDS MCArtifactRepository, FiniteSets

CONSTANTS
  Call, Correlation, Requests, Target, Identity, Within, MaxFamilies,
  Activation, ScheduleId, Observer, Delivery, MaxChanges

\* Calls are requests or sends to a module, under an identity, and may be made by the
\* handler of another.
ASSUME MessagesAssumption ==
  /\ Requests \subseteq Call /\ None \notin Call
  /\ Target \in [Call -> Module] /\ Identity \in [Call -> Correlation]
  /\ Within \in [Call -> Call \cup {None}] /\ MaxFamilies \in Nat

\* No more deliveries run than are counted.
ASSUME ReportsAssumption == IsFiniteSet(Delivery) /\ MaxChanges \in Nat

VARIABLES
  part,
  family, bridge, queue, worker, pending, frames, caller, work, generation, answeredBy,
  handledBy, late, client, drain, known, minimum, current,
  owner, observers, pc, schedule, by, outbox, channel, active, last, accepted, seen,
  rejected, moved, changes

bridgeVars == << family, bridge, queue, worker, pending, frames, caller, work, generation,
                 answeredBy, handledBy, late, client, drain, known, minimum, current >>
frameVars == << owner, observers, pc, schedule, by, outbox, channel, active, last, accepted,
                seen, rejected, moved, changes >>

Bridge == INSTANCE MessageBridge
Frames == INSTANCE DeliveryFrames WITH queue <- accepted

-----------------------------------------------------------------------------
\* Requests are called r..., sends s...; all go to the first module.
TargetFirst == [c \in Call |-> CHOOSE n \in Module : TRUE]

\* Every request repeats one identity.
IdentityShared == [c \in Call |-> CHOOSE x \in Correlation : TRUE]

\* The handler of the first request makes the third.
NestedOnce == [c \in Call |-> IF c = "r3" THEN "r1" ELSE None]

-----------------------------------------------------------------------------
PartInit == part \in {"artifacts", "bridge", "frames"} /\ Init /\ Bridge!Init /\ Frames!Init

\* A behaviour has a send or the second request, and the more starts of the host, the
\* fewer edits.
Bounded ==
  /\ "idle" \in {caller'["s1"], caller'["r2"]}
  /\ starts' + edits' <= 4

PartNext ==
  /\ UNCHANGED part
  /\ \/ part = "artifacts" /\ Next /\ UNCHANGED << bridgeVars, frameVars >>
     \/ part = "bridge" /\ Bridge!Next /\ UNCHANGED << vars, frameVars >>
     \/ part = "frames" /\ Frames!Next /\ UNCHANGED << vars, bridgeVars >>
  /\ Bounded

\* The fairness of the part that is alive.  In ArtifactRepository and MessageBridge each
\* task is fair on its own.  None but the reconciliation, which begins anew whenever it is
\* asked to, runs for ever: here it is enough that the others do not all rest while one of
\* them can run.
ArtifactsRun == Installation \/ Seeding
BridgeRuns ==
  \/ \E r \in Module \X (1..MaxFamilies) :
       Bridge!Take(r) \/ Bridge!FreeWorker(r) \/ Bridge!StopWorker(r)
  \/ Bridge!Shutdown \/ Bridge!Withdraw \/ Bridge!Frontend

PartVars == << part, vars, bridgeVars, frameVars >>

\* The others rest in a step of the one that is alive.
Runs ==
  \/ part = "artifacts" /\ ArtifactsRun /\ UNCHANGED << part, bridgeVars, frameVars >>
  \/ part = "bridge" /\ BridgeRuns /\ UNCHANGED << part, vars, frameVars >>

PartSpec ==
  /\ PartInit /\ [][PartNext]_PartVars
  /\ WF_PartVars(Runs) /\ WF_bridgeVars(part = "bridge" /\ Bridge!Reconciling)

\* Every variable of every part keeps its type (repository.rs, message_bridge.rs,
\* leases.rs).
TypesOK == TypeOK /\ Bridge!TypeOK /\ Frames!TypeOK

\* Every message is answered by its own frame and handled by the family it was routed
\* to (see MessageBridge); listeners are given each result once, in rising sequences,
\* results of their own activation only, and none after their subscription was disposed
\* (see DeliveryFrames).
FramesFindTheirOwn ==
  /\ [](Bridge!AnsweredByOwnFrame /\ Bridge!HandledByRouted)
  /\ [](Frames!SequencesRise /\ Frames!OwnersOnly) /\ Frames!QuietAfterDispose

\* Neither a request nor the close of the bridge waits for ever (see MessageBridge),
\* nor does a start of the host (see ArtifactRepository).
ModulesSettle == StartsEnd /\ Bridge!RequestsEnd /\ Bridge!CloseEnds
=============================================================================
