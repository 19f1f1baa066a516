----------------------- MODULE LiveReconciliationProofs -----------------------
(***************************************************************************)
(* What the webview shows is alive and was desired, for any graphs, builds *)
(* and revisions, and any number of failing calls and restarts.            *)
(*                                                                         *)
(* The reconciler replaces a family in steps of its own, and the registry  *)
(* goes on meanwhile; so the claims about what is public need one about    *)
(* what is being prepared (it was desired when it was read), one about     *)
(* what is recovered (it was public once), and an account of every         *)
(* activation in every phase.                                              *)
(***************************************************************************)
EXTENDS LiveReconciliation, SequenceTheorems, TLAPS

\* A revision desired the graph, the one that the record names or a later one.
Desired(x) == \E r \in x.revision..Revision : x.graph = history[r]

\* What is reconciled was desired, and so was what follows a recovery.
TargetDesired ==
  /\ phase = "desired" => catalog.revision \in 1..Revision
  /\ phase \in {"reconcile", "publish", "switched", "retire", "report", "accepted", "reject"} =>
       /\ catalog.revision >= 1 /\ Desired(catalog)
       /\ target.revision >= 1 /\ Desired(target)

\* What was applied last was desired.
AcceptanceDesired == acceptance # Nothing => acceptance.revision >= 1 /\ Desired(acceptance)

\* A public family has an activation that is not younger than its revision, and nothing
\* that is settled or reported is ahead of it.
FamilyStands ==
  /\ \/ family = NoFamily
     \/ family.activation \in 1..family.revision /\ Desired(family)
  /\ family.revision <= settled
  /\ phase # "gone" => runtime <= family.revision

\* In every phase: which activations are live, and which one has the routes.
ActivationsAccounted ==
  /\ phase \notin {"publish", "switched", "retire"} =>
       live = {family.activation} \ {0} /\ routes = family.activation
  /\ phase \in {"publish", "switched"} =>
       /\ live = {target.revision} \cup ({family.activation} \ {0})
       /\ target.revision > settled
  /\ phase = "publish" => routes = family.activation
  /\ phase = "switched" => routes = target.revision
  /\ phase = "retire" =>
       /\ live = {family.activation} \cup ({previous} \ {0})
       /\ previous < family.activation /\ routes = family.activation
  /\ phase \in {"retire", "report", "accepted"} =>
       family # NoFamily /\ family.revision = target.revision
  /\ phase = "accepted" => acceptance.revision = target.revision

ReconciliationInv ==
  TypeOK /\ TargetDesired /\ AcceptanceDesired /\ FamilyStands /\ ActivationsAccounted

-----------------------------------------------------------------------------
(***************************************************************************)
(* The steps.                                                              *)
(***************************************************************************)

\* A commit leaves what earlier revisions desired.
LEMMA HistoryGrows ==
  ASSUME TypeOK, NEW g \in Graph, Revision < MaxRevision, history' = Append(history, g)
  PROVE  /\ history' \in Seq(Graph) /\ Revision' = Revision + 1 /\ Revision' \in 1..MaxRevision
         /\ Revision \in 1..Revision' /\ \A r \in 1..Revision : history'[r] = history[r]
         /\ queue \in Seq(0..Revision')
<1> USE ReconciliationAssumption DEF TypeOK, Revision
<1>1. /\ history' \in Seq(Graph) /\ Len(history') = Len(history) + 1
      /\ \A r \in 1..Len(history) : history'[r] = history[r]
  BY AppendProperties
<1>2. 0..Len(history) \subseteq 0..Len(history')
  BY <1>1
<1>3. queue \in Seq(0..Len(history'))
  BY <1>2
<1> QED BY <1>1, <1>3

\* A call that throws ends, and its event may be reported.
LEMMA ThrowEffect ==
  ASSUME TypeOK, Throw
  PROVE  phase' = "idle" /\ reports' \subseteq 1..Revision /\ disposing' \in BOOLEAN
<1>1. event \in 0..Revision /\ Revision \in Nat /\ reports \subseteq 1..Revision
  BY DEF TypeOK
<1>2. CASE event = 0 /\ disposing' = TRUE /\ UNCHANGED reports
  BY <1>1, <1>2 DEF Throw
<1>3. CASE event # 0 /\ reports' = reports \cup {event} /\ UNCHANGED disposing
  <2>1. reports' \subseteq 1..Revision
    BY <1>1, <1>3
  <2>2. disposing' \in BOOLEAN
    BY <1>3 DEF TypeOK
  <2> QED BY <2>1, <2>2 DEF Throw
<1> QED BY <1>2, <1>3 DEF Throw

\* After a recovered snapshot the one that was read is reconciled; after that one none.
LEMMA ProceedEffect ==
  ASSUME TypeOK, TargetDesired, Proceed,
         phase \in {"reconcile", "publish", "switched", "retire", "report", "accepted", "reject"}
  PROVE  \/ /\ phase' = "reconcile"
            /\ target' \in [revision : 0..Revision, graph : Graph, recovery : BOOLEAN]
            /\ target'.revision = catalog.revision /\ target'.graph = catalog.graph
         \/ phase' = "idle" /\ target' = target
<1>1. catalog \in Snapshots /\ Revision \in Nat
  BY DEF TypeOK
<1>2. catalog.revision \in 0..Revision
  BY <1>1 DEF TargetDesired, Desired, Snapshots
<1>3. /\ Snapshot(catalog, FALSE) \in [revision : 0..Revision, graph : Graph, recovery : BOOLEAN]
      /\ Snapshot(catalog, FALSE).revision = catalog.revision
      /\ Snapshot(catalog, FALSE).graph = catalog.graph
  BY <1>1, <1>2 DEF Snapshot, Snapshots
<1> HIDE DEF Snapshot
<1> QED BY <1>3 DEF Proceed

\* A transition that commits preserves the invariant.
LEMMA TransitionStep ==
  ASSUME ReconciliationInv, NEW g \in Graph, Transition(g)
  PROVE  ReconciliationInv'
<1> USE ReconciliationAssumption DEF ReconciliationInv, Transition,
            registryVars, channelVars, streamVars, hostVars, callVars, familyVars
<1>1. /\ history' \in Seq(Graph) /\ Revision' = Revision + 1 /\ Revision' \in 1..MaxRevision
      /\ Revision \in 1..Revision' /\ \A r \in 1..Revision : history'[r] = history[r]
      /\ queue' \in Seq(0..Revision')
  BY HistoryGrows
<1>2. TypeOK'
  <2>1. /\ history' \in Seq(Graph) /\ Revision' \in 1..MaxRevision
        /\ acceptance' \in Snapshots /\ acceptance'.revision <= Revision'
    BY <1>1 DEF TypeOK, Snapshots, Revision
  <2>2. failureLog' \subseteq 1..Revision' /\ failures' = failureLog'
    BY <1>1 DEF TypeOK, Revision
  <2>3. notifying' \subseteq operations' /\ operations' \subseteq 1..Revision'
    <3>1. operations \subseteq 1..Revision /\ notifying \subseteq operations /\ Revision \in Nat
      BY DEF TypeOK
    <3>2. 1..Revision \subseteq 1..Revision' /\ Revision + 1 \in 1..Revision'
      BY <1>1, <3>1
    <3> QED BY <3>1, <3>2
  <2>4. watch' \in 1..Revision' /\ sent' \in 0..Revision'
    BY <1>1 DEF TypeOK, Revision
  <2>5. /\ runtime' \in 0..acceptance'.revision
        /\ routes' \in 0..Revision' /\ settled' \in 0..Revision' /\ previous' \in 0..Revision'
    BY <1>1 DEF TypeOK, Snapshots, Revision
  <2>6. lowered' \in BOOLEAN /\ written' \in BOOLEAN /\ disposing' \in BOOLEAN
    BY <1>1 DEF TypeOK
  <2>7. /\ phase' \in Phases /\ event' \in 0..Revision'
        /\ live' \subseteq 1..Revision' /\ reports' \subseteq 1..Revision'
    BY <1>1 DEF TypeOK, Phases, Revision
  <2>8. queue' \in Seq(0..Revision')
    BY <1>1 DEF TypeOK, Revision
  <2>9. faults' \in 0..MaxTroubles /\ restarts' \in 0..MaxTroubles
    BY <1>1 DEF TypeOK
  <2>10. catalog' \in Snapshots
    BY <1>1 DEF TypeOK, Snapshots, Revision
  <2>11. target' \in [revision : 0..Revision', graph : Graph, recovery : BOOLEAN]
    BY <1>1 DEF TypeOK, Revision
  <2>12. family' \in [revision : 0..Revision', graph : Graph, activation : 0..Revision']
    BY <1>1 DEF TypeOK, Revision
  <2> QED
    BY <2>1, <2>2, <2>3, <2>4, <2>5, <2>6, <2>7, <2>8, <2>9, <2>10, <2>11, <2>12 DEF TypeOK
<1>3. TargetDesired'
  BY SMTT(40), <1>1 DEF TargetDesired, Desired, TypeOK, Snapshots, Revision
<1>4. AcceptanceDesired'
  BY <1>1 DEF AcceptanceDesired, Desired, TypeOK, Snapshots, Revision, Nothing
<1>5. FamilyStands'
  BY <1>1 DEF FamilyStands, Desired, TypeOK, Snapshots, Revision, NoFamily
<1>6. ActivationsAccounted'
  BY <1>1 DEF ActivationsAccounted, TypeOK, Snapshots, Revision, NoFamily
<1> QED BY <1>2, <1>3, <1>4, <1>5, <1>6

\* A revision of another process preserves the invariant.
LEMMA CommitExternallyStep ==
  ASSUME ReconciliationInv, NEW g \in Graph, CommitExternally(g)
  PROVE  ReconciliationInv'
<1> USE ReconciliationAssumption DEF ReconciliationInv, CommitExternally,
            registryVars, channelVars, streamVars, hostVars, callVars, familyVars
<1>1. /\ history' \in Seq(Graph) /\ Revision' = Revision + 1 /\ Revision' \in 1..MaxRevision
      /\ Revision \in 1..Revision' /\ \A r \in 1..Revision : history'[r] = history[r]
      /\ queue' \in Seq(0..Revision')
  BY HistoryGrows
<1>2. TypeOK'
  <2>1. /\ history' \in Seq(Graph) /\ Revision' \in 1..MaxRevision
        /\ acceptance' \in Snapshots /\ acceptance'.revision <= Revision'
    BY <1>1 DEF TypeOK, Snapshots, Revision
  <2>2. failureLog' \subseteq 1..Revision' /\ failures' = failureLog'
    BY <1>1 DEF TypeOK, Revision
  <2>3. notifying' \subseteq operations' /\ operations' \subseteq 1..Revision'
    BY <1>1 DEF TypeOK, Revision
  <2>4. watch' \in 1..Revision' /\ sent' \in 0..Revision'
    BY <1>1 DEF TypeOK, Revision
  <2>5. /\ runtime' \in 0..acceptance'.revision
        /\ routes' \in 0..Revision' /\ settled' \in 0..Revision' /\ previous' \in 0..Revision'
    BY <1>1 DEF TypeOK, Snapshots, Revision
  <2>6. lowered' \in BOOLEAN /\ written' \in BOOLEAN /\ disposing' \in BOOLEAN
    BY <1>1 DEF TypeOK
  <2>7. /\ phase' \in Phases /\ event' \in 0..Revision'
        /\ live' \subseteq 1..Revision' /\ reports' \subseteq 1..Revision'
    BY <1>1 DEF TypeOK, Phases, Revision
  <2>8. queue' \in Seq(0..Revision')
    BY <1>1 DEF TypeOK, Revision
  <2>9. faults' \in 0..MaxTroubles /\ restarts' \in 0..MaxTroubles
    BY <1>1 DEF TypeOK
  <2>10. catalog' \in Snapshots
    BY <1>1 DEF TypeOK, Snapshots, Revision
  <2>11. target' \in [revision : 0..Revision', graph : Graph, recovery : BOOLEAN]
    BY <1>1 DEF TypeOK, Revision
  <2>12. family' \in [revision : 0..Revision', graph : Graph, activation : 0..Revision']
    BY <1>1 DEF TypeOK, Revision
  <2> QED
    BY <2>1, <2>2, <2>3, <2>4, <2>5, <2>6, <2>7, <2>8, <2>9, <2>10, <2>11, <2>12 DEF TypeOK
<1>3. TargetDesired'
  BY SMTT(40), <1>1 DEF TargetDesired, Desired, TypeOK, Snapshots, Revision
<1>4. AcceptanceDesired'
  BY <1>1 DEF AcceptanceDesired, Desired, TypeOK, Snapshots, Revision, Nothing
<1>5. FamilyStands'
  BY <1>1 DEF FamilyStands, Desired, TypeOK, Snapshots, Revision, NoFamily
<1>6. ActivationsAccounted'
  BY <1>1 DEF ActivationsAccounted, TypeOK, Snapshots, Revision, NoFamily
<1> QED BY <1>2, <1>3, <1>4, <1>5, <1>6

\* A notification preserves the invariant.
LEMMA NotifyStep ==
  ASSUME ReconciliationInv, NEW r \in notifying, Notify(r)
  PROVE  ReconciliationInv'
<1> USE ReconciliationAssumption DEF ReconciliationInv, Notify,
            registryVars, channelVars, streamVars, hostVars, callVars, familyVars
<1>1. TypeOK'
  BY DEF TypeOK, Snapshots, Phases, Revision
<1>2. TargetDesired'
  BY DEF TargetDesired, Desired, TypeOK, Snapshots, Revision
<1>3. AcceptanceDesired'
  BY DEF AcceptanceDesired, Desired, TypeOK, Snapshots, Revision, Nothing
<1>4. FamilyStands'
  BY DEF FamilyStands, Desired, TypeOK, Snapshots, Revision, NoFamily
<1>5. ActivationsAccounted'
  BY DEF ActivationsAccounted, TypeOK, Snapshots, Revision, NoFamily
<1> QED BY <1>1, <1>2, <1>3, <1>4, <1>5

\* A look at the registry file preserves the invariant.
LEMMA FileEventStep ==
  ASSUME ReconciliationInv, FileEvent
  PROVE  ReconciliationInv'
<1> USE ReconciliationAssumption DEF ReconciliationInv, FileEvent,
            registryVars, channelVars, streamVars, hostVars, callVars, familyVars
<1>1. TypeOK'
  <2>1. /\ history' \in Seq(Graph) /\ Revision' \in 1..MaxRevision
        /\ acceptance' \in Snapshots /\ acceptance'.revision <= Revision'
        /\ failureLog' \subseteq 1..Revision' /\ failures' = failureLog'
    BY DEF TypeOK, Snapshots, Revision
  <2>2. /\ notifying' \subseteq operations' /\ operations' \subseteq 1..Revision'
        /\ watch' \in 1..Revision' /\ sent' \in 0..Revision'
        /\ runtime' \in 0..acceptance'.revision
        /\ routes' \in 0..Revision' /\ settled' \in 0..Revision' /\ previous' \in 0..Revision'
    BY DEF TypeOK, Revision, Snapshots
  <2>3. /\ lowered' \in BOOLEAN /\ written' \in BOOLEAN /\ disposing' \in BOOLEAN
    BY DEF TypeOK
  <2>4. /\ phase' \in Phases /\ event' \in 0..Revision'
        /\ live' \subseteq 1..Revision' /\ reports' \subseteq 1..Revision'
        /\ queue' \in Seq(0..Revision')
    BY DEF TypeOK, Phases, Revision
  <2>5. /\ faults' \in 0..MaxTroubles /\ restarts' \in 0..MaxTroubles
    BY DEF TypeOK
  <2>6. /\ catalog' \in Snapshots
        /\ target' \in [revision : 0..Revision', graph : Graph, recovery : BOOLEAN]
        /\ family' \in [revision : 0..Revision', graph : Graph, activation : 0..Revision']
    BY DEF TypeOK, Snapshots, Revision
  <2> QED BY <2>1, <2>2, <2>3, <2>4, <2>5, <2>6 DEF TypeOK
<1>2. TargetDesired'
  BY DEF TargetDesired, Desired, TypeOK, Snapshots, Revision
<1>3. AcceptanceDesired'
  BY DEF AcceptanceDesired, Desired, TypeOK, Snapshots, Revision, Nothing
<1>4. FamilyStands'
  BY DEF FamilyStands, Desired, TypeOK, Snapshots, Revision, NoFamily
<1>5. ActivationsAccounted'
  BY DEF ActivationsAccounted, TypeOK, Snapshots, Revision, NoFamily
<1> QED BY <1>1, <1>2, <1>3, <1>4, <1>5

\* A frame of the revision stream preserves the invariant.
LEMMA SendFrameStep ==
  ASSUME ReconciliationInv, SendFrame
  PROVE  ReconciliationInv'
<1> USE ReconciliationAssumption DEF ReconciliationInv, SendFrame,
            registryVars, channelVars, streamVars, hostVars, callVars, familyVars
<1>1. TypeOK'
  BY SMTT(40), AppendProperties DEF TypeOK, Snapshots, Phases, Revision
<1>2. TargetDesired'
  BY DEF TargetDesired, Desired, TypeOK, Snapshots, Revision
<1>3. AcceptanceDesired'
  BY DEF AcceptanceDesired, Desired, TypeOK, Snapshots, Revision, Nothing
<1>4. FamilyStands'
  BY DEF FamilyStands, Desired, TypeOK, Snapshots, Revision, NoFamily
<1>5. ActivationsAccounted'
  BY DEF ActivationsAccounted, TypeOK, Snapshots, Revision, NoFamily
<1> QED BY <1>1, <1>2, <1>3, <1>4, <1>5

\* A start of the webview preserves the invariant.
LEMMA BootStep ==
  ASSUME ReconciliationInv, Boot
  PROVE  ReconciliationInv'
<1> USE ReconciliationAssumption DEF ReconciliationInv, Boot,
            registryVars, channelVars, streamVars, hostVars, callVars, familyVars
<1>1. TypeOK'
  BY DEF TypeOK, Snapshots, Phases, Revision
<1>2. TargetDesired'
  BY DEF TargetDesired, Desired, TypeOK, Snapshots, Revision
<1>3. AcceptanceDesired'
  BY DEF AcceptanceDesired, Desired, TypeOK, Snapshots, Revision, Nothing
<1>4. FamilyStands'
  BY DEF FamilyStands, Desired, TypeOK, Snapshots, Revision, NoFamily
<1>5. ActivationsAccounted'
  BY DEF ActivationsAccounted, TypeOK, Snapshots, Revision, NoFamily
<1> QED BY <1>1, <1>2, <1>3, <1>4, <1>5

\* The call of start preserves the invariant.
LEMMA StartCallStep ==
  ASSUME ReconciliationInv, StartCall
  PROVE  ReconciliationInv'
<1> USE ReconciliationAssumption DEF ReconciliationInv, StartCall,
            registryVars, channelVars, streamVars, hostVars, callVars, familyVars
<1>1. TypeOK'
  <2>1. /\ history' \in Seq(Graph) /\ Revision' \in 1..MaxRevision
        /\ acceptance' \in Snapshots /\ acceptance'.revision <= Revision'
    BY DEF TypeOK, Snapshots, Revision
  <2>2. failureLog' \subseteq 1..Revision' /\ failures' = failureLog'
    BY DEF TypeOK, Revision
  <2>3. notifying' \subseteq operations' /\ operations' \subseteq 1..Revision'
    BY DEF TypeOK, Revision
  <2>4. watch' \in 1..Revision' /\ sent' \in 0..Revision'
    BY DEF TypeOK, Revision
  <2>5. /\ runtime' \in 0..acceptance'.revision
        /\ routes' \in 0..Revision' /\ settled' \in 0..Revision' /\ previous' \in 0..Revision'
    BY DEF TypeOK, Snapshots, Revision
  <2>6. lowered' \in BOOLEAN /\ written' \in BOOLEAN /\ disposing' \in BOOLEAN
    BY DEF TypeOK
  <2>7. /\ phase' \in Phases /\ event' \in 0..Revision'
        /\ live' \subseteq 1..Revision' /\ reports' \subseteq 1..Revision'
    BY DEF TypeOK, Phases, Revision
  <2>8. queue' \in Seq(0..Revision')
    <3>1. queue \in Seq(0..Revision) /\ 0 \in 0..Revision
      BY DEF TypeOK
    <3> QED BY <3>1, AppendProperties DEF Revision
  <2>9. faults' \in 0..MaxTroubles /\ restarts' \in 0..MaxTroubles
    BY DEF TypeOK
  <2>10. catalog' \in Snapshots
    BY DEF TypeOK, Snapshots, Revision
  <2>11. target' \in [revision : 0..Revision', graph : Graph, recovery : BOOLEAN]
    BY DEF TypeOK, Revision
  <2>12. family' \in [revision : 0..Revision', graph : Graph, activation : 0..Revision']
    BY DEF TypeOK, Revision
  <2> QED
    BY <2>1, <2>2, <2>3, <2>4, <2>5, <2>6, <2>7, <2>8, <2>9, <2>10, <2>11, <2>12 DEF TypeOK
<1>2. TargetDesired'
  BY DEF TargetDesired, Desired, TypeOK, Snapshots, Revision
<1>3. AcceptanceDesired'
  BY DEF AcceptanceDesired, Desired, TypeOK, Snapshots, Revision, Nothing
<1>4. FamilyStands'
  BY DEF FamilyStands, Desired, TypeOK, Snapshots, Revision, NoFamily
<1>5. ActivationsAccounted'
  BY DEF ActivationsAccounted, TypeOK, Snapshots, Revision, NoFamily
<1> QED BY <1>1, <1>2, <1>3, <1>4, <1>5

\* A call that begins preserves the invariant.
LEMMA BeginStep ==
  ASSUME ReconciliationInv, Begin
  PROVE  ReconciliationInv'
<1> USE ReconciliationAssumption DEF ReconciliationInv, Begin,
            registryVars, channelVars, streamVars, hostVars, callVars, familyVars
<1>1. TypeOK'
  BY HeadTailProperties DEF TypeOK, Snapshots, Phases, Revision
<1>2. TargetDesired'
  BY DEF TargetDesired, Desired, TypeOK, Snapshots, Revision
<1>3. AcceptanceDesired'
  BY DEF AcceptanceDesired, Desired, TypeOK, Snapshots, Revision, Nothing
<1>4. FamilyStands'
  BY DEF FamilyStands, Desired, TypeOK, Snapshots, Revision, NoFamily
<1>5. ActivationsAccounted'
  BY DEF ActivationsAccounted, TypeOK, Snapshots, Revision, NoFamily
<1> QED BY <1>1, <1>2, <1>3, <1>4, <1>5

\* A reading of the revision preserves the invariant.
LEMMA ReadRevisionStep ==
  ASSUME ReconciliationInv, ReadRevision
  PROVE  ReconciliationInv'
<1> USE ReconciliationAssumption DEF ReconciliationInv, ReadRevision,
            registryVars, channelVars, streamVars, hostVars, callVars, familyVars
<1>1. TypeOK'
  <2>1. /\ history' \in Seq(Graph) /\ Revision' \in 1..MaxRevision
        /\ acceptance' \in Snapshots /\ acceptance'.revision <= Revision'
    BY DEF TypeOK, Snapshots, Revision
  <2>2. failureLog' \subseteq 1..Revision' /\ failures' = failureLog'
    BY DEF TypeOK, Revision
  <2>3. notifying' \subseteq operations' /\ operations' \subseteq 1..Revision'
    BY DEF TypeOK, Revision
  <2>4. watch' \in 1..Revision' /\ sent' \in 0..Revision'
    BY DEF TypeOK, Revision
  <2>5. /\ runtime' \in 0..acceptance'.revision
        /\ routes' \in 0..Revision' /\ settled' \in 0..Revision' /\ previous' \in 0..Revision'
    BY DEF TypeOK, Snapshots, Revision
  <2>6. lowered' \in BOOLEAN /\ written' \in BOOLEAN /\ disposing' \in BOOLEAN
    BY DEF TypeOK
  <2>7. /\ phase' \in Phases /\ event' \in 0..Revision'
        /\ live' \subseteq 1..Revision' /\ reports' \subseteq 1..Revision'
    BY DEF TypeOK, Phases, Revision
  <2>8. queue' \in Seq(0..Revision')
    BY DEF TypeOK, Revision
  <2>9. faults' \in 0..MaxTroubles /\ restarts' \in 0..MaxTroubles
    BY DEF TypeOK
  <2>10. catalog' \in Snapshots
    <3>1. catalog \in Snapshots /\ Revision \in 0..MaxRevision
      BY DEF TypeOK
    <3> QED BY <3>1 DEF Snapshots
  <2>11. target' \in [revision : 0..Revision', graph : Graph, recovery : BOOLEAN]
    BY DEF TypeOK, Revision
  <2>12. family' \in [revision : 0..Revision', graph : Graph, activation : 0..Revision']
    BY DEF TypeOK, Revision
  <2> QED
    BY <2>1, <2>2, <2>3, <2>4, <2>5, <2>6, <2>7, <2>8, <2>9, <2>10, <2>11, <2>12 DEF TypeOK
<1>2. TargetDesired'
  BY DEF TargetDesired, Desired, TypeOK, Snapshots, Revision
<1>3. AcceptanceDesired'
  BY DEF AcceptanceDesired, Desired, TypeOK, Snapshots, Revision, Nothing
<1>4. FamilyStands'
  BY DEF FamilyStands, Desired, TypeOK, Snapshots, Revision, NoFamily
<1>5. ActivationsAccounted'
  BY DEF ActivationsAccounted, TypeOK, Snapshots, Revision, NoFamily
<1> QED BY <1>1, <1>2, <1>3, <1>4, <1>5

\* A reading of the desired state preserves the invariant.
LEMMA ReadDesiredStep ==
  ASSUME ReconciliationInv, ReadDesired
  PROVE  ReconciliationInv'
<1> USE ReconciliationAssumption DEF ReconciliationInv, ReadDesired,
            registryVars, channelVars, streamVars, hostVars, callVars, familyVars
<1>1. history[Revision] \in Graph /\ Revision \in 1..MaxRevision
  BY ElementOfSeq DEF TypeOK, Revision
<1>2. /\ catalog' \in Snapshots /\ catalog'.revision = catalog.revision
      /\ catalog'.graph = history[Revision]
  BY <1>1 DEF TypeOK, Snapshots
<1>3. \/ /\ phase' = "idle" /\ reports' \subseteq 1..Revision /\ disposing' \in BOOLEAN
         /\ target' = target
      \/ /\ phase' = "reconcile" /\ UNCHANGED << reports, disposing >>
         /\ target' \in [revision : 0..Revision, graph : Graph, recovery : BOOLEAN]
         /\ \/ /\ acceptance # Nothing
               /\ target'.revision = acceptance.revision /\ target'.graph = acceptance.graph
            \/ target'.revision = catalog'.revision /\ target'.graph = catalog'.graph
  <2>1. ASSUME NEW c \in Snapshots, c.revision <= Revision
        PROVE  \A s \in {Snapshot(c, TRUE), Snapshot(c, FALSE)} :
                 /\ s \in [revision : 0..Revision, graph : Graph, recovery : BOOLEAN]
                 /\ s.revision = c.revision /\ s.graph = c.graph
    <3>1. c.revision \in 0..Revision /\ c.graph \in Graph
      BY <1>1, <2>1 DEF Snapshots
    <3>2. /\ Snapshot(c, TRUE) \in [revision : 0..Revision, graph : Graph, recovery : BOOLEAN]
          /\ Snapshot(c, TRUE).revision = c.revision /\ Snapshot(c, TRUE).graph = c.graph
      BY <3>1 DEF Snapshot
    <3>3. /\ Snapshot(c, FALSE) \in [revision : 0..Revision, graph : Graph, recovery : BOOLEAN]
          /\ Snapshot(c, FALSE).revision = c.revision /\ Snapshot(c, FALSE).graph = c.graph
      BY <3>1 DEF Snapshot
    <3> QED BY <3>2, <3>3
  <2>2. /\ acceptance \in Snapshots /\ acceptance.revision <= Revision
        /\ catalog.revision <= Revision
    BY DEF TypeOK, TargetDesired
  <2>3. CASE Throw /\ UNCHANGED target
    BY <2>3, ThrowEffect
  <2>4. CASE target' = Snapshot(acceptance, TRUE) /\ acceptance # Nothing /\ phase' = "reconcile"
             /\ UNCHANGED << reports, disposing >>
    BY <2>1, <2>2, <2>4
  <2>5. CASE target' = Snapshot(catalog', FALSE) /\ phase' = "reconcile"
             /\ UNCHANGED << reports, disposing >>
    BY <1>2, <2>1, <2>2, <2>5
  <2> QED BY <2>3, <2>4, <2>5 DEF Recovers
<1>4. TypeOK'
  BY <1>1, <1>2, <1>3 DEF TypeOK, Snapshots, Phases, Revision
<1>5. TargetDesired'
  <2> SUFFICES ASSUME phase' = "reconcile"
               PROVE  /\ catalog'.revision >= 1 /\ Desired(catalog)'
                      /\ target'.revision >= 1 /\ Desired(target)'
    BY <1>3 DEF TargetDesired
  <2>1. catalog'.revision \in 1..Revision /\ Revision' = Revision
    BY <1>2 DEF TargetDesired, Revision
  <2>2. Desired(catalog)'
    BY <1>1, <1>2, <2>1 DEF Desired
  <2>3. acceptance # Nothing => acceptance.revision >= 1 /\ Desired(acceptance)
    BY DEF AcceptanceDesired
  <2>4. target'.revision >= 1 /\ Desired(target)'
    BY <1>3, <2>1, <2>2, <2>3 DEF Desired
  <2> QED BY <2>1, <2>2, <2>4
<1>6. AcceptanceDesired'
  BY <1>1, <1>2, <1>3 DEF AcceptanceDesired, Desired, TypeOK, Snapshots, Revision, Nothing
<1>7. FamilyStands'
  BY <1>1, <1>2, <1>3 DEF FamilyStands, Desired, TypeOK, Snapshots, Revision, NoFamily
<1>8. ActivationsAccounted'
  BY <1>1, <1>2, <1>3 DEF ActivationsAccounted, TypeOK, Snapshots, Revision, NoFamily
<1> QED BY <1>4, <1>5, <1>6, <1>7, <1>8

\* A reading that fails preserves the invariant.
LEMMA ReadFailsStep ==
  ASSUME ReconciliationInv, ReadFails
  PROVE  ReconciliationInv'
<1> USE ReconciliationAssumption DEF ReconciliationInv, ReadFails, Troubles,
            registryVars, channelVars, streamVars, hostVars, callVars, familyVars
<1>1. phase' = "idle" /\ reports' \subseteq 1..Revision /\ disposing' \in BOOLEAN
  BY ThrowEffect
<1>2. TypeOK'
  <2>1. /\ history' \in Seq(Graph) /\ Revision' \in 1..MaxRevision
        /\ acceptance' \in Snapshots /\ acceptance'.revision <= Revision'
        /\ failureLog' \subseteq 1..Revision' /\ failures' = failureLog'
    BY <1>1 DEF TypeOK, Snapshots, Revision
  <2>2. /\ notifying' \subseteq operations' /\ operations' \subseteq 1..Revision'
        /\ watch' \in 1..Revision' /\ sent' \in 0..Revision'
        /\ runtime' \in 0..acceptance'.revision
        /\ routes' \in 0..Revision' /\ settled' \in 0..Revision' /\ previous' \in 0..Revision'
    BY <1>1 DEF TypeOK, Revision, Snapshots
  <2>3. /\ lowered' \in BOOLEAN /\ written' \in BOOLEAN /\ disposing' \in BOOLEAN
    BY <1>1 DEF TypeOK
  <2>4. /\ phase' \in Phases /\ event' \in 0..Revision'
        /\ live' \subseteq 1..Revision' /\ reports' \subseteq 1..Revision'
        /\ queue' \in Seq(0..Revision')
    BY <1>1 DEF TypeOK, Phases, Revision
  <2>5. /\ faults' \in 0..MaxTroubles /\ restarts' \in 0..MaxTroubles
    BY <1>1 DEF TypeOK
  <2>6. /\ catalog' \in Snapshots
        /\ target' \in [revision : 0..Revision', graph : Graph, recovery : BOOLEAN]
        /\ family' \in [revision : 0..Revision', graph : Graph, activation : 0..Revision']
    BY <1>1 DEF TypeOK, Snapshots, Revision
  <2> QED BY <2>1, <2>2, <2>3, <2>4, <2>5, <2>6 DEF TypeOK
<1>3. TargetDesired'
  BY <1>1 DEF TargetDesired, Desired, TypeOK, Snapshots, Revision
<1>4. AcceptanceDesired'
  BY <1>1 DEF AcceptanceDesired, Desired, TypeOK, Snapshots, Revision, Nothing
<1>5. FamilyStands'
  BY <1>1 DEF FamilyStands, Desired, TypeOK, Snapshots, Revision, NoFamily
<1>6. ActivationsAccounted'
  BY <1>1 DEF ActivationsAccounted, TypeOK, Snapshots, Revision, NoFamily
<1> QED BY <1>2, <1>3, <1>4, <1>5, <1>6

\* A snapshot that is skipped preserves the invariant.
LEMMA SkipStep ==
  ASSUME ReconciliationInv, Skip
  PROVE  ReconciliationInv'
<1> USE ReconciliationAssumption DEF ReconciliationInv, Skip,
            registryVars, channelVars, streamVars, hostVars, callVars, familyVars
<1>1. \/ /\ phase' = "reconcile"
         /\ target' \in [revision : 0..Revision, graph : Graph, recovery : BOOLEAN]
         /\ target'.revision = catalog.revision /\ target'.graph = catalog.graph
      \/ phase' = "idle" /\ target' = target
  BY ProceedEffect
<1>2. TypeOK'
  BY <1>1 DEF TypeOK, Snapshots, Phases, Revision
<1>3. TargetDesired'
  BY <1>1 DEF TargetDesired, Desired, TypeOK, Snapshots, Revision
<1>4. AcceptanceDesired'
  BY <1>1 DEF AcceptanceDesired, Desired, TypeOK, Snapshots, Revision, Nothing
<1>5. FamilyStands'
  BY <1>1 DEF FamilyStands, Desired, TypeOK, Snapshots, Revision, NoFamily
<1>6. ActivationsAccounted'
  BY <1>1 DEF ActivationsAccounted, TypeOK, Snapshots, Revision, NoFamily
<1> QED BY <1>2, <1>3, <1>4, <1>5, <1>6

\* A family that is kept preserves the invariant.
LEMMA RetainStep ==
  ASSUME ReconciliationInv, Retain
  PROVE  ReconciliationInv'
<1> USE ReconciliationAssumption DEF ReconciliationInv, Retain, Stale, Repeated, Unchanged,
            registryVars, channelVars, streamVars, hostVars, callVars, familyVars
<1>1. /\ family'.revision = target.revision /\ family'.graph = family.graph
      /\ family'.activation = family.activation
  BY DEF TypeOK
<1>2. TypeOK'
  BY <1>1 DEF TypeOK, Snapshots, Phases, Revision
<1>3. TargetDesired'
  BY <1>1 DEF TargetDesired, Desired, TypeOK, Snapshots, Revision
<1>4. AcceptanceDesired'
  BY <1>1 DEF AcceptanceDesired, Desired, TypeOK, Snapshots, Revision, Nothing
<1>5. FamilyStands'
  <2>1. /\ target.revision >= family.revision /\ target.revision # settled
        /\ target.revision >= settled /\ family.revision \in Nat /\ target.revision \in Nat
    BY DEF Stale, Repeated, TypeOK
  <2>2. Desired(target) /\ family.graph = target.graph /\ family # NoFamily
    BY DEF TargetDesired, Unchanged
  <2>3. family'.activation \in 1..family'.revision
    BY <1>1, <2>1, <2>2 DEF FamilyStands
  <2>4. Desired(family)'
    BY <1>1, <2>2 DEF Desired, Revision
  <2> QED BY <1>1, <2>1, <2>3, <2>4 DEF FamilyStands, TypeOK
<1>6. ActivationsAccounted'
  BY <1>1 DEF ActivationsAccounted, TypeOK, Snapshots, Revision, NoFamily
<1> QED BY <1>2, <1>3, <1>4, <1>5, <1>6

\* A candidate preserves the invariant.
LEMMA PrepareStep ==
  ASSUME ReconciliationInv, Prepare
  PROVE  ReconciliationInv'
<1> USE ReconciliationAssumption DEF ReconciliationInv, Prepare, Stale, Repeated, Unchanged,
            registryVars, channelVars, streamVars, hostVars, callVars, familyVars
<1>1. \/ /\ phase' = "publish" /\ live' = live \cup {target.revision}
         /\ settled' = settled /\ target' = target
      \/ /\ live' = live /\ settled' = target.revision
         /\ \/ /\ phase' = "reconcile"
               /\ target' \in [revision : 0..Revision, graph : Graph, recovery : BOOLEAN]
               /\ target'.revision = catalog.revision /\ target'.graph = catalog.graph
            \/ phase' \in {"idle", "reject"} /\ target' = target
  BY ProceedEffect
<1>2. TypeOK'
  <2>1. /\ history' \in Seq(Graph) /\ Revision' \in 1..MaxRevision
        /\ acceptance' \in Snapshots /\ acceptance'.revision <= Revision'
    BY <1>1 DEF TypeOK, Snapshots, Revision, TargetDesired
  <2>2. failureLog' \subseteq 1..Revision' /\ failures' = failureLog'
    BY <1>1 DEF TypeOK, Revision, TargetDesired
  <2>3. notifying' \subseteq operations' /\ operations' \subseteq 1..Revision'
    BY <1>1 DEF TypeOK, Revision, TargetDesired
  <2>4. watch' \in 1..Revision' /\ sent' \in 0..Revision'
    BY <1>1 DEF TypeOK, Revision, TargetDesired
  <2>5. /\ runtime' \in 0..acceptance'.revision
        /\ routes' \in 0..Revision' /\ settled' \in 0..Revision' /\ previous' \in 0..Revision'
    BY <1>1 DEF TypeOK, Snapshots, Revision, TargetDesired
  <2>6. lowered' \in BOOLEAN /\ written' \in BOOLEAN /\ disposing' \in BOOLEAN
    BY <1>1 DEF TypeOK, TargetDesired
  <2>7. /\ phase' \in Phases /\ event' \in 0..Revision'
        /\ live' \subseteq 1..Revision' /\ reports' \subseteq 1..Revision'
    <3>1. target.revision \in 1..Revision /\ live \subseteq 1..Revision /\ Revision' = Revision
      BY DEF TypeOK, TargetDesired, Revision
    <3>2. live' \subseteq 1..Revision
      BY <1>1, <3>1
    <3> QED BY <1>1, <3>1, <3>2 DEF TypeOK, Phases
  <2>8. queue' \in Seq(0..Revision')
    BY <1>1 DEF TypeOK, Revision, TargetDesired
  <2>9. faults' \in 0..MaxTroubles /\ restarts' \in 0..MaxTroubles
    BY <1>1 DEF TypeOK, TargetDesired
  <2>10. catalog' \in Snapshots
    BY <1>1 DEF TypeOK, Snapshots, Revision, TargetDesired
  <2>11. target' \in [revision : 0..Revision', graph : Graph, recovery : BOOLEAN]
    BY <1>1 DEF TypeOK, Revision, TargetDesired
  <2>12. family' \in [revision : 0..Revision', graph : Graph, activation : 0..Revision']
    BY <1>1 DEF TypeOK, Revision, TargetDesired
  <2> QED
    BY <2>1, <2>2, <2>3, <2>4, <2>5, <2>6, <2>7, <2>8, <2>9, <2>10, <2>11, <2>12 DEF TypeOK
<1>3. TargetDesired'
  BY <1>1 DEF TargetDesired, Desired, TypeOK, Snapshots, Revision
<1>4. AcceptanceDesired'
  BY <1>1 DEF AcceptanceDesired, Desired, TypeOK, Snapshots, Revision, Nothing
<1>5. FamilyStands'
  BY <1>1 DEF FamilyStands, Desired, TypeOK, Snapshots, Revision, NoFamily
<1>6. ActivationsAccounted'
  BY <1>1 DEF ActivationsAccounted, TypeOK, Snapshots, Revision, NoFamily, FamilyStands,
     TargetDesired
<1> QED BY <1>2, <1>3, <1>4, <1>5, <1>6

\* A candidate that is refused preserves the invariant.
LEMMA RefuseStep ==
  ASSUME ReconciliationInv, Refuse
  PROVE  ReconciliationInv'
<1> USE ReconciliationAssumption DEF ReconciliationInv, Refuse,
            registryVars, channelVars, streamVars, hostVars, callVars, familyVars
<1>1. \/ /\ phase' = "reconcile"
         /\ target' \in [revision : 0..Revision, graph : Graph, recovery : BOOLEAN]
         /\ target'.revision = catalog.revision /\ target'.graph = catalog.graph
      \/ phase' \in {"idle", "reject"} /\ target' = target
  BY ProceedEffect
<1>2. TypeOK'
  BY <1>1 DEF TypeOK, Snapshots, Phases, Revision
<1>3. TargetDesired'
  BY <1>1 DEF TargetDesired, Desired, TypeOK, Snapshots, Revision
<1>4. AcceptanceDesired'
  BY <1>1 DEF AcceptanceDesired, Desired, TypeOK, Snapshots, Revision, Nothing
<1>5. FamilyStands'
  BY <1>1 DEF FamilyStands, Desired, TypeOK, Snapshots, Revision, NoFamily, ActivationsAccounted
<1>6. ActivationsAccounted'
  BY <1>1 DEF ActivationsAccounted, TypeOK, Snapshots, Revision, NoFamily, FamilyStands,
     TargetDesired
<1> QED BY <1>2, <1>3, <1>4, <1>5, <1>6

\* A switch of the routes preserves the invariant.
LEMMA SwitchStep ==
  ASSUME ReconciliationInv, Switch
  PROVE  ReconciliationInv'
<1> USE ReconciliationAssumption DEF ReconciliationInv, Switch,
            registryVars, channelVars, streamVars, hostVars, callVars, familyVars
<1>1. TypeOK'
  BY DEF TypeOK, Snapshots, Phases, Revision
<1>2. TargetDesired'
  BY DEF TargetDesired, Desired, TypeOK, Snapshots, Revision
<1>3. AcceptanceDesired'
  BY DEF AcceptanceDesired, Desired, TypeOK, Snapshots, Revision, Nothing
<1>4. FamilyStands'
  BY DEF FamilyStands, Desired, TypeOK, Snapshots, Revision, NoFamily
<1>5. ActivationsAccounted'
  BY DEF ActivationsAccounted, TypeOK, Snapshots, Revision, NoFamily
<1> QED BY <1>1, <1>2, <1>3, <1>4, <1>5

\* A family that becomes public preserves the invariant.
LEMMA InstallStep ==
  ASSUME ReconciliationInv, Install
  PROVE  ReconciliationInv'
<1> USE ReconciliationAssumption DEF ReconciliationInv, Install,
            registryVars, channelVars, streamVars, hostVars, callVars, familyVars
<1>1. /\ family'.revision = target.revision /\ family'.graph = target.graph
      /\ family'.activation = target.revision
  OBVIOUS
<1>2. TypeOK'
  BY <1>1 DEF TypeOK, Snapshots, Phases, Revision
<1>3. TargetDesired'
  BY <1>1 DEF TargetDesired, Desired, TypeOK, Snapshots, Revision
<1>4. AcceptanceDesired'
  BY <1>1 DEF AcceptanceDesired, Desired, TypeOK, Snapshots, Revision, Nothing
<1>5. FamilyStands'
  BY <1>1 DEF FamilyStands, Desired, TypeOK, Snapshots, Revision, NoFamily, TargetDesired,
     ActivationsAccounted
<1>6. ActivationsAccounted'
  BY <1>1 DEF ActivationsAccounted, TypeOK, Snapshots, Revision, NoFamily, TargetDesired,
     FamilyStands
<1> QED BY <1>2, <1>3, <1>4, <1>5, <1>6

\* A predecessor that is disposed preserves the invariant.
LEMMA RetireStep ==
  ASSUME ReconciliationInv, Retire
  PROVE  ReconciliationInv'
<1> USE ReconciliationAssumption DEF ReconciliationInv, Retire,
            registryVars, channelVars, streamVars, hostVars, callVars, familyVars
<1>1. TypeOK'
  BY SMTT(40) DEF TypeOK, Snapshots, Phases, Revision
<1>2. TargetDesired'
  BY DEF TargetDesired, Desired, TypeOK, Snapshots, Revision
<1>3. AcceptanceDesired'
  BY DEF AcceptanceDesired, Desired, TypeOK, Snapshots, Revision, Nothing
<1>4. FamilyStands'
  BY DEF FamilyStands, Desired, TypeOK, Snapshots, Revision, NoFamily
<1>5. ActivationsAccounted'
  BY DEF ActivationsAccounted, TypeOK, Snapshots, Revision, NoFamily
<1> QED BY <1>1, <1>2, <1>3, <1>4, <1>5

\* An acceptance preserves the invariant.
LEMMA RecordAcceptanceStep ==
  ASSUME ReconciliationInv, RecordAcceptance
  PROVE  ReconciliationInv'
<1> USE ReconciliationAssumption DEF ReconciliationInv, RecordAcceptance,
            registryVars, channelVars, streamVars, hostVars, callVars, familyVars
<1>1. TypeOK'
  BY SMTT(40) DEF TypeOK, Snapshots, Phases, Revision
<1>2. TargetDesired'
  BY DEF TargetDesired, Desired, TypeOK, Snapshots, Revision
<1>3. AcceptanceDesired'
  BY DEF AcceptanceDesired, Desired, TypeOK, Snapshots, Revision, FamilyStands,
     ActivationsAccounted, TargetDesired, NoFamily
<1>4. FamilyStands'
  BY DEF FamilyStands, Desired, TypeOK, Snapshots, Revision, NoFamily
<1>5. ActivationsAccounted'
  BY DEF ActivationsAccounted, TypeOK, Snapshots, Revision, NoFamily
<1> QED BY <1>1, <1>2, <1>3, <1>4, <1>5

\* A runtime snapshot preserves the invariant.
LEMMA SetRuntimeStep ==
  ASSUME ReconciliationInv, SetRuntime
  PROVE  ReconciliationInv'
<1> USE ReconciliationAssumption DEF ReconciliationInv, SetRuntime,
            registryVars, channelVars, streamVars, hostVars, callVars, familyVars
<1>1. \/ /\ phase' = "reconcile"
         /\ target' \in [revision : 0..Revision, graph : Graph, recovery : BOOLEAN]
         /\ target'.revision = catalog.revision /\ target'.graph = catalog.graph
      \/ phase' = "idle" /\ target' = target
  BY ProceedEffect
<1>2. TypeOK'
  BY SMTT(40), <1>1 DEF TypeOK, Snapshots, Phases, Revision, ActivationsAccounted
<1>3. TargetDesired'
  BY <1>1 DEF TargetDesired, Desired, TypeOK, Snapshots, Revision
<1>4. AcceptanceDesired'
  BY <1>1 DEF AcceptanceDesired, Desired, TypeOK, Snapshots, Revision, Nothing
<1>5. FamilyStands'
  BY <1>1 DEF FamilyStands, Desired, TypeOK, Snapshots, Revision, NoFamily, ActivationsAccounted
<1>6. ActivationsAccounted'
  BY <1>1 DEF ActivationsAccounted, TypeOK, Snapshots, Revision, NoFamily
<1> QED BY <1>2, <1>3, <1>4, <1>5, <1>6

\* A report that fails preserves the invariant.
LEMMA ReportFailsStep ==
  ASSUME ReconciliationInv, ReportFails
  PROVE  ReconciliationInv'
<1> USE ReconciliationAssumption DEF ReconciliationInv, ReportFails, Troubles,
            registryVars, channelVars, streamVars, hostVars, callVars, familyVars
<1>1. phase' = "idle" /\ reports' \subseteq 1..Revision /\ disposing' \in BOOLEAN
  BY ThrowEffect
<1>2. TypeOK'
  <2>1. /\ history' \in Seq(Graph) /\ Revision' \in 1..MaxRevision
        /\ acceptance' \in Snapshots /\ acceptance'.revision <= Revision'
        /\ failureLog' \subseteq 1..Revision' /\ failures' = failureLog'
    BY <1>1 DEF TypeOK, Snapshots, Revision
  <2>2. /\ notifying' \subseteq operations' /\ operations' \subseteq 1..Revision'
        /\ watch' \in 1..Revision' /\ sent' \in 0..Revision'
        /\ runtime' \in 0..acceptance'.revision
        /\ routes' \in 0..Revision' /\ settled' \in 0..Revision' /\ previous' \in 0..Revision'
    BY <1>1 DEF TypeOK, Revision, Snapshots
  <2>3. /\ lowered' \in BOOLEAN /\ written' \in BOOLEAN /\ disposing' \in BOOLEAN
    BY <1>1 DEF TypeOK
  <2>4. /\ phase' \in Phases /\ event' \in 0..Revision'
        /\ live' \subseteq 1..Revision' /\ reports' \subseteq 1..Revision'
        /\ queue' \in Seq(0..Revision')
    BY <1>1 DEF TypeOK, Phases, Revision
  <2>5. /\ faults' \in 0..MaxTroubles /\ restarts' \in 0..MaxTroubles
    BY <1>1 DEF TypeOK
  <2>6. /\ catalog' \in Snapshots
        /\ target' \in [revision : 0..Revision', graph : Graph, recovery : BOOLEAN]
        /\ family' \in [revision : 0..Revision', graph : Graph, activation : 0..Revision']
    BY <1>1 DEF TypeOK, Snapshots, Revision
  <2> QED BY <2>1, <2>2, <2>3, <2>4, <2>5, <2>6 DEF TypeOK
<1>3. TargetDesired'
  BY <1>1 DEF TargetDesired, Desired, TypeOK, Snapshots, Revision
<1>4. AcceptanceDesired'
  BY <1>1 DEF AcceptanceDesired, Desired, TypeOK, Snapshots, Revision, Nothing
<1>5. FamilyStands'
  BY <1>1 DEF FamilyStands, Desired, TypeOK, Snapshots, Revision, NoFamily
<1>6. ActivationsAccounted'
  BY <1>1 DEF ActivationsAccounted, TypeOK, Snapshots, Revision, NoFamily
<1> QED BY <1>2, <1>3, <1>4, <1>5, <1>6

\* A rejection preserves the invariant.
LEMMA ReportRejectedStep ==
  ASSUME ReconciliationInv, ReportRejected
  PROVE  ReconciliationInv'
<1> USE ReconciliationAssumption DEF ReconciliationInv, ReportRejected, RecordFailure,
            registryVars, channelVars, streamVars, hostVars, callVars, familyVars
<1>1. \/ /\ phase' = "reconcile"
         /\ target' \in [revision : 0..Revision, graph : Graph, recovery : BOOLEAN]
         /\ target'.revision = catalog.revision /\ target'.graph = catalog.graph
      \/ phase' = "idle" /\ target' = target
  BY ProceedEffect
<1>2. TypeOK'
  <2>1. /\ history' \in Seq(Graph) /\ Revision' \in 1..MaxRevision
        /\ acceptance' \in Snapshots /\ acceptance'.revision <= Revision'
    BY <1>1 DEF TypeOK, Snapshots, Revision
  <2>2. failureLog' \subseteq 1..Revision' /\ failures' = failureLog'
    <3>1. /\ target.revision \in 1..Revision /\ failureLog \subseteq 1..Revision
          /\ Revision' = Revision
      BY DEF TypeOK, TargetDesired, Revision
    <3>2. failures = failureLog
      BY DEF TypeOK
    <3> QED BY <3>1, <3>2
  <2>3. notifying' \subseteq operations' /\ operations' \subseteq 1..Revision'
    BY <1>1 DEF TypeOK, Revision
  <2>4. watch' \in 1..Revision' /\ sent' \in 0..Revision'
    BY <1>1 DEF TypeOK, Revision
  <2>5. /\ runtime' \in 0..acceptance'.revision
        /\ routes' \in 0..Revision' /\ settled' \in 0..Revision' /\ previous' \in 0..Revision'
    BY <1>1 DEF TypeOK, Snapshots, Revision
  <2>6. lowered' \in BOOLEAN /\ written' \in BOOLEAN /\ disposing' \in BOOLEAN
    BY <1>1 DEF TypeOK
  <2>7. /\ phase' \in Phases /\ event' \in 0..Revision'
        /\ live' \subseteq 1..Revision' /\ reports' \subseteq 1..Revision'
    BY <1>1 DEF TypeOK, Phases, Revision
  <2>8. queue' \in Seq(0..Revision')
    BY <1>1 DEF TypeOK, Revision
  <2>9. faults' \in 0..MaxTroubles /\ restarts' \in 0..MaxTroubles
    BY <1>1 DEF TypeOK
  <2>10. catalog' \in Snapshots
    BY <1>1 DEF TypeOK, Snapshots, Revision
  <2>11. target' \in [revision : 0..Revision', graph : Graph, recovery : BOOLEAN]
    BY <1>1 DEF TypeOK, Revision
  <2>12. family' \in [revision : 0..Revision', graph : Graph, activation : 0..Revision']
    BY <1>1 DEF TypeOK, Revision
  <2> QED
    BY <2>1, <2>2, <2>3, <2>4, <2>5, <2>6, <2>7, <2>8, <2>9, <2>10, <2>11, <2>12 DEF TypeOK
<1>3. TargetDesired'
  BY <1>1 DEF TargetDesired, Desired, TypeOK, Snapshots, Revision
<1>4. AcceptanceDesired'
  BY <1>1 DEF AcceptanceDesired, Desired, TypeOK, Snapshots, Revision, Nothing
<1>5. FamilyStands'
  BY <1>1 DEF FamilyStands, Desired, TypeOK, Snapshots, Revision, NoFamily
<1>6. ActivationsAccounted'
  BY <1>1 DEF ActivationsAccounted, TypeOK, Snapshots, Revision, NoFamily
<1> QED BY <1>2, <1>3, <1>4, <1>5, <1>6

\* A failed observation preserves the invariant.
LEMMA ReportObservationStep ==
  ASSUME ReconciliationInv, NEW e \in reports, ReportObservation(e)
  PROVE  ReconciliationInv'
<1> USE ReconciliationAssumption DEF ReconciliationInv, ReportObservation, RecordFailure,
            registryVars, channelVars, streamVars, hostVars, callVars, familyVars
<1>1. TypeOK'
  BY DEF TypeOK, Snapshots, Phases, Revision
<1>2. TargetDesired'
  BY DEF TargetDesired, Desired, TypeOK, Snapshots, Revision
<1>3. AcceptanceDesired'
  BY DEF AcceptanceDesired, Desired, TypeOK, Snapshots, Revision, Nothing
<1>4. FamilyStands'
  BY DEF FamilyStands, Desired, TypeOK, Snapshots, Revision, NoFamily
<1>5. ActivationsAccounted'
  BY DEF ActivationsAccounted, TypeOK, Snapshots, Revision, NoFamily
<1> QED BY <1>1, <1>2, <1>3, <1>4, <1>5

\* A report that is dropped preserves the invariant.
LEMMA DropReportStep ==
  ASSUME ReconciliationInv, NEW e \in reports, DropReport(e)
  PROVE  ReconciliationInv'
<1> USE ReconciliationAssumption DEF ReconciliationInv, DropReport, Troubles,
            registryVars, channelVars, streamVars, hostVars, callVars, familyVars
<1>1. TypeOK'
  <2>1. /\ history' \in Seq(Graph) /\ Revision' \in 1..MaxRevision
        /\ acceptance' \in Snapshots /\ acceptance'.revision <= Revision'
        /\ failureLog' \subseteq 1..Revision' /\ failures' = failureLog'
    BY DEF TypeOK, Snapshots, Revision
  <2>2. /\ notifying' \subseteq operations' /\ operations' \subseteq 1..Revision'
        /\ watch' \in 1..Revision' /\ sent' \in 0..Revision'
        /\ runtime' \in 0..acceptance'.revision
        /\ routes' \in 0..Revision' /\ settled' \in 0..Revision' /\ previous' \in 0..Revision'
    BY DEF TypeOK, Revision, Snapshots
  <2>3. /\ lowered' \in BOOLEAN /\ written' \in BOOLEAN /\ disposing' \in BOOLEAN
    BY DEF TypeOK
  <2>4. /\ phase' \in Phases /\ event' \in 0..Revision'
        /\ live' \subseteq 1..Revision' /\ reports' \subseteq 1..Revision'
        /\ queue' \in Seq(0..Revision')
    BY DEF TypeOK, Phases, Revision
  <2>5. /\ faults' \in 0..MaxTroubles /\ restarts' \in 0..MaxTroubles
    BY DEF TypeOK
  <2>6. /\ catalog' \in Snapshots
        /\ target' \in [revision : 0..Revision', graph : Graph, recovery : BOOLEAN]
        /\ family' \in [revision : 0..Revision', graph : Graph, activation : 0..Revision']
    BY DEF TypeOK, Snapshots, Revision
  <2> QED BY <2>1, <2>2, <2>3, <2>4, <2>5, <2>6 DEF TypeOK
<1>2. TargetDesired'
  BY DEF TargetDesired, Desired, TypeOK, Snapshots, Revision
<1>3. AcceptanceDesired'
  BY DEF AcceptanceDesired, Desired, TypeOK, Snapshots, Revision, Nothing
<1>4. FamilyStands'
  BY DEF FamilyStands, Desired, TypeOK, Snapshots, Revision, NoFamily
<1>5. ActivationsAccounted'
  BY DEF ActivationsAccounted, TypeOK, Snapshots, Revision, NoFamily
<1> QED BY <1>1, <1>2, <1>3, <1>4, <1>5

\* A request to dispose preserves the invariant.
LEMMA RequestDisposeStep ==
  ASSUME ReconciliationInv, RequestDispose
  PROVE  ReconciliationInv'
<1> USE ReconciliationAssumption DEF ReconciliationInv, RequestDispose,
            registryVars, channelVars, streamVars, hostVars, callVars, familyVars
<1>1. TypeOK'
  BY DEF TypeOK, Snapshots, Phases, Revision
<1>2. TargetDesired'
  BY DEF TargetDesired, Desired, TypeOK, Snapshots, Revision
<1>3. AcceptanceDesired'
  BY DEF AcceptanceDesired, Desired, TypeOK, Snapshots, Revision, Nothing
<1>4. FamilyStands'
  BY DEF FamilyStands, Desired, TypeOK, Snapshots, Revision, NoFamily
<1>5. ActivationsAccounted'
  BY DEF ActivationsAccounted, TypeOK, Snapshots, Revision, NoFamily
<1> QED BY <1>1, <1>2, <1>3, <1>4, <1>5

\* A disposal preserves the invariant.
LEMMA DisposeStep ==
  ASSUME ReconciliationInv, Dispose
  PROVE  ReconciliationInv'
<1> USE ReconciliationAssumption DEF ReconciliationInv, Dispose,
            registryVars, channelVars, streamVars, hostVars, callVars, familyVars
<1>1. TypeOK'
  <2>1. /\ history' \in Seq(Graph) /\ Revision' \in 1..MaxRevision
        /\ acceptance' \in Snapshots /\ acceptance'.revision <= Revision'
        /\ failureLog' \subseteq 1..Revision' /\ failures' = failureLog'
    BY DEF TypeOK, Snapshots, Revision, NoFamily
  <2>2. /\ notifying' \subseteq operations' /\ operations' \subseteq 1..Revision'
        /\ watch' \in 1..Revision' /\ sent' \in 0..Revision'
        /\ runtime' \in 0..acceptance'.revision
        /\ routes' \in 0..Revision' /\ settled' \in 0..Revision' /\ previous' \in 0..Revision'
    BY DEF TypeOK, Revision, Snapshots, NoFamily
  <2>3. /\ lowered' \in BOOLEAN /\ written' \in BOOLEAN /\ disposing' \in BOOLEAN
    BY DEF TypeOK, NoFamily
  <2>4. /\ phase' \in Phases /\ event' \in 0..Revision'
        /\ live' \subseteq 1..Revision' /\ reports' \subseteq 1..Revision'
        /\ queue' \in Seq(0..Revision')
    BY DEF TypeOK, Phases, Revision, NoFamily
  <2>5. /\ faults' \in 0..MaxTroubles /\ restarts' \in 0..MaxTroubles
    BY DEF TypeOK, NoFamily
  <2>6. /\ catalog' \in Snapshots
        /\ target' \in [revision : 0..Revision', graph : Graph, recovery : BOOLEAN]
        /\ family' \in [revision : 0..Revision', graph : Graph, activation : 0..Revision']
    BY DEF TypeOK, Snapshots, Revision, NoFamily
  <2> QED BY <2>1, <2>2, <2>3, <2>4, <2>5, <2>6 DEF TypeOK
<1>2. TargetDesired'
  BY DEF TargetDesired, Desired, TypeOK, Snapshots, Revision
<1>3. AcceptanceDesired'
  BY DEF AcceptanceDesired, Desired, TypeOK, Snapshots, Revision, Nothing
<1>4. FamilyStands'
  BY DEF FamilyStands, Desired, TypeOK, Snapshots, Revision, NoFamily
<1>5. ActivationsAccounted'
  BY DEF ActivationsAccounted, TypeOK, Snapshots, Revision, NoFamily
<1> QED BY <1>1, <1>2, <1>3, <1>4, <1>5

\* A restart preserves the invariant.
LEMMA RestartStep ==
  ASSUME ReconciliationInv, Restart
  PROVE  ReconciliationInv'
<1> USE ReconciliationAssumption DEF ReconciliationInv, Restart, Troubles,
            registryVars, channelVars, streamVars, hostVars, callVars, familyVars
<1>1. TypeOK'
  <2>1. /\ history' \in Seq(Graph) /\ Revision' \in 1..MaxRevision
        /\ acceptance' \in Snapshots /\ acceptance'.revision <= Revision'
        /\ failureLog' \subseteq 1..Revision' /\ failures' = failureLog'
    BY DEF TypeOK, Snapshots, Revision, Nothing, NoFamily, Snapshot
  <2>2. /\ notifying' \subseteq operations' /\ operations' \subseteq 1..Revision'
        /\ watch' \in 1..Revision' /\ sent' \in 0..Revision'
        /\ runtime' \in 0..acceptance'.revision
        /\ routes' \in 0..Revision' /\ settled' \in 0..Revision' /\ previous' \in 0..Revision'
    BY DEF TypeOK, Revision, Snapshots, Nothing, NoFamily, Snapshot
  <2>3. /\ lowered' \in BOOLEAN /\ written' \in BOOLEAN /\ disposing' \in BOOLEAN
    BY DEF TypeOK, Nothing, NoFamily, Snapshot
  <2>4. /\ phase' \in Phases /\ event' \in 0..Revision'
        /\ live' \subseteq 1..Revision' /\ reports' \subseteq 1..Revision'
        /\ queue' \in Seq(0..Revision')
    BY DEF TypeOK, Phases, Revision, Nothing, NoFamily, Snapshot
  <2>5. /\ faults' \in 0..MaxTroubles /\ restarts' \in 0..MaxTroubles
    BY DEF TypeOK, Nothing, NoFamily, Snapshot
  <2>6. /\ catalog' \in Snapshots
        /\ target' \in [revision : 0..Revision', graph : Graph, recovery : BOOLEAN]
        /\ family' \in [revision : 0..Revision', graph : Graph, activation : 0..Revision']
    BY DEF TypeOK, Snapshots, Revision, Nothing, NoFamily, Snapshot
  <2> QED BY <2>1, <2>2, <2>3, <2>4, <2>5, <2>6 DEF TypeOK
<1>2. TargetDesired'
  BY DEF TargetDesired, Desired, TypeOK, Snapshots, Revision
<1>3. AcceptanceDesired'
  BY DEF AcceptanceDesired, Desired, TypeOK, Snapshots, Revision, Nothing
<1>4. FamilyStands'
  BY DEF FamilyStands, Desired, TypeOK, Snapshots, Revision, NoFamily
<1>5. ActivationsAccounted'
  BY DEF ActivationsAccounted, TypeOK, Snapshots, Revision, NoFamily
<1> QED BY <1>1, <1>2, <1>3, <1>4, <1>5

\* A step that changes nothing preserves the invariant.
LEMMA ReconciliationStutter ==
  ASSUME ReconciliationInv, UNCHANGED vars
  PROVE  ReconciliationInv'
<1> USE DEF ReconciliationInv, vars, registryVars, channelVars, streamVars, hostVars, callVars,
            familyVars
<1>1. TypeOK'
  BY DEF TypeOK, Snapshots, Phases, Revision
<1>2. TargetDesired'
  BY DEF TargetDesired, Desired, Revision
<1>3. AcceptanceDesired'
  BY DEF AcceptanceDesired, Desired, Revision
<1>4. FamilyStands'
  BY DEF FamilyStands, Desired, Revision
<1>5. ActivationsAccounted'
  BY DEF ActivationsAccounted
<1> QED BY <1>1, <1>2, <1>3, <1>4, <1>5

\* The first process begins in the invariant.
LEMMA ReconciliationStart ==
  ASSUME Init
  PROVE  ReconciliationInv
<1> USE ReconciliationAssumption DEF Init
<1>1. history \in Seq(Graph) /\ Len(history) = 1 /\ history[1] = InitialGraph
  OBVIOUS
<1>2. Nothing \in Snapshots /\ Nothing.revision = 0
  BY DEF Nothing, Snapshots
<1>3. TypeOK
  <2>1. /\ Revision = 1 /\ acceptance \in Snapshots /\ acceptance.revision <= Revision
        /\ catalog \in Snapshots
    BY <1>1, <1>2 DEF Revision
  <2>2. target \in [revision : 0..Revision, graph : Graph, recovery : BOOLEAN]
    BY <2>1 DEF Snapshot, Nothing
  <2>3. family \in [revision : 0..Revision, graph : Graph, activation : 0..Revision]
    BY <2>1 DEF NoFamily
  <2>4. queue \in Seq(0..Revision)
    OBVIOUS
  <2>5. lowered \in BOOLEAN /\ written \in BOOLEAN /\ disposing \in BOOLEAN
    OBVIOUS
  <2>6. phase \in Phases
    BY DEF Phases
  <2>7. /\ history \in Seq(Graph) /\ Revision \in 1..MaxRevision
        /\ failureLog \subseteq 1..Revision /\ failures = failureLog
        /\ notifying \subseteq operations /\ operations \subseteq 1..Revision
    BY <1>1, <2>1
  <2>8. /\ watch \in 1..Revision /\ sent \in 0..Revision /\ runtime \in 0..acceptance.revision
        /\ routes \in 0..Revision /\ settled \in 0..Revision /\ previous \in 0..Revision
        /\ event \in 0..Revision /\ faults \in 0..MaxTroubles /\ restarts \in 0..MaxTroubles
        /\ live \subseteq 1..Revision /\ reports \subseteq 1..Revision
    BY <1>2, <2>1
  <2> QED BY <2>1, <2>2, <2>3, <2>4, <2>5, <2>6, <2>7, <2>8 DEF TypeOK
<1>4. TargetDesired /\ AcceptanceDesired
  BY DEF TargetDesired, AcceptanceDesired
<1>5. FamilyStands /\ ActivationsAccounted
  BY DEF FamilyStands, ActivationsAccounted, NoFamily
<1> QED BY <1>3, <1>4, <1>5 DEF ReconciliationInv

\* The invariant is one of the specification, for any graphs, builds and revisions.
THEOREM ReconciliationInvariant == Spec => []ReconciliationInv
<1>1. Init => ReconciliationInv
  BY ReconciliationStart
<1>2. ReconciliationInv /\ [Next]_vars => ReconciliationInv'
  <2> SUFFICES ASSUME ReconciliationInv, [Next]_vars PROVE ReconciliationInv'
    OBVIOUS
  <2>1. ASSUME NEW g \in Graph, Transition(g) \/ CommitExternally(g) PROVE ReconciliationInv'
    BY <2>1, TransitionStep, CommitExternallyStep
  <2>2. CASE Notifications
    BY <2>2, NotifyStep, FileEventStep, SendFrameStep DEF Notifications
  <2>3. CASE Boot \/ StartCall \/ Begin \/ Reading \/ Dispose
    BY <2>3, BootStep, StartCallStep, BeginStep, ReadRevisionStep, ReadDesiredStep, DisposeStep
    DEF Reading
  <2>4. CASE Reconciling
    BY <2>4, SkipStep, RetainStep, PrepareStep, RefuseStep, SwitchStep, InstallStep, RetireStep
    DEF Reconciling
  <2>5. CASE Reporting
    BY <2>5, RecordAcceptanceStep, SetRuntimeStep, ReportRejectedStep DEF Reporting
  <2>6. CASE Reports
    BY <2>6, ReportObservationStep, DropReportStep DEF Reports
  <2>7. CASE Faults \/ RequestDispose \/ Restart
    BY <2>7, ReadFailsStep, ReportFailsStep, RequestDisposeStep, RestartStep DEF Faults
  <2>8. CASE UNCHANGED vars
    BY <2>8, ReconciliationStutter
  <2> QED BY <2>1, <2>2, <2>3, <2>4, <2>5, <2>6, <2>7, <2>8 DEF Next, Calls
<1> QED BY <1>1, <1>2, PTL DEF Spec

-----------------------------------------------------------------------------
(***************************************************************************)
(* What a reader should know.                                              *)
(***************************************************************************)

\* Every variable has its type, in every process that reads the registry.
THEOREM ReconciliationTypeCorrect == Spec => []TypeOK
BY ReconciliationInvariant, PTL DEF ReconciliationInv

\* What is public is served by an active family and has the routes, and between calls
\* nothing else is active, whatever was prepared, refused, replaced or recovered before.
THEOREM ServesAndNothingElse == Spec => []ServedAndNothingElse
<1>1. ReconciliationInv => ServedAndNothingElse
  <2> SUFFICES ASSUME ReconciliationInv PROVE ServedAndNothingElse
    OBVIOUS
  <2> USE DEF ReconciliationInv
  <2>1. ServedIsLive
    <3>1. family # NoFamily => family.activation \in live
      <4> SUFFICES ASSUME family # NoFamily PROVE family.activation \in live
        OBVIOUS
      <4>1. family.activation # 0
        BY DEF FamilyStands
      <4> QED BY <4>1 DEF ActivationsAccounted
    <3>2. routes # 0 => routes \in live
      BY DEF ActivationsAccounted
    <3> QED BY <3>1, <3>2 DEF ServedIsLive
  <2>2. NoOrphans
    BY DEF NoOrphans, ActivationsAccounted
  <2> QED BY <2>1, <2>2 DEF ServedAndNothingElse
<1> QED BY <1>1, ReconciliationInvariant, PTL

\* What is public shows a graph that its revision or a later one desired, and an operation
\* that is said to have succeeded is public.
THEOREM ShowsAndReports == Spec => []ShownAndReported
<1>1. ReconciliationInv => ShownAndReported
  <2> SUFFICES ASSUME ReconciliationInv PROVE ShownAndReported
    OBVIOUS
  <2> USE DEF ReconciliationInv
  <2>1. PublicWasDesired
    BY DEF PublicWasDesired, FamilyStands, Desired
  <2>2. SuccessIsPublic
    <3> SUFFICES ASSUME phase # "gone", NEW r \in operations, Status(r) = "succeeded"
                 PROVE  r <= family.revision
      BY DEF SuccessIsPublic
    <3>1. runtime >= r
      BY DEF Status
    <3>2. r \in Nat /\ runtime \in Nat /\ family.revision \in Nat
      BY DEF TypeOK, Snapshots
    <3> QED BY <3>1, <3>2 DEF FamilyStands
  <2> QED BY <2>1, <2>2 DEF ShownAndReported
<1> QED BY <1>1, ReconciliationInvariant, PTL

=============================================================================
