------------------------ MODULE MCScheduleAcceptance ------------------------
(***************************************************************************)
(* What an accepted family brings, in three models, one at a time: its     *)
(* schedules, the catalog of its views for the workspace, and the document *)
(* of a workspace under such catalogs.  "part" says which one a behaviour  *)
(* is about, and how it is bounded; the others rest.                       *)
(*                                                                         *)
(* There are two sources and one declared definition; source f2 has the    *)
(* identity of the declared definition, so that the two exclude each other. *)
(***************************************************************************)
EXTENDS AcceptedFamilies, TLC

CONSTANTS
  f1, f2, declared, daily, hourly, channel, topic,
  Instance, View, HowMany, ClosesBy, Openings, Catalog, FloatId, GivenStack, GivenNames,
  i1, i2, i3

VARIABLES
  part,
  instances, root, floating, maximized, views

layoutVars == << instances, root, floating, maximized, views >>

Doc == INSTANCE WorkspaceDocument

\* The document when callers leave the naming of splits to the authority.
PlainDoc == INSTANCE WorkspaceDocument WITH GivenNames <- {}

MCIdOf == (f1 :> daily) @@ (f2 :> hourly) @@ (declared :> hourly)
MCTargetOf == (f1 :> channel) @@ (f2 :> channel) @@ (declared :> topic)

\* Two views: one of which the workspace has one instance, that is disposed of when it is
\* closed, and one of which it has one for each resource, that is hidden.
HowManyOf == [v \in View |-> IF v = "one" THEN "singleton" ELSE "one-per-resource"]
ClosesByOf == [v \in View |-> IF v = "one" THEN "dispose" ELSE "hide"]

\* Callers give one identity to instances of two views, and two identities to one view.
OpeningsOf ==
  {<< i1, "one", "x" >>, << i2, "one", "x" >>, << i2, "each", "x" >>, << i3, "each", "x" >>,
   << i3, "each", "y" >>}
CatalogOf == {{"one", "each"}, {"each"}}

\* Callers give identities that the authority would allocate.
StackGiven == {<< "split", 1 >>, << "stack", 1 >>}
NamesGiven == {<< << "split", 2 >>, << "stack", 1 >> >>}

-----------------------------------------------------------------------------
PartInit ==
  /\ part \in {"schedules", "calls", "reloads", "tiled", "mixed", "floating"}
  /\ Init /\ WorkspaceInit /\ Doc!Init
  /\ part \notin {"calls", "reloads"} => published = << >>
  /\ part # "schedules" => ~retained

\* The bridge publishes no route, that of the channel or both; a reconciliation any.
SchedulingBound == busHolder' = "bridge" => tables'[Len(tables')] # {topic}

\* Calls side by side in one activation whose storage works, or activations whose
\* storage may fail.  Only what users, callers and the host begin is bounded.
WorkspaceBound ==
  /\ part = "calls" =>
       reloads' = 0 /\ faults' = 0 /\ \A k \in DOMAIN canvas' : canvas'[k] = "a1"
  /\ part = "reloads" => step'["s1"] = "idle" /\ read'["s1"] = 0 /\ submits' < 2

\* No other instance made the first stack of the tree, and no more than three suffixes
\* were ever in use.
GrewFromFirst ==
  \A k \in DOMAIN Doc!NodeIds(root) : Doc!NodeIds(root)[k] \notin
    {<< "default", i2 >>, << "default", i3 >>, << "split", 4 >>, << "stack", 4 >>}

\* Three instances in any tree that grew from the stack of the first and whose splits the
\* authority names, or floating beside one stack; two in any layout.
LayoutBounds ==
  /\ part = "tiled" =>
       /\ floating' = << >> /\ maximized' = Doc!NoStack
       /\ GrewFromFirst'
       /\ i2 \in DOMAIN instances' => instances'[i2].view = "each"
       /\ i3 \in DOMAIN instances' => instances'[i3].resource = "y"
  /\ part = "mixed" => root'.kind # "split"
  /\ part = "floating" => i3 \notin DOMAIN instances'
  /\ part # "floating" => views' # {"each"}

Scheduling == part = "schedules"
Editing == part \in {"calls", "reloads"}

PartNext ==
  /\ UNCHANGED part
  /\ \/ Scheduling /\ Next /\ SchedulingBound /\ UNCHANGED << workspaceVars, layoutVars >>
     \/ Editing /\ WorkspaceNext /\ WorkspaceBound /\ UNCHANGED << vars, layoutVars >>
     \/ /\ \/ part = "tiled" /\ PlainDoc!Next
           \/ part \in {"mixed", "floating"} /\ Doc!Next
        /\ LayoutBounds
        /\ UNCHANGED << vars, workspaceVars >>

\* The fairness of the part that is alive (see ScheduleAcceptance and Workspace).
PartSpec ==
  /\ PartInit /\ [][PartNext]_<< part, vars, workspaceVars, layoutVars >>
  /\ WF_vars(Scheduling /\ AnnounceRoutes)
  /\ SF_vars(Scheduling /\ (Preflight \/ PreflightRejects))
  /\ WF_vars(Scheduling /\ (ReconcileAnnounces \/ CommitCandidate \/ PublishSnapshot))
  /\ WF_vars(Scheduling /\ RoutesReady)
  /\ SF_vars(Scheduling /\ BeginInitial)
  /\ WF_workspaceVars(Editing /\ HostServes) /\ WF_workspaceVars(Editing /\ Opens)
  /\ WF_workspaceVars(Editing /\ (Execute \/ Follow)) /\ WF_workspaceVars(Editing /\ Reconcile)
  /\ \A call \in Commits : WF_workspaceVars(Editing /\ Answered(call))

\* Every command leaves a whole layout, of the types of a document, in which all that it
\* does not name stays where it was (see WorkspaceDocument; document.ts:138-176).
LayoutsStayWhole == [](Doc!TypeOK /\ Doc!Whole /\ Doc!CardinalityHolds) /\ Doc!OthersStay

\* Every operation and every call ends, and the startup candidate is applied or superseded
\* (see ScheduleAcceptance and Workspace).
AcceptancesSettle == (Scheduling => AcceptanceSettles) /\ CallsEnd
=============================================================================
