-------------------------- MODULE AcceptedFamilies --------------------------
(***************************************************************************)
(* What an accepted family brings to the host and to the webview: its      *)
(* schedules (ScheduleAcceptance) and the catalog of its views             *)
(* (Workspace), side by side.  They share no variable, and each may rest   *)
(* while the other goes on.                                                *)
(***************************************************************************)
EXTENDS ScheduleAcceptance, Workspace

\* The steps of both models; fairness is left to those who ask what must happen.
FamiliesSpec ==
  Init /\ WorkspaceInit /\ [][Next]_vars /\ [][WorkspaceNext]_workspaceVars

\* Every variable of the acceptance of schedules and of a workspace keeps its type
\* (scheduler/runtime.rs:250-285, authority.ts:75-80).
TypesOK == TypeOK /\ WorkspaceTypeOK
=============================================================================
