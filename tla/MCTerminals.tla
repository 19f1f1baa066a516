------------------------------ MODULE MCTerminals ------------------------------
(***************************************************************************)
(* The models of terminals and of the endpoint that serves them to command  *)
(* lines, one at a time: the lifecycle on the host, the projection in the   *)
(* webview, the screen of a view, the control server, and the directory of  *)
(* instances.  "part" says which one a behaviour is about; the others rest. *)
(***************************************************************************)
EXTENDS TerminalHost, ControlServer, InstanceDirectory

CONSTANTS
  MaxRevision, MaxLists, MaxAttach, MaxOutput

VARIABLES
  part,
  born, listed, shown, told, outbox, announced, leaving,
  subscribed, channel, replies, confirmed, list, seen, removals, gone,
  native, subscriber, authority, leases, events, calls, refused, att, view, screen, exitSeen

projectionVars == << born, listed, shown, told, outbox, announced, leaving,
                     subscribed, channel, replies, confirmed, list, seen, removals, gone >>
screenVars == << native, subscriber, authority, leases, events, calls, refused, att, view, screen,
                 exitSeen >>

Projection == INSTANCE TerminalProjection WITH records <- listed
Screen == INSTANCE TerminalScreen WITH sub <- subscriber, wire <- events, shown <- screen

\* Bounds are numbers, and None is nothing that is published.
ASSUME TerminalsAssumption ==
  /\ MaxRevision \in Nat /\ MaxLists \in Nat /\ MaxAttach \in Nat /\ MaxOutput \in Nat
  /\ None \notin Projection!Descriptors
  /\ None \notin [what : Projection!Descriptors, checked : BOOLEAN]

\* Every process has the same name and a state root of its own.
NameShared == [p \in Process |-> CHOOSE n \in Name : TRUE]
RootOwn == [p \in Process |-> p]

PartInit ==
  /\ part \in {"host", "projection", "screen", "server", "directory"}
  /\ Init /\ Projection!Init /\ Screen!Init /\ ServerInit /\ DirectoryInit
  /\ part # "directory" => foreign = {}

\* One event and one answer are on their way to the webview at a time, and one list is
\* being read; the lists that it reads still arrive in any order.
WiresBound ==
  /\ Cardinality(replies') <= 1 /\ Len(channel') <= 1
  /\ list'[2].pc = "asked" => list'[1].pc # "asked"

\* One connection attaches to a terminal and another asks the server to stop.
KindsDiffer ==
  \A c, d \in Connection : c # d /\ kind'[c] = kind'[d] => kind'[c] = "none"

PartNext ==
  /\ UNCHANGED part
  /\ \/ /\ part = "host" /\ Next
        /\ UNCHANGED << projectionVars, screenVars, serverVars, directoryVars >>
     \/ /\ part = "projection" /\ Projection!Next /\ WiresBound
        /\ UNCHANGED << vars, screenVars, serverVars, directoryVars >>
     \/ /\ part = "screen" /\ Screen!Next
        /\ UNCHANGED << vars, projectionVars, serverVars, directoryVars >>
     \/ /\ part = "server" /\ ServerNext /\ KindsDiffer
        /\ UNCHANGED << vars, projectionVars, screenVars, directoryVars >>
     \/ /\ part = "directory" /\ DirectoryNext
        /\ UNCHANGED << vars, projectionVars, screenVars, serverVars >>

PartVars ==
  << part, vars, projectionVars, screenVars, serverVars, directoryVars >>

\* The fairness of the part that is alive.  In TerminalHost, TerminalScreen and
\* ControlServer each thread is fair on its own; no thread runs for ever, so here it is
\* enough that they do not all rest while one of them can run.
HostRuns ==
  \E t \in Terminal :
    \/ Serving(t) \/ (child[t] = "told" /\ ChildEnds(t))
    \/ \E c \in Closer : Closing(c, t)
ScreenRuns == Screen!Serving \/ Screen!Reacting \/ Screen!Start
ServerRuns ==
  Accepting \/ \E c \in Connection : Working(c) \/ Delivering(c) \/ Polite(c)

PartSpec ==
  /\ PartInit /\ [][PartNext]_PartVars
  /\ WF_vars(part = "host" /\ HostRuns)
  /\ WF_screenVars(part = "screen" /\ ScreenRuns)
  /\ WF_serverVars(part = "server" /\ ServerRuns)

\* Every variable of the host, the projection and the endpoint keeps its type
\* (service.rs:31-60, terminalClientRuntime.ts:115-128, control.rs:322-355).
TypesOK == TypeOK /\ Projection!TypeOK /\ ServerTypeOK /\ DirectoryTypeOK

\* No registered terminal is missed, and no list regresses (see TerminalProjection).
ListsAreTrue == []Projection!NothingMissed /\ Projection!ListsNeverRegress

\* The variables of the screen keep their types, and the actor and the adapter count the
\* same credit (see TerminalScreen).
ProtocolHolds == Screen!TypeOK /\ Screen!ProtocolHolds

\* A view that went leaves nothing behind (see TerminalScreen).
NothingLeft == Screen!NothingLeft

\* Every stream is whole, and a connection that ended leaves nothing behind (see
\* ControlServer).
StreamsEnd == StreamsAreWhole /\ NothingOfStreamsLeft

\* A view that stays shows the last screen (see TerminalScreen).
ScreenCatchesUp == Screen!ScreenCatchesUp

\* Closing callers are answered (see TerminalHost), screens catch up and the control
\* server ends (see ControlServer).
TerminalsSettle == ClosesEnd /\ ScreenCatchesUp /\ ServerSettles
=============================================================================
