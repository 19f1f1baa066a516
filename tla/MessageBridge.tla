---------------------------- MODULE MessageBridge ----------------------------
(***************************************************************************)
(* Messages to modules in the webview: the workers of the bus hand them to *)
(* the native bridge (core/tauri/src/message_bridge.rs), which sends frames*)
(* to the frontend bridge (core/frontend/host/messageBusBridge.ts) and, for*)
(* a request, keeps a pending reply until the frontend answers.            *)
(*                                                                         *)
(* The frontend dispatches one frame at a time.  It replaces its family of *)
(* activations by a reconciliation, after the native side published the    *)
(* routes of the next family, and finally disposes its activations and     *)
(* closes the bridge; the supervisor never runs two of these at once.  An  *)
(* activation is a module in the family of one route generation.           *)
(***************************************************************************)
EXTENDS Naturals, Sequences, FiniteSets

CONSTANTS
  Module, Call, Correlation, None,
  Requests,       \* the calls that are port requests; the others are sends
  Target,         \* [Call -> Module]
  Identity,       \* [Call -> Correlation]
  Within,         \* [Call -> Call \cup {None}]: the call whose handler makes it
  MaxFamilies     \* model bound on published families

Family == 1..MaxFamilies

VARIABLES
  family,     \* the generation of the published routes; 0 before the first
  bridge,     \* native: open, removed from the map, shut, withdrawn
  queue,      \* [Module \X Family -> Seq(Call)]
  worker,     \* the request that the worker of a port waits for
  pending,    \* pending_replies: the call whose sender is stored
  frames,     \* frames that the frontend has not dispatched
  caller,     \* of a call: idle, waiting, done, answered, failed, abandoned
  work,       \* of a call: none, queued, framed, handled, rejected, lost
  generation, \* the family a call was routed to
  answeredBy, \* history: the call whose frame produced the answer
  handledBy,  \* history: the family whose handler ran
  late,       \* history: requests that became pending after the shutdown
  client,     \* the frontend: idle, draining, native, committed, disposed,
              \* closing, gone
  drain,      \* dispatches the frontend waits for
  known,      \* the family in #byActivation, whether or not it is disposed
  minimum,    \* #minimumRouteGeneration
  current     \* the frame being dispatched

busVars == << family, queue, worker >>
nativeVars == << bridge, pending, late >>
callVars == << caller, work, generation, answeredBy, handledBy >>
clientVars == << client, drain, known, minimum >>
vars == << busVars, nativeVars, callVars, frames, clientVars, current >>

NoFrame == [call |-> None, phase |-> "none", family |-> 0]
Routed == family > 0 /\ bridge # "withdrawn"
Cancelled(g) == g < family \/ bridge = "withdrawn"
Closed == client \in {"closing", "gone"}
Disposed == client \in {"disposed", "closing", "gone"}

-----------------------------------------------------------------------------
(***************************************************************************)
(* The bus and the native bridge.                                          *)
(***************************************************************************)

\* A call is routed by the published table; one that a handler makes runs
\* while the handler does.
Start(c) ==
  /\ caller[c] = "idle"
  /\ Within[c] # None => current.call = Within[c] /\ current.phase = "handle"
  /\ IF Routed
       THEN /\ caller' = [caller EXCEPT ![c] = IF c \in Requests THEN "waiting" ELSE "done"]
            /\ work' = [work EXCEPT ![c] = "queued"]
            /\ generation' = [generation EXCEPT ![c] = family]
            /\ queue' = [queue EXCEPT ![<< Target[c], family >>] = Append(@, c)]
       ELSE caller' = [caller EXCEPT ![c] = "failed"] /\ UNCHANGED << work, generation, queue >>
  /\ UNCHANGED << family, worker, nativeVars, answeredBy, handledBy, frames, clientVars, current >>

Abandon(c) ==
  /\ caller[c] = "waiting" /\ Within[c] = None
  /\ caller' = [caller EXCEPT ![c] = "abandoned"]
  /\ UNCHANGED << busVars, nativeVars, work, generation, answeredBy, handledBy, frames,
                  clientVars, current >>

\* Mutant: a refused request takes its sender with it.
LeftByNone(c) == None

\* What a refused request leaves in pending_replies: its own, unheard sender.
LeftBy(c) == c

\* A worker takes its next message.  A second request with a pending identity
\* is refused, and its sender replaces the pending one, whose caller fails; a
\* request whose caller is gone may not reach the bridge.
Take(r) ==
  /\ worker[r] = None /\ queue[r] # << >>
  /\ LET c == Head(queue[r])
         x == Identity[c]
     IN
     /\ queue' = [queue EXCEPT ![r] = Tail(@)]
     /\ \/ /\ c \notin Requests
           /\ frames' = Append(frames, c) /\ work' = [work EXCEPT ![c] = "framed"]
           /\ UNCHANGED << worker, pending, late, caller >>
        \/ /\ c \in Requests /\ pending[x] = None
           /\ pending' = [pending EXCEPT ![x] = c]
           /\ worker' = [worker EXCEPT ![r] = c]
           /\ frames' = Append(frames, c) /\ work' = [work EXCEPT ![c] = "framed"]
           /\ late' = IF bridge \in {"shut", "withdrawn"} THEN late \cup {c} ELSE late
           /\ UNCHANGED caller
        \/ /\ c \in Requests /\ pending[x] # None
           /\ pending' = [pending EXCEPT ![x] = LeftBy(c)]
           /\ caller' = [d \in Call |-> IF d \in {c, pending[x]} /\ caller[d] = "waiting"
                                        THEN "failed" ELSE caller[d]]
           /\ worker' = [s \in DOMAIN worker |-> IF worker[s] = pending[x] THEN None
                                                 ELSE worker[s]]
           /\ work' = [work EXCEPT ![c] = "lost"]
           /\ UNCHANGED << late, frames >>
        \/ /\ caller[c] = "abandoned"
           /\ work' = [work EXCEPT ![c] = "lost"]
           /\ UNCHANGED << worker, pending, late, caller, frames >>
  /\ UNCHANGED << family, bridge, generation, answeredBy, handledBy, clientVars, current >>

\* A worker whose caller is gone drops the request, not the pending reply.
FreeWorker(r) ==
  /\ worker[r] # None /\ caller[worker[r]] = "abandoned"
  /\ worker' = [worker EXCEPT ![r] = None]
  /\ UNCHANGED << family, queue, nativeVars, callVars, frames, clientVars, current >>

\* A withdrawn registration drops what is still queued.
StopWorker(r) ==
  /\ Cancelled(r[2]) /\ worker[r] = None /\ queue[r] # << >>
  /\ LET dropped == {queue[r][i] : i \in DOMAIN queue[r]} IN
       /\ work' = [c \in Call |-> IF c \in dropped THEN "lost" ELSE work[c]]
       /\ caller' = [c \in Call |-> IF c \in dropped /\ caller[c] = "waiting" THEN "failed"
                                     ELSE caller[c]]
  /\ queue' = [queue EXCEPT ![r] = << >>]
  /\ UNCHANGED << family, worker, nativeVars, generation, answeredBy, handledBy, frames,
                  clientVars, current >>

\* complete_reply: an answer under the identity of a frame goes to the pending
\* request of that identity, while the bridge is in the map.
Reply(c) ==
  LET x == Identity[c]
      t == pending[x]
      heard == bridge = "open" /\ t # None /\ caller[t] = "waiting"
  IN
  /\ pending' = IF bridge = "open" THEN [pending EXCEPT ![x] = None] ELSE pending
  /\ caller' = IF heard THEN [caller EXCEPT ![t] = "answered"] ELSE caller
  /\ answeredBy' = IF heard THEN [answeredBy EXCEPT ![t] = c] ELSE answeredBy
  /\ worker' = [r \in DOMAIN worker |-> IF heard /\ worker[r] = t THEN None ELSE worker[r]]

\* Mutant: the close drops the bridge and fails none of its requests.
ShutdownFailsNone ==
  /\ bridge = "removed"
  /\ bridge' = "shut"
  /\ UNCHANGED << busVars, pending, late, callVars, frames, clientVars, current >>

\* Closing: the bridge leaves the map, pending requests fail, and after the
\* schedules were released the routes are withdrawn.
Shutdown ==
  /\ bridge = "removed"
  /\ bridge' = "shut"
  /\ LET failed == {pending[x] : x \in Correlation} \ {None} IN
       /\ caller' = [c \in Call |-> IF c \in failed /\ caller[c] = "waiting" THEN "failed"
                                     ELSE caller[c]]
       /\ worker' = [r \in DOMAIN worker |-> IF worker[r] \in failed THEN None ELSE worker[r]]
  /\ pending' = [x \in Correlation |-> None]
  /\ UNCHANGED << family, queue, late, work, generation, answeredBy, handledBy, frames,
                  clientVars, current >>

Withdraw ==
  /\ bridge = "shut"
  /\ bridge' = "withdrawn"
  /\ UNCHANGED << busVars, pending, late, callVars, frames, clientVars, current >>

-----------------------------------------------------------------------------
(***************************************************************************)
(* Dispatch in the frontend.                                               *)
(***************************************************************************)

\* Mutant: a dispatch that ended is still waited for.
WaitedStill(n) == n

\* A dispatch ended; one that was chained later is not waited for.
Waited(n) == IF n > 0 THEN n - 1 ELSE 0

\* Mutant: handlers are found by module, not by activation.
AcceptsModule(c) ==
  /\ ~Closed /\ known > 0 /\ generation[c] >= minimum
  /\ ~Disposed

\* A frame is for a known activation of the family it was routed to.
Accepts(c) ==
  /\ ~Closed /\ known > 0 /\ generation[c] >= minimum
  /\ generation[c] = known /\ ~Disposed

\* The next frame; a refused one ends at once unless it wants an answer.
Dispatch ==
  /\ current = NoFrame /\ frames # << >>
  /\ frames' = Tail(frames)
  /\ LET c == Head(frames) IN
     IF Accepts(c)
       THEN /\ current' = [call |-> c, phase |-> "observe", family |-> known]
            /\ UNCHANGED << work, drain >>
       ELSE /\ work' = [work EXCEPT ![c] = "rejected"]
            /\ IF c \in Requests /\ client # "gone"
                 THEN current' = [call |-> c, phase |-> "reply", family |-> known] /\ UNCHANGED drain
                 ELSE drain' = Waited(drain) /\ UNCHANGED current
  /\ UNCHANGED << busVars, nativeVars, caller, generation, answeredBy, handledBy, client, known,
                  minimum >>

\* The observer of frames is awaited first; then the handlers of the activation
\* that was found run.
Handle ==
  /\ current.phase = "observe"
  /\ current' = [current EXCEPT !.phase = "handle"]
  /\ handledBy' = [handledBy EXCEPT ![current.call] = current.family]
  /\ work' = [work EXCEPT ![current.call] = "handled"]
  /\ UNCHANGED << busVars, nativeVars, caller, generation, answeredBy, frames, clientVars >>

\* A handler ends, or throws, when no request that it made is waiting.
HandlerEnds ==
  /\ current.phase = "handle"
  /\ \A c \in Call : Within[c] = current.call => caller[c] # "waiting"
  /\ IF current.call \in Requests
       THEN current' = [current EXCEPT !.phase = "reply"] /\ UNCHANGED drain
       ELSE current' = NoFrame /\ drain' = Waited(drain)
  /\ UNCHANGED << busVars, nativeVars, callVars, frames, client, known, minimum >>

SendReply ==
  /\ current.phase = "reply"
  /\ Reply(current.call)
  /\ current' = NoFrame /\ drain' = Waited(drain)
  /\ UNCHANGED << family, queue, bridge, late, work, generation, handledBy, frames, client, known,
                  minimum >>

-----------------------------------------------------------------------------
(***************************************************************************)
(* The supervisor's reconciliations and its disposal.                      *)
(***************************************************************************)

\* The dispatches that are chained at this moment; frames may still be on
\* their way to the webview.
Chained == LET one == IF current = NoFrame THEN 0 ELSE 1 IN one..(one + Len(frames))

Reconcile ==
  /\ client = "idle" /\ family < MaxFamilies
  /\ client' = "draining" /\ drain' \in Chained
  /\ UNCHANGED << busVars, nativeVars, callVars, frames, known, minimum, current >>

ReconcileNative ==
  /\ client = "draining" /\ drain = 0
  /\ client' = "native"
  /\ UNCHANGED << busVars, nativeVars, callVars, frames, drain, known, minimum, current >>

\* The native side publishes the next family or rejects it.
Publish ==
  /\ client = "native"
  /\ family' = family + 1
  /\ client' = "committed"
  /\ UNCHANGED << queue, worker, nativeVars, callVars, frames, drain, known, minimum, current >>

Rejected ==
  /\ client = "native"
  /\ client' = "idle"
  /\ UNCHANGED << busVars, nativeVars, callVars, frames, drain, known, minimum, current >>

\* Mutant: the minimum generation stays.
InstallMapFirst ==
  /\ client = "committed"
  /\ client' = "idle" /\ known' = family
  /\ UNCHANGED << minimum, busVars, nativeVars, callVars, frames, drain, current >>

\* The receipt arrives.
Install ==
  /\ client = "committed"
  /\ client' = "idle" /\ known' = family /\ minimum' = family
  /\ UNCHANGED << busVars, nativeVars, callVars, frames, drain, current >>

\* The accepted activations are disposed, then the bridge is closed.
Dispose ==
  /\ client = "idle"
  /\ client' = "disposed"
  /\ UNCHANGED << busVars, nativeVars, callVars, frames, drain, known, minimum, current >>

Close ==
  /\ client = "disposed"
  /\ client' = "closing" /\ drain' \in Chained
  /\ UNCHANGED << busVars, nativeVars, callVars, frames, known, minimum, current >>

CloseNative ==
  /\ client = "closing" /\ drain = 0
  /\ client' = "gone" /\ bridge' = "removed"
  /\ UNCHANGED << busVars, pending, late, callVars, frames, drain, known, minimum, current >>

-----------------------------------------------------------------------------
Init ==
  /\ family = 0 /\ bridge = "open"
  /\ queue = [r \in Module \X Family |-> << >>] /\ worker = [r \in Module \X Family |-> None]
  /\ pending = [x \in Correlation |-> None] /\ late = {}
  /\ frames = << >> /\ current = NoFrame
  /\ caller = [c \in Call |-> "idle"] /\ work = [c \in Call |-> "none"]
  /\ generation = [c \in Call |-> 0] /\ handledBy = [c \in Call |-> 0]
  /\ answeredBy = [c \in Call |-> None]
  /\ client = "idle" /\ drain = 0 /\ known = 0 /\ minimum = 0

Native == Shutdown \/ Withdraw
            \/ \E r \in Module \X Family : Take(r) \/ FreeWorker(r) \/ StopWorker(r)
Frontend == Dispatch \/ Handle \/ HandlerEnds \/ SendReply
Reconciling == ReconcileNative \/ Publish \/ Rejected \/ Install \/ CloseNative

Next == \/ \E c \in Call : Start(c) \/ Abandon(c)
        \/ Native \/ Frontend \/ Reconciling
        \/ Reconcile \/ Dispose \/ Close

Spec == Init /\ [][Next]_vars

\* The runtimes run what can run; nobody has to call, reconcile or close.
FairSpec ==
  /\ Spec
  /\ \A r \in Module \X Family : WF_vars(Take(r)) /\ WF_vars(FreeWorker(r)) /\ WF_vars(StopWorker(r))
  /\ WF_vars(Shutdown) /\ WF_vars(Withdraw)
  /\ WF_vars(Frontend) /\ WF_vars(Reconciling)

-----------------------------------------------------------------------------
(***************************************************************************)
(* Properties.                                                             *)
(***************************************************************************)

TypeOK ==
  /\ family \in 0..MaxFamilies /\ bridge \in {"open", "removed", "shut", "withdrawn"}
  /\ queue \in [Module \X Family -> Seq(Call)]
  /\ worker \in [Module \X Family -> Requests \cup {None}]
  /\ pending \in [Correlation -> Requests \cup {None}] /\ late \in SUBSET Requests
  /\ frames \in Seq(Call)
  /\ caller \in [Call -> {"idle", "waiting", "done", "answered", "failed", "abandoned"}]
  /\ work \in [Call -> {"none", "queued", "framed", "handled", "rejected", "lost"}]
  /\ generation \in [Call -> 0..family] /\ handledBy \in [Call -> 0..family]
  /\ answeredBy \in [Call -> Requests \cup {None}]
  /\ client \in {"idle", "draining", "native", "committed", "disposed", "closing", "gone"}
  /\ drain \in 0..(Len(frames) + 1)
  /\ known \in 0..family /\ minimum = known
  /\ current \in [call : Call \cup {None}, phase : {"none", "observe", "handle", "reply"},
                 family : 0..family]

\* A request is answered by its own frame, although identities repeat, refused
\* and abandoned requests leave entries behind and answers come late.
AnsweredByOwnFrame == \A c \in Call : caller[c] = "answered" => answeredBy[c] = c

\* A message is handled by the family that it was routed to, whatever is
\* published and installed while its frame is under way.
HandledByRouted == \A c \in Call : handledBy[c] # 0 => handledBy[c] = generation[c]

\* A handler waits for a request to a module of its own webview.  Frames are
\* dispatched one at a time, so the one of that request comes after the handler
\* unless it is abandoned or refused.
Nested ==
  current.phase = "handle" /\ \E c \in Call : Within[c] = current.call /\ caller[c] = "waiting"

\* Every waiting request ends: answered, refused, dropped or failed by the
\* close of the bridge, unless some request became pending too late for it, or
\* a handler waits for its own webview.
RequestsEnd ==
  (\E c \in Call : caller[c] = "waiting")
    ~> (\A c \in Call : caller[c] # "waiting") \/ late # {} \/ Nested

\* A close that was begun ends, unless a handler waits for its own webview.
CloseEnds == client = "closing" ~> bridge = "withdrawn" \/ Nested
=============================================================================
