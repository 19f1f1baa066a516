----------------------------- MODULE ControlServer -----------------------------
(***************************************************************************)
(* The endpoint of one process (src/core/backend/src/instance/control.rs).  *)
(*                                                                          *)
(* A thread accepts connections and gives each a worker.  A worker reads    *)
(* one request and answers it.  An attachment to a terminal keeps its       *)
(* connection: events are written by the terminal's own thread (the sink)   *)
(* while the worker waits on a condition variable for the end of the        *)
(* stream.  A stop that is accepted, or the drop of the server, sets a flag *)
(* and notifies; the accepting thread then joins every worker before it     *)
(* lets the process shut down.                                              *)
(***************************************************************************)
EXTENDS Naturals, Sequences

CONSTANTS
  Connection,
  Rude,       \* clients that may send nothing or too much, or stop reading
  MaxEvents   \* events of one terminal

ASSUME ServerAssumption == MaxEvents \in Nat

VARIABLES
  loop,       \* the accepting thread
  stopped,    \* ServerSignal.stopped
  stopping,   \* the lifecycle that hello reports
  descriptor, \* the descriptor is on disk
  committed,  \* a stop was accepted and answered
  dropped,    \* ControlServer is being dropped
  woken,      \* a connection made only to wake the accepting thread
  backlog,    \* connections not accepted yet
  client, kind,   \* per connection: its client, and the request it sent
  worker,     \* per connection: its worker
  writer,     \* per attachment: who holds the lock of the stream
  sub,        \* per attachment: the subscription at the terminal
  sink,       \* per attachment: the terminal's thread in the sink
  closed, finished,  \* per attachment: the flags closed and done
  observed,   \* per attachment: its observer has seen the peer leave
  count,      \* per attachment: control_sequence
  wire        \* per connection: the frames written

clientVars == << client, kind >>
signalVars == << loop, stopped, committed, dropped, woken, backlog >>
lifeVars == << stopping, descriptor >>
endpointVars == << clientVars, signalVars, lifeVars >>
streamVars == << writer, sub, sink, closed, finished, observed, count >>
serverVars == << endpointVars, worker, streamVars, wire >>

Response == << "response", 0 >>
Event(n) == << "event", n >>
Completion(n) == << "completion", n >>

ServerInit ==
  /\ loop = "checking" /\ stopped = FALSE /\ stopping = FALSE /\ descriptor = TRUE
  /\ committed = FALSE /\ dropped = FALSE /\ woken = FALSE /\ backlog = {}
  /\ client = [c \in Connection |-> "away"] /\ kind = [c \in Connection |-> "none"]
  /\ worker = [c \in Connection |-> "none"] /\ writer = [c \in Connection |-> "free"]
  /\ sub = [c \in Connection |-> "none"] /\ sink = [c \in Connection |-> "idle"]
  /\ closed = [c \in Connection |-> FALSE] /\ finished = [c \in Connection |-> FALSE]
  /\ observed = [c \in Connection |-> FALSE]
  /\ count = [c \in Connection |-> 0] /\ wire = [c \in Connection |-> <<>>]

-----------------------------------------------------------------------------
\* Clients

\* A connection can be made while the listener is open.
Connect(c) ==
  /\ client[c] = "away" /\ loop \in { "checking", "accepting" }
  /\ client' = [client EXCEPT ![c] = "silent"] /\ backlog' = backlog \cup {c}
  /\ UNCHANGED << lifeVars, streamVars, loop, stopped, committed, dropped, woken, kind, worker,
                  wire >>

\* One request per connection; any other request ends as one that is refused.
Send(c) ==
  /\ client[c] = "silent" /\ client' = [client EXCEPT ![c] = "reading"]
  /\ \E k \in { "stop", "attach" } : kind' = [kind EXCEPT ![c] = k]
  /\ UNCHANGED << signalVars, lifeVars, streamVars, worker, wire >>

\* A client goes away, or stops reading.
Leave(c) ==
  /\ client[c] \in { "silent", "reading", "stalled" }
  /\ client' = [client EXCEPT ![c] = "left"]
  /\ UNCHANGED << signalVars, lifeVars, streamVars, kind, worker, wire >>

Stall(c) ==
  /\ c \in Rude /\ client[c] = "reading" /\ client' = [client EXCEPT ![c] = "stalled"]
  /\ UNCHANGED << signalVars, lifeVars, streamVars, kind, worker, wire >>

-----------------------------------------------------------------------------
\* The signal

\* notify_all wakes the workers that wait now; nobody holds the mutex, so it does
\* not wake one that has checked the flags and is about to wait.
Notified(workers) == [c \in Connection |-> IF workers[c] = "asleep" THEN "watching" ELSE workers[c]]

Stop(workers) == stopped' = TRUE /\ worker' = Notified(workers)

-----------------------------------------------------------------------------
\* The accepting thread

\* while !signal.is_stopped(): the listener and the connections in it are dropped,
\* and the signal is set once more.
LeaveLoop == loop' = "joining" /\ backlog' = {} /\ Stop(worker)

Check ==
  /\ loop = "checking"
  /\ IF stopped THEN LeaveLoop ELSE loop' = "accepting" /\ UNCHANGED << stopped, backlog, worker >>
  /\ UNCHANGED << clientVars, lifeVars, streamVars, committed, dropped, woken, wire >>

\* A connection that arrives after the flag is dropped; any other gets a worker.
Accept ==
  /\ loop = "accepting"
  /\ \/ stopped /\ (woken \/ backlog # {}) /\ LeaveLoop
     \/ /\ ~ stopped
        /\ \E c \in backlog :
             backlog' = backlog \ {c} /\ worker' = [worker EXCEPT ![c] = "reading"]
        /\ loop' = "checking" /\ UNCHANGED stopped
  /\ UNCHANGED << clientVars, lifeVars, streamVars, committed, dropped, woken, wire >>

\* Every worker is joined; then an accepted stop shuts the process down.
Join ==
  /\ loop = "joining" /\ \A c \in Connection : worker[c] \in { "none", "ended" }
  /\ loop' = "ended"
  /\ UNCHANGED << clientVars, lifeVars, streamVars, stopped, committed, dropped, woken, backlog,
                  worker, wire >>

\* ControlServer is dropped (the application quits, or its start failed).
Drop ==
  /\ ~ dropped /\ dropped' = TRUE /\ woken' = TRUE /\ Stop(worker)
  /\ UNCHANGED << clientVars, lifeVars, streamVars, loop, committed, backlog, wire >>

\* The drop joins the accepting thread and removes the descriptor.
DropEnds ==
  /\ dropped /\ loop = "ended" /\ descriptor /\ descriptor' = FALSE
  /\ UNCHANGED << clientVars, signalVars, streamVars, stopping, worker, wire >>

-----------------------------------------------------------------------------
\* Workers

Goes(c, s) == worker' = [worker EXCEPT ![c] = s]
Gone(c) == client[c] = "left"
Writes(c, frames) ==
  wire' = IF Gone(c) THEN wire ELSE [wire EXCEPT ![c] = @ \o frames]

\* read_line waits for the request, or for the end of the connection.
Read(c) ==
  /\ worker[c] = "reading" /\ (kind[c] # "none" \/ Gone(c))
  /\ Goes(c, IF kind[c] = "none" THEN "ended" ELSE "dispatching")
  /\ UNCHANGED << endpointVars, streamVars, wire >>

\* A request that is neither a stop nor an attachment, or that is refused: an
\* invalid token, active work without force, an unknown terminal.  A long reply
\* waits for its client.
Answer(c) ==
  /\ worker[c] = "dispatching"
  /\ \/ Goes(c, "ended") /\ Writes(c, << Response, Completion(0) >>)
     \/ client[c] = "stalled" /\ Goes(c, "replying") /\ UNCHANGED wire
  /\ UNCHANGED << endpointVars, streamVars >>

\* The write of a long reply fails when the client goes.
Reply(c) ==
  /\ worker[c] = "replying" /\ Gone(c) /\ Goes(c, "ended")
  /\ UNCHANGED << endpointVars, streamVars, wire >>

\* A stop that nothing blocks.
AcceptStop(c) ==
  /\ worker[c] = "dispatching" /\ kind[c] = "stop"
  /\ stopping' = TRUE /\ Goes(c, "withdrawing")
  /\ UNCHANGED << clientVars, signalVars, streamVars, descriptor, wire >>

\* The descriptor goes before the answer; one that cannot be removed refuses the stop.
Withdraw(c) ==
  /\ worker[c] = "withdrawing"
  /\ \/ descriptor' = FALSE /\ Goes(c, "answering") /\ UNCHANGED << stopping, wire >>
     \/ /\ descriptor /\ stopping' = FALSE /\ Goes(c, "ended")
        /\ Writes(c, << Response, Completion(0) >>) /\ UNCHANGED descriptor
  /\ UNCHANGED << clientVars, signalVars, streamVars >>

\* The acceptance is written, read or not.
AnswerStop(c) ==
  /\ worker[c] = "answering" /\ Goes(c, "committing")
  /\ Writes(c, << Response, Completion(0) >>)
  /\ UNCHANGED << endpointVars, streamVars >>

\* Mutant: the accepting thread is not woken.
CommitSilently(c) ==
  /\ worker[c] = "committing"
  /\ committed' = TRUE /\ Stop([worker EXCEPT ![c] = "ended"])
  /\ UNCHANGED << clientVars, lifeVars, streamVars, loop, dropped, woken, backlog, wire >>

\* The stop is recorded, the signal set, the accepting thread woken.
Commit(c) ==
  /\ worker[c] = "committing"
  /\ committed' = TRUE /\ woken' = TRUE /\ Stop([worker EXCEPT ![c] = "ended"])
  /\ UNCHANGED << clientVars, lifeVars, streamVars, loop, dropped, backlog, wire >>

-----------------------------------------------------------------------------
\* Attachments

\* Mutant: the worker subscribes without the lock of the stream.
AttachUnlocked(c) ==
  /\ worker[c] = "dispatching" /\ kind[c] = "attach"
  /\ \/ sub' = [sub EXCEPT ![c] = "live"] /\ Goes(c, "responding")
     \/ UNCHANGED sub /\ Goes(c, "showing")
  /\ UNCHANGED << endpointVars, writer, sink, closed, finished, observed, count, wire >>

\* The worker takes the lock of the stream before it subscribes; the observer of
\* the peer starts.
Attach(c) ==
  /\ worker[c] = "dispatching" /\ kind[c] = "attach"
  /\ writer' = [writer EXCEPT ![c] = "worker"]
  /\ \/ sub' = [sub EXCEPT ![c] = "live"] /\ Goes(c, "responding")
     \/ UNCHANGED sub /\ Goes(c, "showing")
  /\ UNCHANGED << endpointVars, sink, closed, finished, observed, count, wire >>

\* The terminal has exited: its last state is all there is.
ShowExited(c) ==
  /\ worker[c] = "showing" /\ client[c] # "stalled"
  /\ Writes(c, << Response, Completion(0) >>)
  /\ writer' = [writer EXCEPT ![c] = "free"] /\ Goes(c, "ended")
  /\ UNCHANGED << endpointVars, sub, sink, closed, finished, observed, count >>

\* Mutant: a client that left before the response stays attached.
RespondOnly(c) ==
  /\ worker[c] = "responding" /\ client[c] # "stalled"
  /\ Goes(c, IF Gone(c) THEN "ended" ELSE "watching")
  /\ Writes(c, << Response >>) /\ writer' = [writer EXCEPT ![c] = "free"]
  /\ UNCHANGED << endpointVars, sub, sink, closed, finished, observed, count >>

\* The response is the first frame; a client that left is detached at once.
Respond(c) ==
  /\ worker[c] = "responding" /\ client[c] # "stalled"
  /\ IF Gone(c)
       THEN /\ closed' = [closed EXCEPT ![c] = TRUE] /\ sub' = [sub EXCEPT ![c] = "none"]
            /\ Goes(c, "ended")
       ELSE Goes(c, "watching") /\ UNCHANGED << closed, sub >>
  /\ Writes(c, << Response >>) /\ writer' = [writer EXCEPT ![c] = "free"]
  /\ UNCHANGED << endpointVars, sink, finished, observed, count >>

\* wait_for_stream checks the flags under its mutex ...
Watch(c) ==
  /\ worker[c] = "watching"
  /\ Goes(c, IF stopped \/ finished[c] THEN "closing" ELSE "dozing")
  /\ UNCHANGED << endpointVars, streamVars, wire >>

\* ... and then waits.
Wait(c) ==
  /\ worker[c] = "dozing" /\ Goes(c, "asleep")
  /\ UNCHANGED << endpointVars, streamVars, wire >>

\* The sink is closed before the terminal is told.
CloseStream(c) ==
  /\ worker[c] = "closing" /\ Goes(c, "completing")
  /\ closed' = [closed EXCEPT ![c] = TRUE] /\ sub' = [sub EXCEPT ![c] = "none"]
  /\ UNCHANGED << endpointVars, writer, sink, finished, observed, count, wire >>

\* The completion carries the number of events; a frame in progress goes first.
Complete(c) ==
  /\ worker[c] = "completing" /\ writer[c] = "free" /\ client[c] # "stalled"
  /\ Writes(c, << Completion(count[c]) >>) /\ Goes(c, "ended")
  /\ UNCHANGED << endpointVars, streamVars >>

\* The observer of the peer: the connection ended, or a rude client sent more than
\* its request.
PeerLeft(c) ==
  /\ \/ Gone(c)
     \/ c \in Rude /\ client[c] \in { "reading", "stalled" }
  /\ kind[c] = "attach" /\ ~ observed[c]
  /\ worker[c] \notin { "none", "reading", "dispatching" }
  /\ observed' = [observed EXCEPT ![c] = TRUE]
  /\ finished' = [finished EXCEPT ![c] = TRUE] /\ worker' = Notified(worker)
  /\ UNCHANGED << endpointVars, writer, sub, sink, closed, count, wire >>

\* The terminal delivers an event: the sink is not closed yet.
Deliver(c) ==
  /\ sub[c] = "live" /\ sink[c] = "idle" /\ count[c] < MaxEvents
  /\ sink' = [sink EXCEPT ![c] = IF closed[c] THEN "idle" ELSE "ready"]
  /\ UNCHANGED << endpointVars, worker, writer, sub, closed, finished, observed, count, wire >>

\* Mutant: the sink does not check again when it has the lock.
EmitUnchecked(c) ==
  /\ sink[c] = "ready" /\ writer[c] = "free" /\ client[c] # "stalled"
  /\ count' = [count EXCEPT ![c] = @ + 1]
  /\ Writes(c, << Event(count[c] + 1) >>) /\ sink' = [sink EXCEPT ![c] = "idle"]
  /\ UNCHANGED << endpointVars, worker, writer, sub, closed, finished, observed >>

\* The sink has the lock: it checks again, numbers the event and writes it.  The
\* last event, or a write that fails, ends the stream.
Emit(c) ==
  /\ sink[c] = "ready" /\ writer[c] = "free" /\ client[c] # "stalled" /\ ~ closed[c]
  /\ \E last \in BOOLEAN :
       IF last \/ Gone(c)
         THEN /\ finished' = [finished EXCEPT ![c] = TRUE] /\ worker' = Notified(worker)
              /\ sub' = [sub EXCEPT ![c] = "none"]
         ELSE UNCHANGED << finished, worker, sub >>
  /\ count' = [count EXCEPT ![c] = @ + 1]
  /\ Writes(c, << Event(count[c] + 1) >>) /\ sink' = [sink EXCEPT ![c] = "idle"]
  /\ UNCHANGED << endpointVars, writer, closed, observed >>

\* A client that does not read blocks the write, and with it the lock.
Block(c) ==
  /\ sink[c] = "ready" /\ writer[c] = "free" /\ client[c] = "stalled" /\ ~ closed[c]
  /\ sink' = [sink EXCEPT ![c] = "blocked"] /\ writer' = [writer EXCEPT ![c] = "sink"]
  /\ count' = [count EXCEPT ![c] = @ + 1]
  /\ UNCHANGED << endpointVars, worker, sub, closed, finished, observed, wire >>

\* The blocked write fails when the client goes.
Unblock(c) ==
  /\ sink[c] = "blocked" /\ Gone(c)
  /\ sink' = [sink EXCEPT ![c] = "idle"] /\ writer' = [writer EXCEPT ![c] = "free"]
  /\ sub' = [sub EXCEPT ![c] = "none"]
  /\ finished' = [finished EXCEPT ![c] = TRUE] /\ worker' = Notified(worker)
  /\ UNCHANGED << endpointVars, closed, observed, count, wire >>

\* The sink was closed while it waited for the lock.
Discard(c) ==
  /\ sink[c] = "ready" /\ writer[c] = "free" /\ closed[c]
  /\ sink' = [sink EXCEPT ![c] = "idle"]
  /\ UNCHANGED << endpointVars, worker, writer, sub, closed, finished, observed, count, wire >>

-----------------------------------------------------------------------------
Working(c) ==
  \/ Read(c) \/ Answer(c) \/ Reply(c) \/ AcceptStop(c) \/ Withdraw(c) \/ AnswerStop(c) \/ Commit(c)
  \/ Attach(c) \/ ShowExited(c) \/ Respond(c) \/ Watch(c) \/ Wait(c) \/ CloseStream(c) \/ Complete(c)

Delivering(c) == PeerLeft(c) \/ Emit(c) \/ Block(c) \/ Unblock(c) \/ Discard(c)

Accepting == Check \/ Accept \/ Join \/ DropEnds

Calling(c) == Connect(c) \/ Send(c) \/ Leave(c) \/ Stall(c) \/ Deliver(c)

ServerNext ==
  \/ Accepting \/ Drop
  \/ \E c \in Connection : Working(c) \/ Delivering(c) \/ Calling(c)

\* A client that is not rude sends its request or goes.
Polite(c) == c \notin Rude /\ (Send(c) \/ (client[c] = "silent" /\ Leave(c)))

ServerSpec == ServerInit /\ [][ServerNext]_serverVars
FairServerSpec ==
  /\ ServerSpec /\ WF_serverVars(Accepting)
  /\ \A c \in Connection : WF_serverVars(Working(c)) /\ WF_serverVars(Delivering(c)) /\ WF_serverVars(Polite(c))

-----------------------------------------------------------------------------
\* Properties

\* Every variable keeps its type (control.rs:323-356, 941-1017).
ServerTypeOK ==
  /\ loop \in { "checking", "accepting", "joining", "ended" }
  /\ { stopped, stopping, descriptor, committed, dropped, woken } \subseteq BOOLEAN
  /\ backlog \subseteq Connection
  /\ client \in [Connection -> { "away", "silent", "reading", "stalled", "left" }]
  /\ kind \in [Connection -> { "none", "stop", "attach" }]
  /\ worker \in [Connection -> { "none", "reading", "dispatching", "replying", "withdrawing", "answering",
                                 "committing", "responding", "showing", "watching", "dozing",
                                 "asleep", "closing", "completing", "ended" }]
  /\ writer \in [Connection -> { "free", "worker", "sink" }]
  /\ sub \in [Connection -> { "none", "live" }]
  /\ sink \in [Connection -> { "idle", "ready", "blocked" }]
  /\ closed \in [Connection -> BOOLEAN] /\ finished \in [Connection -> BOOLEAN]
  /\ observed \in [Connection -> BOOLEAN]
  /\ count \in [Connection -> 0..MaxEvents]
  /\ wire \in [Connection -> Seq({ Response } \cup { Event(n) : n \in 1..MaxEvents }
                                 \cup { Completion(n) : n \in 0..MaxEvents })]

\* What a client may receive: a response, events in order without a gap, and a
\* completion that counts them, after which nothing comes.
Whole(s) ==
  \A i \in 1..Len(s) :
    s[i] = IF i = 1 THEN Response
           ELSE IF i = Len(s) /\ s[i][1] = "completion" THEN Completion(i - 2)
           ELSE Event(i - 1)

\* Every stream is whole at any time, and a request whose client still listens
\* ends with its completion, also when the server stops meanwhile (the client
\* treats anything else as an error, control.rs:1280-1345, 2183-2236).
StreamsAreWhole ==
  \A c \in Connection :
    /\ Whole(wire[c])
    /\ worker[c] = "ended" /\ ~ Gone(c) =>
         wire[c] # <<>> /\ wire[c][Len(wire[c])][1] = "completion"

\* A worker that ended left no subscription behind, the server no worker, and a
\* stop that was accepted no descriptor (control.rs:410-425, 1067-1085).
NothingOfStreamsLeft ==
  /\ \A c \in Connection : worker[c] = "ended" => sub[c] = "none" /\ writer[c] # "worker"
  /\ loop = "ended" => \A c \in Connection : worker[c] \in { "none", "ended" }
  /\ committed => ~ descriptor

\* A worker that slept through the notification it waits for.
Missed(c) == worker[c] = "asleep" /\ (stopped \/ finished[c])
\* A client that does not send, or does not read, keeps its worker.
Kept(c) ==
  \/ worker[c] = "reading" /\ client[c] = "silent"
  \/ worker[c] \in { "replying", "responding", "showing", "completing" } /\ client[c] = "stalled"

\* A server that is told to stop ends, unless a client keeps a worker or a worker
\* missed its notification for good; a client that left is detached, with the
\* same exception (control.rs:331-355, 410-425).  Nothing of it is undone, so in the
\* end it has happened.
ServerSettles ==
  <>[] /\ stopped => loop = "ended" \/ \E c \in Connection : Kept(c) \/ Missed(c)
       /\ \A c \in Connection : Gone(c) => sub[c] = "none" \/ Missed(c)

\* "live_terminal_attachment_does_not_block_server_shutdown" (control.rs:3431):
\* a server that is told to stop ends.
StopIsNotBlocked == stopped ~> loop = "ended"
=============================================================================
