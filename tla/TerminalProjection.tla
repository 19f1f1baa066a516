--------------------------- MODULE TerminalProjection ---------------------------
(***************************************************************************)
(* The projection of the terminals of a host in a webview                  *)
(* (terminalClientRuntime.ts), fed by the publications of the host         *)
(* (TerminalServiceInner::publish_registry_event), by the answers to its    *)
(* own commands and by lists.                                              *)
(*                                                                         *)
(* The host is its promise, TerminalLives.  The check that a terminal is   *)
(* registered and the delivery of a descriptor are two steps, and answers  *)
(* travel apart from events.                                               *)
(***************************************************************************)
EXTENDS TerminalLives, Sequences

CONSTANTS
  None,
  MaxRevision,  \* model bound on revisions
  MaxLists      \* model bound on requests for the list

VARIABLES
  told,      \* of a terminal: the last revision that its actor published
  outbox,    \* of a publisher: a descriptor on its way to the sinks
  announced, \* the terminals whose spawn was answered
  leaving,   \* the terminals whose removal is not published yet
  subscribed,\* whether the webview subscribed
  channel,   \* registry events on their way to it
  replies,   \* answers on their way to it
  confirmed, \* the terminals that it closed
  list,      \* its requests for the list
  seen,      \* its descriptors
  removals,  \* its tombstones: terminals whose removal it remembers
  gone       \* history: every terminal that it saw removed

hostVars == << livesVars, told, announced, leaving >>
clientVars == << subscribed, confirmed, list, seen, removals, gone >>
vars == << hostVars, outbox, channel, replies, clientVars >>

Publisher == {"spawn", "actor"}
Request == 1..MaxLists
Descriptor(t, d) == [terminal |-> t, stage |-> d.stage, rev |-> d.rev]

-----------------------------------------------------------------------------
(***************************************************************************)
(* The host.                                                               *)
(***************************************************************************)

Born(t) ==
  /\ Register(t)
  /\ UNCHANGED << told, announced, leaving, outbox, channel, replies, clientVars >>

\* The spawn publishes the descriptor that it answers with; the webview may have
\* asked for it.
Announce(t) ==
  /\ t \in born \ announced /\ announced' = announced \cup {t}
  /\ outbox' = [outbox EXCEPT ![t]["spawn"] = [what |-> Descriptor(t, shown[t]), checked |-> FALSE]]
  /\ replies' \in {replies, replies \cup {Descriptor(t, shown[t])}}
  /\ UNCHANGED << livesVars, told, leaving, channel, clientVars >>

\* The actor revises and publishes, for a change that keeps the stage or for the
\* exit; the webview may have asked for it.
Revise(t, stage) ==
  /\ t \in born /\ outbox[t]["actor"] = None /\ shown[t].rev < MaxRevision
  /\ shown' = [shown EXCEPT ![t].stage = stage, ![t].rev = @ + 1]
  /\ UNCHANGED records /\ Change
  /\ told' = [told EXCEPT ![t] = shown'[t].rev]
  /\ outbox' = [outbox EXCEPT ![t]["actor"] = [what |-> Descriptor(t, shown'[t]), checked |-> FALSE]]
  /\ \/ stage # 4 /\ replies' = replies \cup {Descriptor(t, shown'[t])}
     \/ UNCHANGED replies
  /\ UNCHANGED << announced, leaving, channel, clientVars >>

\* A caller of close marks the record, and the actor publishes that later.
Mark(t) ==
  /\ t \in records /\ shown[t].stage < 3 /\ shown[t].rev < MaxRevision
  /\ shown' = [shown EXCEPT ![t].stage = 3, ![t].rev = @ + 1]
  /\ UNCHANGED records /\ Change
  /\ UNCHANGED << told, announced, leaving, outbox, channel, replies, clientVars >>

PublishMark(t) ==
  /\ shown[t].stage = 3 /\ told[t] < shown[t].rev /\ outbox[t]["actor"] = None
  /\ told' = [told EXCEPT ![t] = shown[t].rev]
  /\ outbox' = [outbox EXCEPT ![t]["actor"] = [what |-> Descriptor(t, shown[t]), checked |-> FALSE]]
  /\ UNCHANGED << livesVars, announced, leaving, channel, replies, clientVars >>

\* Who closed it publishes the removal; a shutdown and a failed start do not.
Leave(t) ==
  /\ t \in records /\ records' = records \ {t} /\ UNCHANGED shown /\ Change
  /\ leaving' \in {leaving, leaving \cup {t}}
  /\ UNCHANGED << told, announced, outbox, channel, replies, clientVars >>

Send(e) == channel' = IF subscribed THEN Append(channel, e) ELSE channel

PublishRemoval(t) ==
  /\ t \in leaving /\ leaving' = leaving \ {t}
  /\ Send([event |-> "removed", terminal |-> t])
  /\ UNCHANGED << livesVars, told, announced, outbox, replies, clientVars >>

\* A descriptor is dropped if its terminal is not registered; the sinks are read
\* after that check.
Check(t, p) ==
  /\ outbox[t][p] # None /\ ~ outbox[t][p].checked
  /\ outbox' = [outbox EXCEPT ![t][p] =
       IF t \in records THEN [what |-> outbox[t][p].what, checked |-> TRUE] ELSE None]
  /\ UNCHANGED << hostVars, channel, replies, clientVars >>

Deliver(t, p) ==
  /\ outbox[t][p] # None /\ outbox[t][p].checked
  /\ Send([event |-> "upserted", what |-> outbox[t][p].what])
  /\ outbox' = [outbox EXCEPT ![t][p] = None]
  /\ UNCHANGED << hostVars, replies, clientVars >>

-----------------------------------------------------------------------------
(***************************************************************************)
(* The webview.  Every descriptor and every removal that it observes, and  *)
(* every row that it takes from a list, is stamped; a request for the list *)
(* remembers when it was asked, so "since" holds the terminals whose stamp *)
(* is younger.  Requests overlap, and are answered in any order.           *)
(***************************************************************************)

Stamp(T) == [i \in Request |->
  IF list[i].pc = "none" THEN list[i] ELSE [list[i] EXCEPT !.since = @ \cup T]]

\* Mutant: the list is asked for before the subscription.
AsksAnyTime(i) ==
  /\ list[i].pc = "none" /\ \A j \in 1..(i - 1) : list[j].pc # "none"
  /\ list' = [list EXCEPT ![i].pc = "asked"]
  /\ UNCHANGED << hostVars, outbox, channel, replies, subscribed, confirmed, seen, removals, gone >>

Subscribe ==
  /\ ~ subscribed /\ subscribed' = TRUE
  /\ UNCHANGED << hostVars, outbox, channel, replies, confirmed, list, seen, removals, gone >>

\* After it subscribed, the webview asks for the list; and so does every launch
\* of a managed session.
RequestList(i) ==
  /\ subscribed /\ list[i].pc = "none" /\ \A j \in 1..(i - 1) : list[j].pc # "none"
  /\ list' = [list EXCEPT ![i].pc = "asked"]
  /\ UNCHANGED << hostVars, outbox, channel, replies, subscribed, confirmed, seen, removals, gone >>

ServeList(i) ==
  /\ list[i].pc = "asked"
  /\ list' = [list EXCEPT ![i].pc = "answered",
                          ![i].rows = {Descriptor(t, shown[t]) : t \in records}]
  /\ UNCHANGED << hostVars, outbox, channel, replies, subscribed, confirmed, seen, removals, gone >>

CommitUpsert(d) ==
  LET t == d.terminal IN
  IF seen[t] # None /\ seen[t].rev >= d.rev
  THEN UNCHANGED << seen, list, removals, gone >>
  ELSE /\ seen' = [seen EXCEPT ![t] = d]
       /\ list' = Stamp({t})
       /\ removals' = removals \ {t}
       /\ UNCHANGED gone

CommitRemoval(t) ==
  /\ seen' = [seen EXCEPT ![t] = None]
  /\ list' = Stamp({t})
  /\ removals' = removals \cup {t}
  /\ gone' = gone \cup {t}

Receive ==
  /\ channel # << >> /\ channel' = Tail(channel)
  /\ LET e == Head(channel) IN
       IF e.event = "upserted" THEN CommitUpsert(e.what) ELSE CommitRemoval(e.terminal)
  /\ UNCHANGED << hostVars, outbox, replies, subscribed, confirmed >>

ReceiveReply(d) ==
  /\ d \in replies /\ replies' = replies \ {d}
  /\ CommitUpsert(d)
  /\ UNCHANGED << hostVars, outbox, channel, subscribed, confirmed >>

\* A close that succeeded is the absence of its terminal; a second closer may be
\* answered before the removal is published.
Confirm(t) ==
  /\ t \in born \ (records \cup confirmed) /\ confirmed' = confirmed \cup {t}
  /\ CommitRemoval(t)
  /\ UNCHANGED << hostVars, outbox, channel, replies, subscribed >>

\* Mutant: the list replaces the projection.
ObservedIsReplaced(i, t) == FALSE

\* An observation since the request, or of a later revision than its row, wins.
Observed(i, t) ==
  /\ seen[t] # None
  /\ t \in list[i].since \/ \E d \in list[i].rows : d.terminal = t /\ seen[t].rev > d.rev

TakenFrom(i) == {d.terminal : d \in list[i].rows} \ {t \in Terminal : Observed(i, t)}

\* Mutant: whatever was observed since the request becomes a tombstone.
TombstonesOfAll(i) == list[i].since

\* The tombstones that a list leaves: removals since it was asked for.
Tombstones(i) == removals \cap list[i].since

CommitList(i) ==
  /\ list[i].pc = "answered"
  /\ LET taken == TakenFrom(i) \ Tombstones(i) IN
     /\ seen' = [t \in Terminal |->
          IF t \in taken THEN CHOOSE d \in list[i].rows : d.terminal = t
          ELSE IF Observed(i, t) THEN seen[t] ELSE None]
     /\ list' = [Stamp(taken) EXCEPT ![i] = [pc |-> "done", rows |-> {}, since |-> {}]]
  /\ removals' = Tombstones(i)
  /\ UNCHANGED << hostVars, outbox, channel, replies, subscribed, confirmed, gone >>

-----------------------------------------------------------------------------
Init ==
  /\ LivesInit
  /\ told = [t \in Terminal |-> 0] /\ announced = {} /\ leaving = {}
  /\ outbox = [t \in Terminal |-> [p \in Publisher |-> None]]
  /\ subscribed = FALSE /\ channel = << >> /\ replies = {} /\ confirmed = {}
  /\ list = [i \in Request |-> [pc |-> "none", rows |-> {}, since |-> {}]]
  /\ seen = [t \in Terminal |-> None] /\ removals = {} /\ gone = {}

Hosting ==
  \E t \in Terminal :
    \/ Born(t) \/ Announce(t) \/ Mark(t) \/ PublishMark(t) \/ Leave(t) \/ PublishRemoval(t)
    \/ \E stage \in {shown[t].stage, 4} : Revise(t, stage)
    \/ \E p \in Publisher : Check(t, p) \/ Deliver(t, p)

Projecting ==
  \/ Subscribe \/ Receive
  \/ \E i \in Request : RequestList(i) \/ ServeList(i) \/ CommitList(i)
  \/ \E d \in replies : ReceiveReply(d)
  \/ \E t \in Terminal : Confirm(t)

Next == Hosting \/ Projecting

Spec == Init /\ [][Next]_vars

-----------------------------------------------------------------------------
(***************************************************************************)
(* Properties.                                                             *)
(***************************************************************************)

Descriptors == [terminal : Terminal, stage : Stage, rev : 0..MaxRevision]

\* Every variable keeps its type (terminalClientRuntime.ts:115-128).
TypeOK ==
  /\ records \subseteq born /\ born \subseteq Terminal /\ leaving \subseteq born
  /\ announced \subseteq born /\ confirmed \subseteq born
  /\ told \in [Terminal -> 0..MaxRevision]
  /\ outbox \in [Terminal -> [Publisher -> {None} \cup [what : Descriptors, checked : BOOLEAN]]]
  /\ replies \subseteq Descriptors
  /\ \A i \in Request : list[i].rows \subseteq Descriptors /\ list[i].since \subseteq Terminal
  /\ seen \in [Terminal -> {None} \cup Descriptors]
  /\ removals \subseteq gone /\ gone \subseteq born

\* No list takes a descriptor back that was observed after the request, or shows an
\* older one over a newer one, in whatever order lists are answered
\* (terminalClientRuntime.ts:378-388).
ListsNeverRegress ==
  [][\A i \in Request, t \in Terminal :
       list[i].pc = "answered" /\ list'[i].pc = "done" /\ seen[t] # None =>
         /\ t \in list[i].since => seen'[t] = seen[t]
         /\ seen'[t] # None => seen'[t].rev >= seen[t].rev]_vars

\* "so an in-flight `list` can never resurrect a terminal the host has removed"
\* (terminalClientRuntime.ts:112-114): no list brings back a terminal whose removal
\* the webview observed.  A second list does (terminalClientRuntime.ts:396).
ListsNeverResurrect ==
  [][\A i \in Request, t \in gone :
       list[i].pc = "answered" /\ list'[i].pc = "done" /\ seen[t] = None => seen'[t] = None]_vars

\* Once a list is taken and nothing is on its way, the webview shows every registered
\* terminal: to subscribe first and to list then misses none, however lists, events
\* and answers overtake each other (terminalClientRuntime.ts:142-157).
Quiet ==
  /\ channel = << >> /\ replies = {} /\ leaving = {}
  /\ \A t \in Terminal, p \in Publisher : outbox[t][p] = None
  /\ \A i \in Request : list[i].pc \in {"none", "done"}
  /\ \E i \in Request : list[i].pc = "done"
NothingMissed == Quiet => \A t \in records \cap announced : seen[t] # None
=============================================================================
