----------------------------- MODULE TerminalScreen -----------------------------
(***************************************************************************)
(* The screen of one semantic terminal on its way to a view: the actor     *)
(* that publishes screens against credit (terminal_host/runtime.rs), the   *)
(* leases of the semantic service (semantic_terminal/service.rs), the      *)
(* adapter of the webview (platform/semanticTerminals.ts) and the          *)
(* controller and session of the view (modules/semantic-terminal).         *)
(*                                                                         *)
(* A screen stands for the output it shows: screen n is the one that the   *)
(* n-th occurrence left.  Effects, history, input and selections are left  *)
(* out.  The commands of the webview are served in the order of its calls, *)
(* on the main thread.                                                     *)
(***************************************************************************)
EXTENDS Naturals, Sequences, FiniteSets

CONSTANTS
  MaxAttach,   \* model bound on attachments
  MaxOutput    \* model bound on occurrences of output

Attachment == 1..MaxAttach

VARIABLES
  native,     \* the actor: last occurrence and revision, those of its screen, whether it exited
  sub,        \* of an attachment: what the actor keeps of it
  authority,  \* the attachment that may resize, 0 for none
  leases,     \* the attachments the semantic service knows
  wire,       \* of an attachment: the events on their way to the webview
  calls,      \* the commands on their way to the host
  refused,    \* the attachments with a credit that was refused
  att,        \* of an attachment: the adapter of the webview
  view,       \* the controller of the view
  shown,      \* the screen the view shows, 0 for none
  exitSeen    \* the webview knows of the exit

vars == << native, sub, authority, leases, wire, calls, refused, att, view, shown, exitSeen >>
hostVars == << native, sub, authority, leases, wire >>
webVars == << att, view, shown >>

NoSub == [live |-> FALSE, inflight |-> 0, credit |-> FALSE, last |-> 0]
NoAtt == [phase |-> "none", prev |-> 0, live |-> FALSE, seq |-> 0, rev |-> 0, screen |-> 0, awaiting |-> FALSE]
NewView == [gone |-> FALSE, demand |-> FALSE, starting |-> FALSE, opening |-> 0, lease |-> 0,
            attached |-> FALSE, ended |-> FALSE, credit |-> FALSE]

-----------------------------------------------------------------------------
(***************************************************************************)
(* The actor of the terminal.                                              *)
(***************************************************************************)

\* Mutant: a screen leaves the credit it was published against.
PublishedAndKept(n, subs) ==
  LET due == {a \in Attachment : subs[a].live /\ subs[a].credit /\ subs[a].last < n.screen}
  IN  /\ sub' = [a \in Attachment |-> IF a \in due
           THEN [subs[a] EXCEPT !.inflight = n.screen, !.last = n.screen] ELSE subs[a]]
      /\ wire' = [a \in Attachment |-> IF a \in due
           THEN Append(wire[a], [seq |-> n.screen, rev |-> n.screenRev]) ELSE wire[a]]

\* Every attachment with credit for a screen it has not seen is sent the last one.
Published(n, subs) ==
  LET due == {a \in Attachment : subs[a].live /\ subs[a].credit /\ subs[a].last < n.screen}
  IN  /\ sub' = [a \in Attachment |-> IF a \in due
           THEN [subs[a] EXCEPT !.credit = FALSE, !.inflight = n.screen, !.last = n.screen]
           ELSE subs[a]]
      /\ wire' = [a \in Attachment |-> IF a \in due
           THEN Append(wire[a], [seq |-> n.screen, rev |-> n.screenRev]) ELSE wire[a]]

Output ==
  /\ ~ native.exited /\ native.seq < MaxOutput
  /\ LET n == [native EXCEPT !.seq = @ + 1, !.rev = @ + 1,
                             !.screen = native.seq + 1, !.screenRev = native.rev + 1]
     IN  native' = n /\ Published(n, sub)
  /\ UNCHANGED << authority, leases, calls, refused, webVars, exitSeen >>

\* Metadata, activity and closing revise the record and leave the screen.
Revise ==
  /\ native.rev < native.seq + 2
  /\ native' = [native EXCEPT !.rev = @ + 1]
  /\ UNCHANGED << sub, authority, leases, wire, calls, refused, webVars, exitSeen >>

\* The exit ends every attachment, also one with a screen to come.
Exit ==
  /\ ~ native.exited
  /\ native' = [native EXCEPT !.exited = TRUE, !.seq = @ + 1, !.rev = @ + 1]
  /\ sub' = [a \in Attachment |-> NoSub] /\ authority' = 0
  /\ UNCHANGED << leases, wire, calls, refused, webVars, exitSeen >>

SeeExit ==
  /\ native.exited /\ ~ exitSeen /\ exitSeen' = TRUE
  /\ UNCHANGED << hostVars, calls, refused, webVars >>

-----------------------------------------------------------------------------
(***************************************************************************)
(* The commands.                                                           *)
(***************************************************************************)

Served(op, a) == calls # << >> /\ Head(calls).op = op /\ Head(calls).a = a /\ calls' = Tail(calls)

\* A terminal that exited gives its last screen and no attachment.
ServeAttach(a) ==
  /\ Served("attach", a)
  /\ att' = [att EXCEPT ![a] = [@ EXCEPT !.phase = "replied", !.live = ~ native.exited,
       !.seq = native.seq, !.rev = native.rev, !.screen = native.screen]]
  /\ IF native.exited THEN UNCHANGED << sub, authority, leases >>
     ELSE /\ sub' = [sub EXCEPT ![a] =
               [live |-> TRUE, inflight |-> native.seq, credit |-> FALSE, last |-> native.seq]]
          /\ authority' = a /\ leases' = leases \cup {a}
  /\ UNCHANGED << native, wire, refused, view, shown, exitSeen >>

\* Mutant: a credit waits for the next output.
ServeCreditLater(a) ==
  /\ Served("credit", a)
  /\ IF a \in leases /\ sub[a].live /\ sub[a].inflight = Head(calls).seq
     THEN /\ sub' = [sub EXCEPT ![a].inflight = 0, ![a].credit = TRUE]
          /\ UNCHANGED << wire, refused >>
     ELSE refused' = refused \cup {a} /\ UNCHANGED << sub, wire >>
  /\ UNCHANGED << native, authority, leases, webVars, exitSeen >>

\* Credit commits the screen in flight and releases the next one.
ServeCredit(a) ==
  /\ Served("credit", a)
  /\ IF a \in leases /\ sub[a].live /\ sub[a].inflight = Head(calls).seq
     THEN /\ Published(native, [sub EXCEPT ![a].inflight = 0, ![a].credit = TRUE])
          /\ UNCHANGED refused
     ELSE refused' = refused \cup {a} /\ UNCHANGED << sub, wire >>
  /\ UNCHANGED << native, authority, leases, webVars, exitSeen >>

\* What is not attached is detached.
ServeDetach(a) ==
  /\ Served("detach", a)
  /\ sub' = [sub EXCEPT ![a] = NoSub] /\ leases' = leases \ {a}
  /\ authority' = IF authority = a THEN 0 ELSE authority
  /\ UNCHANGED << native, wire, refused, webVars, exitSeen >>

-----------------------------------------------------------------------------
(***************************************************************************)
(* The adapter and the controller.  The operators map a state of the       *)
(* webview, with the calls it made, to the next one.                       *)
(***************************************************************************)

Web == [view |-> view, att |-> att, calls |-> calls, shown |-> shown]
Becomes(w) ==
  /\ view' = w.view /\ att' = w.att /\ calls' = w.calls /\ shown' = w.shown

Running == ~ exitSeen
Used == Cardinality({a \in Attachment : att[a].phase # "none"})

Asked(w, op, a, n) == [w EXCEPT !.calls = Append(@, [op |-> op, a |-> a, seq |-> n])]

\* A lease is closed once, whoever closes it.
Closed(w, a) ==
  IF a # 0 /\ w.att[a].phase \in {"open", "replied"}
  THEN Asked([w EXCEPT !.att[a].phase = "closed"], "detach", a, 0) ELSE w

Stopped(w) == [w EXCEPT !.view.ended = TRUE, !.view.credit = FALSE]

\* A view that shows its terminal gives the credit it holds back, and the adapter asks
\* for the next screen.
Granted(w) ==
  IF w.view.credit /\ w.view.demand /\ ~ w.view.ended /\ w.view.lease # 0
  THEN LET a == w.view.lease
       IN  Asked([w EXCEPT !.view.credit = FALSE, !.att[a].awaiting = TRUE], "credit", a, w.att[a].seq)
  ELSE w

\* One attachment at a time is opened, and the last one is detached first.
Opened(w) ==
  IF w.view.gone \/ w.view.opening # 0 THEN w
  ELSE IF ~ Running THEN Stopped(w)
  ELSE LET a == Used + 1
           last == w.view.lease
           v == [w.view EXCEPT !.opening = a, !.lease = 0, !.attached = FALSE, !.ended = FALSE]
           x == [Closed(w, last) EXCEPT !.view = v, !.att[a].prev = last]
       IN  IF last # 0 THEN [x EXCEPT !.att[a].phase = "waiting"]
           ELSE Asked([x EXCEPT !.att[a].phase = "asked"], "attach", a, 0)

\* Recovery takes a new baseline while the terminal runs.
Recovered(w) ==
  IF w.view.gone \/ w.view.ended THEN w
  ELSE IF ~ Running THEN Stopped(w)
  ELSE Opened([w EXCEPT !.view.credit = FALSE])

AskAttach(a) ==
  /\ att[a].phase = "waiting"
  /\ ~ \E i \in DOMAIN calls : calls[i].op = "detach" /\ calls[i].a = att[a].prev
  /\ Becomes(Asked([Web EXCEPT !.att[a].phase = "asked"], "attach", a, 0))
  /\ UNCHANGED << hostVars, refused, exitSeen >>

Baseline(w, a) ==
  [w EXCEPT !.att[a].phase = "open", !.shown = w.att[a].screen,
            !.view = [@ EXCEPT !.opening = 0, !.lease = a, !.attached = TRUE,
                               !.ended = ~ w.att[a].live, !.credit = TRUE]]

\* Mutant: an attachment that nobody waits for is left alone.
AttachReplyDropped(a) ==
  /\ att[a].phase = "replied"
  /\ Becomes(IF view.opening # a THEN [Web EXCEPT !.att[a].phase = "closed"]
             ELSE LET w == Baseline(Web, a)
                  IN  IF att[a].live THEN Granted(w) ELSE Closed(Stopped(w), a))
  /\ UNCHANGED << hostVars, refused, exitSeen >>

\* The baseline is installed, or given up when its view is gone.
AttachReply(a) ==
  /\ att[a].phase = "replied"
  /\ Becomes(IF view.opening # a THEN Closed(Web, a)
             ELSE LET w == Baseline(Web, a)
                  IN  IF att[a].live THEN Granted(w) ELSE Closed(Stopped(w), a))
  /\ UNCHANGED << hostVars, refused, exitSeen >>

\* A screen nobody asked for, or an older one, ends the attachment for good.
Receive(a) ==
  /\ wire[a] # << >> /\ att[a].phase \in {"open", "closed", "failed"}
  /\ wire' = [wire EXCEPT ![a] = Tail(@)]
  /\ LET e == Head(wire[a])
         expected == att[a].awaiting /\ e.seq >= att[a].seq /\ e.rev > att[a].rev
     IN  Becomes(
           IF att[a].phase # "open" THEN Web
           ELSE IF ~ expected THEN [Closed(Stopped(Web), a) EXCEPT !.att[a].phase = "failed"]
           ELSE Granted([Web EXCEPT !.shown = e.seq, !.view.credit = TRUE,
                  !.att[a] = [@ EXCEPT !.awaiting = FALSE, !.seq = e.seq, !.rev = e.rev]]))
  /\ UNCHANGED << native, sub, authority, leases, refused, exitSeen >>

\* A credit that was refused ends the attachment, and the view recovers.
CreditRefused(a) ==
  /\ a \in refused /\ Used < MaxAttach
  /\ refused' = refused \ {a}
  /\ Becomes(IF att[a].phase # "open" THEN Web
             ELSE Closed(Recovered([Web EXCEPT !.att[a].awaiting = FALSE]), a))
  /\ UNCHANGED << hostVars, exitSeen >>

-----------------------------------------------------------------------------
(***************************************************************************)
(* The view.                                                               *)
(***************************************************************************)

Reveal ==
  /\ ~ view.gone /\ ~ view.demand
  /\ Becomes(Granted([Web EXCEPT !.view.demand = TRUE, !.view.starting = TRUE]))
  /\ UNCHANGED << hostVars, refused, exitSeen >>

\* A frame and a fit after the view was shown, the controller starts.
Start ==
  /\ view.starting /\ (view.attached \/ Used < MaxAttach)
  /\ LET w == [Web EXCEPT !.view.starting = FALSE]
     IN  Becomes(IF view.attached THEN w ELSE IF ~ Running THEN Stopped(w) ELSE Opened(w))
  /\ UNCHANGED << hostVars, refused, exitSeen >>

Conceal ==
  /\ ~ view.gone /\ view.demand
  /\ Becomes([Web EXCEPT !.view.demand = FALSE, !.view.starting = FALSE])
  /\ UNCHANGED << hostVars, refused, exitSeen >>

\* The view and its model go; the tab may be mounted again.
Dispose ==
  /\ ~ view.gone
  /\ Becomes([Closed(Web, view.lease) EXCEPT !.view = [NewView EXCEPT !.gone = TRUE], !.shown = 0])
  /\ UNCHANGED << hostVars, refused, exitSeen >>

Mount ==
  /\ view.gone /\ Used < MaxAttach
  /\ view' = NewView
  /\ UNCHANGED << hostVars, calls, refused, att, shown, exitSeen >>

-----------------------------------------------------------------------------
Init ==
  /\ native = [seq |-> 0, rev |-> 1, screen |-> 0, screenRev |-> 1, exited |-> FALSE]
  /\ sub = [a \in Attachment |-> NoSub]
  /\ authority = 0 /\ leases = {} /\ calls = << >> /\ refused = {}
  /\ wire = [a \in Attachment |-> << >>]
  /\ att = [a \in Attachment |-> NoAtt]
  /\ view = NewView /\ shown = 0 /\ exitSeen = FALSE

Serving == \E a \in Attachment : ServeAttach(a) \/ ServeCredit(a) \/ ServeDetach(a)
Reacting == \E a \in Attachment : AskAttach(a) \/ AttachReply(a) \/ Receive(a) \/ CreditRefused(a)

Next == Output \/ Revise \/ Exit \/ SeeExit \/ Serving \/ Reacting
          \/ Reveal \/ Start \/ Conceal \/ Dispose \/ Mount

Spec == Init /\ [][Next]_vars

\* The main thread and the event loop run on, and frames are drawn; the child and the
\* user owe nothing.
FairSpec == Spec /\ WF_vars(Serving) /\ WF_vars(Reacting) /\ WF_vars(Start)

-----------------------------------------------------------------------------
(***************************************************************************)
(* Properties.                                                             *)
(***************************************************************************)

\* Every variable keeps its type (runtime.rs:1619-1663, semanticTerminals.ts:336-360).
TypeOK ==
  /\ native \in [seq : 0..MaxOutput + 1, rev : Nat, screen : 0..MaxOutput, screenRev : Nat, exited : BOOLEAN]
  /\ sub \in [Attachment -> [live : BOOLEAN, inflight : Nat, credit : BOOLEAN, last : Nat]]
  /\ authority \in 0..MaxAttach /\ leases \subseteq Attachment /\ refused \subseteq Attachment
  /\ wire \in [Attachment -> Seq([seq : Nat, rev : Nat])]
  /\ calls \in Seq([op : {"attach", "credit", "detach"}, a : Attachment, seq : Nat])
  /\ att \in [Attachment -> [prev : 0..MaxAttach, live : BOOLEAN, seq : Nat, rev : Nat, screen : Nat,
       awaiting : BOOLEAN, phase : {"none", "waiting", "asked", "replied", "open", "closed", "failed"}]]
  /\ view \in [gone : BOOLEAN, demand : BOOLEAN, starting : BOOLEAN, opening : 0..MaxAttach,
               lease : 0..MaxAttach, attached : BOOLEAN, ended : BOOLEAN, credit : BOOLEAN]
  /\ shown \in Nat /\ exitSeen \in BOOLEAN

\* The actor and the adapter count the same credit: one screen at a time is on its way,
\* and none that the adapter takes for a failure of the protocol, which would end the
\* view for good (semanticTerminals.ts:494-515).
ProtocolHolds ==
  \A a \in Attachment : att[a].phase # "failed" /\ Len(wire[a]) <= 1

Settled == calls = << >> /\ \A a \in Attachment : att[a].phase \notin {"waiting", "asked", "replied"}

\* Whatever a view was doing when it went, in the end the host keeps no subscriber and
\* no lease of it, and while it is there only its own attachment may resize
\* (semanticTerminalAttachmentController.ts:168-206, runtime.rs:1386-1393).
NothingLeft ==
  Settled => \A a \in Attachment :
    /\ sub[a].live \/ a \in leases \/ authority = a => view.lease = a
    /\ view.lease = a /\ sub[a].live => authority = a

\* A view that stays on the screen of a terminal that runs shows its last screen
\* (runtime.rs:1026-1032).
ScreenCatchesUp ==
  <>[](view.demand /\ ~ native.exited) => <>[](shown = native.screen)

\* "a non-zero exit keeps its final screen for diagnosis" (terminalClientRuntime.ts:422-423):
\* a view that shows the terminal when all is settled shows what was written last.
FinalScreenKept ==
  exitSeen /\ view.attached /\ Settled /\ (\A a \in Attachment : wire[a] = << >>)
    => shown = native.screen
=============================================================================
